\* One retirement, two readers of its receipt, two crashes.
SPECIFICATION Spec
CONSTANTS
    Readers = {a, b}
    MaxCrashes = 2
SYMMETRY Symmetry
INVARIANTS NothingIsLost AckedIsReadable ReportsAreTrue
