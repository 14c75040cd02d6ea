\* Two processes, three training steps.
SPECIFICATION Spec
CONSTANTS
    Processes = {p, q}
    MaxSteps = 3
    MaxAttempts = 2
    None = None
    Torn = Torn
SYMMETRY Symmetry
INVARIANTS TrainedOnce LogIsTrained HeadIsCertified LiveIsCurrent
PROPERTIES ImplementsLedger
CHECK_DEADLOCK FALSE
