\* Two processes, three training steps, four replay rows and one human row a step.
SPECIFICATION ContinualSpec
CONSTANTS
    Processes = {p, q}
    MaxSteps = 3
    MaxAttempts = 1
    None = None
    Torn = Torn
    Sources = {"replay", "mathlib_sft"}
    Growing = "replay"
    Count <- FourToOne
    Hashes = {5}
    Catalogs <- SmallCatalogs
    Additions <- SmallAdditions
    MaxInteger = 12
    MaxRows = 9
SYMMETRY Symmetry
INVARIANTS NoStepIsRefused DrawsNextRows
PROPERTIES ImplementsSampler
CHECK_DEADLOCK FALSE
