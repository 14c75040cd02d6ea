\* Two sessions share the model, in five pairs of profile and scoring mode; every call may fail after every step.
SPECIFICATION Spec
CONSTANTS
    s1 = s1
    s2 = s2
    pad = pad
    eos = eos
    p1 = p1
    space = space
    Space = space
    Sessions = {s1, s2}
    Configs <- SmallConfigs
    Answers <- GeneratedRows
    Tokens <- Vocabulary
    Prompt <- PaddedPrompt
    Pad = pad
    Eos = eos
    None = None
    Torn = Torn
    MaxUpdates = 1
    MaxDraws = 1
    MaxSaved = 1
INVARIANTS PartsAgree ModelAtRest NothingLeaks AnswersAreOwn
PROPERTIES FailedCallsChangeNothing
CHECK_DEADLOCK FALSE
SYMMETRY Symmetry
