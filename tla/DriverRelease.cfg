\* Two problems against a server with two slots.
SPECIFICATION Spec
CONSTANTS
    p1 = p1
    p2 = p2
    Problems <- TwoProblems
    Seconds = 2
    MaxResident = 2
    None = None
INVARIANT DoneIsReleased
CHECK_DEADLOCK FALSE
