\* A creation the backend refuses before allocating anything keeps its slot.
SPECIFICATION Spec
CONSTANTS
    s1 = s1
    s2 = s2
    r1 = r1
    Sessions = {s1, s2}
    Theorems = {t1}
    Names = {n1}
    EventIds = {e1}
    Payloads = {p1}
    FinalEvents = {e1}
    Experiences = {}
    Releases = {}
    ReleaseLearner <- NoLearner
    None = None
    MaxResident = 1
    MaxRevision = 9
    MaxDraws = 0
INVARIANT SlotsAreOwned
CHECK_DEADLOCK FALSE
