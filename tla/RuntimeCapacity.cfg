\* Two sessions of two theorems share one slot: creation, deletion, quarantine, retirement, publication, releases.
SPECIFICATION Spec
CONSTANTS
    s1 = s1
    s2 = s2
    r1 = r1
    Sessions = {s1, s2}
    Theorems = {t1, t2}
    Names = {n1}
    EventIds = {e1}
    Payloads = {p1}
    FinalEvents = {e1}
    Experiences = {x1}
    Releases = {r1}
    ReleaseLearner <- LearnerIs1
    None = None
    MaxResident = 1
    MaxRevision = 9
    MaxDraws = 0
PROPERTIES QuarantineIsSealed IdentityIsFixed ImplementsSlots
INVARIANTS CapacityHeld ReleasedIsGone
CHECK_DEADLOCK FALSE
