\* One session learns two events with two payloads each, snapshots, restores.
SPECIFICATION Spec
CONSTANTS
    s1 = s1
    s2 = s2
    r1 = r1
    Sessions = {s1}
    Theorems = {t1}
    Names = {n1, n2}
    EventIds = {e1, e2}
    Payloads = {p1, p2}
    FinalEvents = {e2}
    Experiences = {}
    Releases = {}
    ReleaseLearner <- NoLearner
    None = None
    MaxResident = 1
    MaxRevision = 8
    MaxDraws = 1
INVARIANTS ServedStateAgrees OncePerEvent WitnessIsLive
PROPERTIES CompletedIsFrozen
CHECK_DEADLOCK FALSE
