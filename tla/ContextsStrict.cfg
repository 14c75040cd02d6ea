\* One session with three prompts and two events, strict or raw actions, and exports to return to.
SPECIFICATION Spec
CONSTANTS
    p1 = p1
    p2 = p2
    p3 = p3
    Sessions = {s1}
    Prompts = {p1, p2, p3}
    Tactics = {a1}
    Events = {e1, e2}
    FinalEvent = final
    None = None
    MaxContexts = 2
    MaxBatches = 2
    MaxDraws = 5
    MaxSaved = 1
INVARIANTS ContextsAreLineage TrainedOnRecorded ExportedIsImportable StreamIsAccounted
SYMMETRY Symmetry
CHECK_DEADLOCK FALSE
