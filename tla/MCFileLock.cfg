SPECIFICATION FairSpec
CONSTANTS
    c1 = c1
    c2 = c2
    c3 = c3
    p1 = p1
    p2 = p2
    p3 = p3
    None = None
    Caller = {c1, c2, c3}
    Doctor = {c3}
    Process = {p1, p2, p3}
    ProcOf <- OnePerProcess
INVARIANTS
    ExclusionUnlessExitRaced
PROPERTIES
    RemovedRightfully
    RequestsSettle
CHECK_DEADLOCK FALSE
