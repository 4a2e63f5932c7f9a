SPECIFICATION Spec
CONSTANTS
    a1 = a1
    a2 = a2
    Applier = {a1, a2}
    Runner = Runner
    None = None
INVARIANTS
    AppliedOnce
    AutoApplicationRecorded
    ApplicationShown
PROPERTIES
    CompletedIsFinal
    KeepsPromise
CHECK_DEADLOCK FALSE
