SPECIFICATION MCSpec
CONSTANTS
    x = x
    y = y
    NoFile = nofile
    Content = {x, y}
    Short = {x, y}
    Path <- SomePaths
    Scope = {1, 2}
    Applier = {a, b}
    MaxApplies = 2
    MaxEvents = 1
INVARIANTS
    RefusedIsUndone
    OriginalsKept
    AppliedIsMirror
PROPERTIES
    EditsSurvive
SYMMETRY Interchangeable
CHECK_DEADLOCK FALSE
