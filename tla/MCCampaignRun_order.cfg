SPECIFICATION Spec
CONSTANTS
    a = a
    b = b
    c = c
    d = d
    merge = merge
    dev = dev
    Task = {a, b, c, d}
    Integration = merge
    PlanOrder <- ChainOrder
    Deps <- ChainDeps
    Rank <- ChainRank
    Profile <- OneProfile
    Limit <- DevLimit
    MaxUse = 1
    Authorization <- TwoAtOnce
    MaxFaults = 0
INVARIANT
    IntegratedInDagOrder
CHECK_DEADLOCK FALSE
