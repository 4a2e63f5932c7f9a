SPECIFICATION FairSpec
CONSTANTS
    a = a
    b = b
    c = c
    d = d
    merge = merge
    dev = dev
    Task = {a, b, c, d}
    Integration = merge
    PlanOrder <- ChainOrder
    Deps <- ChainDeps
    Rank <- ChainRank
    Profile <- OneProfile
    Limit <- DevLimit
    MaxUse = 1
    Authorization <- AllAuthorizations
    MaxFaults = 2
INVARIANTS
    DependenciesFirst
    EventsFollowAttempts
    OvershootIsOneBatch
    CandidateIsComplete
    ReturnedMeansSettled
PROPERTIES
    TerminalAttemptsStay
    StartSettles
CHECK_DEADLOCK FALSE
