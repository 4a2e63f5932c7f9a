SPECIFICATION MCSpec
CONSTANTS
    Caller = {p, q}
    Campaign = {c}
    NoCampaign = none
    Isolated = {c}
    Execution <- MCExecution
    MissionOf <- MCMissionOf
    Retriable <- MCRetriable
    MaxCommands = 4
SYMMETRY Alike
INVARIANTS
    
    
    WithdrawnIsStopped
PROPERTIES
    ClosedForGood
    PlannedOutsideCampaigns
CHECK_DEADLOCK FALSE
