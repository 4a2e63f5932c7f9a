SPECIFICATION FairSpec
CONSTANTS
    Agent = {a1, a2}
    Visitor = {a2}
    StepId <- FastDevId
    Step <- FastDev
    Finding = {f1, f2}
    MaxDocuments = 11
    MaxSetbacks = 2
    MaxVisits = 1
INVARIANTS
    StopsOnlyWhenComplete
    DemandsSettled
PROPERTIES
    DeliveryReopens
    LateReviewIgnored
    GuidanceConverges
CHECK_DEADLOCK FALSE
