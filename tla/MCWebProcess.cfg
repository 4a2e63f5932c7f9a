SPECIFICATION FairSpec
CONSTANTS
    Manager = {m1, m2}
    Server = {s1, s2, s3}
    Nobody = nobody
    MaxCommands = 3
    MaxEvents = 2
INVARIANTS
    OneRecordedServer
    ForeignUnhurt
PROPERTIES
    ShutdownForgets
CHECK_DEADLOCK FALSE
