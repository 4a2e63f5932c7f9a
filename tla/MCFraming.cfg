SPECIFICATION MCSpec
CONSTANTS
    Proc = {a, b}
    Deltas <- MCDeltas
    Snapshots <- MCSnapshots
    MergeAttempts = 2
    MaxDeltas = 2
    MaxPublications = 2
    MaxCrashes = 1
    MaxFaults = 1
    MaxMoves = 1
INVARIANTS
    TypeOK
    NothingUnseenIsSuperseded
    ConfirmedIsShown
    PublishedIsConfirmed
PROPERTIES
    JournalIsAtomic
    ForeignMarkerKept
    PublicationCompletes
CHECK_DEADLOCK FALSE
