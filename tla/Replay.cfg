SPECIFICATION FairSpec
CONSTANTS
    a = a
    b = b
    NoId = NoId
    Ids = {a, b}
    Partitions = {0, 1}
    Times = {1, 2}
    PartitionOf <- MCPartitionOf
    ErrorOf <- MCErrorOf
    Settings <- MCSettings
    MaxReplayCount = 1
    ConfirmAbove = 1
    MaxRuns = 2
CHECK_DEADLOCK FALSE
INVARIANTS
    TypeOK
    PoisonStops
    NothingMissed
    OnlySelected
    PlanReproducible
    TrailAccurate
    CommitIsHandled
    ConfirmedIsReplayed
    ConsentCoversSent
PROPERTIES
    TraversalEnds
