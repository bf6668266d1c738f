SPECIFICATION FairSpec
CONSTANTS
    QueueSize = 1
    Retries = 1
    MaxCloses = 2
    Sends = {s1, s2}
CHECK_DEADLOCK FALSE
INVARIANTS
    TypeOK
    ReportsAreServed
PROPERTIES
    ImplementsPort
    SendSettles
    CloseReturns
