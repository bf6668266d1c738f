SPECIFICATION Spec
CONSTANTS
    k1 = k1
    NoWorker = NoWorker
    Keys = {k1}
    Workers = {w1, w2}
    Lease = 1
    TTL = 2
    Messages = {m1, m2}
    Replayed = {m2}
    MaxTries = 2
    HandlersFail = TRUE
    StoreFails = TRUE
    MaxFaults = 2
    KeyOf <- MCKeyOf
    Settings <- MCEvery
SYMMETRY MCSymmetry
CHECK_DEADLOCK FALSE
INVARIANTS
    TypeOK
    NothingSkipped
    TransactionalOnce
    RepeatsAccounted
    OverlapNeedsOverrun
PROPERTIES
    DoneIsKept
