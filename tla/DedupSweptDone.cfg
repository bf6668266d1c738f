SPECIFICATION Spec
CONSTANTS
    k1 = k1
    NoWorker = NoWorker
    Keys = {k1}
    Workers = {w1, w2}
    Lease = 1
    TTL = 2
    Messages = {m1, m2, m3}
    Replayed = {m2}
    MaxTries = 3
    HandlersFail = FALSE
    StoreFails = FALSE
    MaxFaults = 1
    KeyOf <- MCKeyOf
    Settings <- MCSweptJoined
SYMMETRY MCSymmetry
CHECK_DEADLOCK FALSE
INVARIANTS
    TransactionalOnce
