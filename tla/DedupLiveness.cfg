SPECIFICATION FairSpec
CONSTANTS
    k1 = k1
    NoWorker = NoWorker
    Keys = {k1}
    Workers = {w1, w2}
    Lease = 1
    TTL = 2
    Messages = {m1, m2}
    Replayed = {m2}
    MaxTries = 2
    HandlersFail = TRUE
    StoreFails = TRUE
    MaxFaults = 1
    KeyOf <- MCKeyOf
    Settings <- MCSwept
CHECK_DEADLOCK FALSE
PROPERTIES
    EventuallyHandled
