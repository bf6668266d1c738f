SPECIFICATION Spec
CONSTANTS
    k1 = k1
    NoKey = NoKey
    Relays = {r1, r2}
    Writers = {w1, w2}
    Keys = {k1}
    MaxSeq = 2
    BatchSize = 2
    MaxAttempts = 2
    ShardCount = 1
    ShardIndex <- MCStrict
    Hash <- MCHash
    QueryErrors = TRUE
    MaxDisruptions = 1
    MaxResets = 0
SYMMETRY MCSymmetry
INVARIANTS
    NothingLost
    OnlyCommitted
    KeyOrder
    GivesUpLate
PROPERTIES
    ImplementsContract
