SPECIFICATION Spec
CONSTANTS
    k1 = k1
    NoKey = NoKey
    Relays = {r1, r2}
    Writers = {w1}
    Keys = {k1}
    MaxSeq = 2
    BatchSize = 2
    MaxAttempts = 1
    ShardCount = 1
    ShardIndex <- MCStrict
    Hash <- MCHash
    QueryErrors = FALSE
    MaxDisruptions = 2
    MaxResets = 1
SYMMETRY MCSymmetry
INVARIANTS
    TypeOK
    NothingLost
    NoSplitBrain
    ClaimIsFresh
PROPERTIES
    PublishedIsFinal
