SPECIFICATION Spec
CONSTANTS
    k1 = k1
    NoKey = NoKey
    Relays = {r1, r2}
    Writers = {w1}
    Keys = {k1}
    MaxSeq = 2
    BatchSize = 2
    MaxAttempts = 1
    ShardCount = 1
    ShardIndex <- MCStrict
    Hash <- MCHash
    QueryErrors = TRUE
    MaxDisruptions = 1
    MaxResets = 0
PROPERTIES
    PublishedIsFinal
