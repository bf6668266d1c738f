SPECIFICATION FairSpec
CONSTANTS
    NoKey = NoKey
    Keys = {k1}
    Events = {1, 2}
    Opaque = {2}
    Settings <- MCSettings
    MaxReplayCount = 1
    MaxReplays = 2
    MaxFaults = 1
CHECK_DEADLOCK FALSE
INVARIANTS
    TypeOK
    EffectivelyOnce
    NothingDropped
    EffectsInOrder
PROPERTIES
    Accounted
    ReplayRecovers
