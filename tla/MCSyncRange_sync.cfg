SPECIFICATION FairSpec
CONSTANTS
    MaxNumber = 14
    RequestMax = 4
    LinearLimit = 8
    LimitIfNAry = 2
    NAryMin = 2
    NAryMax = 4
    WordSize = 65536
    ChangeSets <- OneOrTwo
    Starts <- FromTo
    MaxSyncs = 2
    Idle = Idle
    Cut = Cut
INVARIANT ProgressAscends
PROPERTY SyncMissesNothing
PROPERTY SyncIsFeed
PROPERTY SyncEnds
CHECK_DEADLOCK FALSE
