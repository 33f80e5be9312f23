\* a disconnect during the sync
SPECIFICATION FairSpec
CONSTANTS
    p1 = p1
    p2 = p2
    t1 = t1
    t2 = t2
    NoPeer = NoPeer
    Peer = {p1, p2}
    LastBlock <- MCLastBlock
    Unfit = {}
    Top = 2
    Tx = {}
    PEER_MAX_CONNECTIONS = 1
    MAX_CONNECT_FAILURES = 2
    Lag = 0
    MaxThreads = 2
    Budget <- NetworkBudget
PROPERTY SyncEnds
CHECK_DEADLOCK FALSE
