\* one connection: sync, rescan, disconnect, and the network that comes and goes
SPECIFICATION FairSpec
CONSTANTS
    p1 = p1
    p2 = p2
    t1 = t1
    t2 = t2
    NoPeer = NoPeer
    Peer = {p1, p2}
    LastBlock <- MCLastBlock
    Unfit = {}
    Top = 2
    Tx = {}
    PEER_MAX_CONNECTIONS = 1
    MAX_CONNECT_FAILURES = 2
    Lag = 0
    MaxThreads = 2
    Budget <- NetworkBudget
INVARIANT TypeOK
PROPERTY SyncEndsUnlessAbandoned
PROPERTY DisconnectReturns
CHECK_DEADLOCK FALSE
