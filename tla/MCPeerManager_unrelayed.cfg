\* a disconnect with an unconfirmed transaction
SPECIFICATION Spec
CONSTANTS
    p1 = p1
    p2 = p2
    t1 = t1
    t2 = t2
    NoPeer = NoPeer
    Peer = {p1, p2}
    LastBlock <- MCLastBlock
    Unfit = {}
    Top = 2
    Tx = {t1}
    PEER_MAX_CONNECTIONS = 2
    MAX_CONNECT_FAILURES = 1
    Lag = 0
    MaxThreads = 2
    Budget <- LeaveBudget
PROPERTY UnrelayedKept
CHECK_DEADLOCK FALSE
