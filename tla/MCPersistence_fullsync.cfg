SPECIFICATION Spec
CONSTANTS
    Tx = {"t1", "t2"}
    TxHeight <- MCTxHeight
    Unconfirmed = 99
    Peer = {"p"}
    NetHeight = 5
    PeerLastBlock = {5}
    SaveMargin = 1
    BLOCK_DIFFICULTY_INTERVAL = 2
    MaxCrashes = 2
    MaxRescans = 1
    MaxFailures = 1
INVARIANT FullSyncMissesNothing
CHECK_DEADLOCK FALSE
