SPECIFICATION Spec
CONSTANTS
  Peer = {"q"}
  Block = {"g0", "o1", "c2", "m3", "m4", "m5", "f3", "f4", "f5"}
  Tx = {"t1", "t2", "t3"}
  None = "none"
  Prev <- MCPrev
  Height <- MCHeight
  TxOf <- MCTxOf
  Checkpoint = {"g0", "c2"}
  Start = "c2"
  Rejected = {}
  Stale = {}
  PeerLastBlock <- MCPeerLastBlock
  Lag = 1
  SaveMargin = 1
  BLOCK_DIFFICULTY_INTERVAL = 2
  RescanHeights = {1, 3}
  MaxRescans = 0
  MaxRestarts = 1
INVARIANT MainChainConfirmed
CHECK_DEADLOCK FALSE
