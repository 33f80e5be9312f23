SPECIFICATION Spec
CONSTANTS
  Peer = {"q"}
  Block = {"g0", "o1", "c2", "x2", "m3", "m4", "m5", "m6", "f3", "f4", "f5", "f6", "f7"}
  Tx = {"t1", "t2", "t3"}
  None = "none"
  Prev <- MCPrev
  Height <- MCHeight
  TxOf <- MCTxOf
  Checkpoint = {"g0", "c2"}
  Start = "c2"
  Rejected = {}
  Stale = {"x2"}
  PeerLastBlock <- MCPeerLastBlock
  Lag = 1
  SaveMargin = 1
  BLOCK_DIFFICULTY_INTERVAL = 2
  RescanHeights = {}
  MaxRescans = 0
  MaxRestarts = 0
INVARIANTS MainChainConfirmed
CHECK_DEADLOCK FALSE
