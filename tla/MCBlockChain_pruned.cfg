SPECIFICATION Spec
CONSTANTS
  Peer = {"q"}
  Block = {"g0", "o1", "c2", "x2", "m3", "m4", "m5", "m6"}
  Tx = {"t1", "t2", "t3"}
  None = "none"
  Prev <- MCPrev
  Height <- MCHeight
  TxOf <- MCTxOf
  Checkpoint = {"g0"}
  Start = "g0"
  Rejected = {}
  Stale = {}
  PeerLastBlock <- MCPeerLastBlock
  Lag = 1
  SaveMargin = 1
  BLOCK_DIFFICULTY_INTERVAL = 3
  RescanHeights = {1}
  MaxRescans = 1
  MaxRestarts = 0
INVARIANT TransitionReachable
CHECK_DEADLOCK FALSE
