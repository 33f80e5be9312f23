SPECIFICATION Spec
CONSTANTS
  Peer = {"r"}
  Block = {"g0", "o1", "c2", "m3", "m4", "m5", "m6", "e5", "e6"}
  Tx = {"t1", "t2", "t3"}
  None = "none"
  Prev <- MCPrev
  Height <- MCHeight
  TxOf <- MCTxOf
  Checkpoint = {"g0", "c2"}
  Start = "c2"
  Rejected = {}
  Stale = {}
  PeerLastBlock <- MCPeerLastBlock
  Lag = 1
  SaveMargin = 1
  BLOCK_DIFFICULTY_INTERVAL = 2
  RescanHeights = {1, 3}
  MaxRescans = 1
  MaxRestarts = 2
INVARIANTS TransitionReachable MainChainConfirmed
CHECK_DEADLOCK FALSE
