SPECIFICATION FairSpec
CONSTANTS
  peer = peer
  app = app
  Free = Free
  Foreign = Foreign
  Thread = {peer, app}
  Tx = {"a", "b"}
  Inputs <- MCInputs
  Outputs <- MCOutputs
  Sequence <- MCSequence
  LockTime <- MCLockTime
  Oversize = {}
  GapLimit <- MCGapLimit
  ExtraGap = 0
  Heights = {1}
  Timestamps = {1}
  Times = {20}
  BlockSize = 1
  TX_UNCONFIRMED = 100
  TX_MAX_LOCK_HEIGHT = 10
  TX_MIN_OUTPUT_AMOUNT = 1
INVARIANTS ListedIsStored
PROPERTIES RemovalTakesDependents CallsReturn
