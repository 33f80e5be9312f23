SPECIFICATION Spec
CONSTANTS
  peer = peer
  Free = Free
  Foreign = Foreign
  Thread = {peer}
  Tx = {"a", "b", "c", "d", "e"}
  Inputs <- MCInputs
  Outputs <- MCOutputs
  Sequence <- MCSequence
  LockTime <- MCLockTime
  Oversize = {}
  GapLimit <- MCGapLimit
  ExtraGap = 1
  Heights = {1}
  Timestamps = {1}
  Times = {20}
  BlockSize = 1
  TX_UNCONFIRMED = 100
  TX_MAX_LOCK_HEIGHT = 10
  TX_MIN_OUTPUT_AMOUNT = 1
INVARIANT BalanceExcludesInvalid
CHECK_DEADLOCK FALSE
