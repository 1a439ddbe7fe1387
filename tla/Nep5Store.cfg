SPECIFICATION Spec
CONSTANTS
  Addrs = {1, 2}
  NoAddr = 0
  Shapes <- MCShapes
  MaxBalance = 1
  MaxBlocks = 3
  QueueSize = 1
  MaxCrashes = 1
  MaxLosses = 1
INVARIANTS
  CacheIsRows
  HoldersCounted
  TransfersOnce
  BalancesCurrent

CHECK_DEADLOCK FALSE
