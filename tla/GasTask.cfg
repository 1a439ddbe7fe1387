SPECIFICATION Spec
CONSTANTS
  Addrs = {a1, a2}
  MaxTx = 3
  Days = 2
  MaxCrashes = 2
  MaxLosses = 1
  MaxRefusals = 1
INVARIANTS
  NeverTwice
  CacheIsStored
  DailyHistory
CHECK_DEADLOCK FALSE
