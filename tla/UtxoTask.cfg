SPECIFICATION Spec
CONSTANTS
  Addrs = {1, 2}
  Assets = {neo}
  MaxTx = 3
  MaxOuts = 2
  MaxCrashes = 1
  MaxLosses = 1
  MaxCut = 1
INVARIANTS
  TablesExact
  CacheCoversRows
  RowsCounted
  BalanceUnlessMissed
PROPERTIES
  ImplementsLedger
CHECK_DEADLOCK FALSE
