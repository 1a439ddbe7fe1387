SPECIFICATION FairSpec
CONSTANTS
  Addrs = {1, 2}
  MaxTx = 2
  MaxUses = 4
  MaxCrashes = 1
INVARIANTS
  NoDeadlock
  InsertedOnce
  RowsExact
PROPERTY EventuallyApplied
CHECK_DEADLOCK FALSE
