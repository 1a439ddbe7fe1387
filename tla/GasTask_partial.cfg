SPECIFICATION Spec
CONSTANTS
  Addrs = {a1, a2}
  MaxTx = 2
  Days = 1
  MaxCrashes = 1
  MaxLosses = 0
  MaxRefusals = 0
INVARIANT ResolvedIsApplied
CHECK_DEADLOCK FALSE
