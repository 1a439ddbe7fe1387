SPECIFICATION ScSpec
CONSTANTS
  MaxTx = 3
  PageSize = 2
  MaxCrashes = 1
  MaxFailures = 0
INVARIANT CounterIsProcessed
CHECK_DEADLOCK FALSE
