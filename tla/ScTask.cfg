SPECIFICATION ScFairSpec
CONSTANTS
  MaxTx = 4
  PageSize = 2
  MaxCrashes = 2
  MaxFailures = 1
INVARIANTS
  AtMostOnce
  NothingElseMissed
PROPERTIES
  ContractsRecorded
CHECK_DEADLOCK FALSE
