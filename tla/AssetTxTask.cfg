SPECIFICATION FairSpec
CONSTANTS
  Pairs = {p1, p2}
  MaxTx = 4
  PageSize = 2
  ChanSize = 1
  BatchSize = 3
  MaxCrashes = 1
INVARIANTS
  InFlightExact
PROPERTIES
  ImplementsConsumer
  EventuallyRecorded
CHECK_DEADLOCK FALSE
