SPECIFICATION FairSpec
CONSTANTS
  A = A
  B = B
  NoHash = NoHash
  Hashes <- MCHashes
  Txs <- MCTxs
  Fetchers = {f1, f2}
  MaxTx = 3
  PageSize = 2
  ChanSize = 1
  RecPage = 1
  MaxCrashes = 1
INVARIANTS
  LogsInFlight
  TransfersExact
  AssetsExact
  MigrationsExact
  AddrTxExact
PROPERTIES
  EventuallyHandled
CHECK_DEADLOCK FALSE
