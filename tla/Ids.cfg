SPECIFICATION Spec
CONSTANTS
  Addrs = {a1, a2}
  Assets = {gas, neo}
  Contracts = {c1}
  MaxTx = 3
  MaxParts = 2
  MaxFaults = 1
SYMMETRY Symmetry
INVARIANTS
  IdsDense
  TxIdsMatch
  AssetIdsExact
CHECK_DEADLOCK FALSE
