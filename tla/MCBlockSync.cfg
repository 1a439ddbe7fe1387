SPECIFICATION Spec
CONSTANTS
  w1 = w1
  w2 = w2
  Workers = {w1, w2}
  ChainMax = 2
  BufferSize = 1
  ChanCap = 1
  BatchSize = 2
  QuitDistance = 1
  MissingTicks = 1
  MaxCrashes = 1
SYMMETRY Symmetric
INVARIANTS
  TypeOK
  InOrder
  GapIsNoticed
  TailFlushed
  WorkersSurvive
  BestIsReal
  BufferBounded
PROPERTY ImplementsStore
