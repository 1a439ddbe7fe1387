SPECIFICATION FairSpec
CONSTANTS
  w1 = w1
  w2 = w2
  Workers = {w1, w2}
  ChainMax = 1
  BufferSize = 0
  ChanCap = 1
  BatchSize = 2
  QuitDistance = 1
  MissingTicks = 1
  MaxCrashes = 0
PROPERTY CatchUp
