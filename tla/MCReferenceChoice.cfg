SPECIFICATION Spec
CONSTANTS
  ByteBits = 4
  Q = 2
  StartPad = 8
  EndPad = 9
  LMax = 3
  Runs <- MCRuns
  WindowSize = 2
  BlockSize = 2
  Threshold <- MCThreshold
  K = 3
  HashSeed = 7
  Coefficients <- MCCoefficients
  HashRange = 65536
  Prime = 11
INVARIANTS TypeOK ChoiceIsNearest CacheOfBlock RecordsRebuildLines
