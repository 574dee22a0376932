SPECIFICATION Spec
CONSTANTS
  Sources <- MCSources
  Spare = 9
  MaxGiveUps = 2
  NibbleRange = 4
  LastLiterals = 2
  MFLimit = 7
  DistanceMax = 16
  BoundSlack = 2
INVARIANTS TypeOK ParseRules WithinBound DecodesToSource
PROPERTY Terminates
