SPECIFICATION EditsSpec
CONSTANTS
  Q = 2
  StartPad = 8
  EndPad = 9
  LMax = 3
  ByteBits = 4
  Lines <- MCLines
INVARIANTS
  EditsTypeOK
  EditsInOrder
  RecoversLine
  CostIsPaid
