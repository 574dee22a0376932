SPECIFICATION Spec
CONSTANTS
  ByteBits = 4
  Fields <- MCFields
  Widths <- MCWidths
  MaxCalls = 4
INVARIANTS
  TypeOK
  StreamIsCalls
  DecodesFields
  AlignStays
