SPECIFICATION Spec
CONSTANTS
  ByteBits = 2
  TsBlock = 4
  Newline = 2
  Archives <- MCUncarried
INVARIANT RoundTrip
