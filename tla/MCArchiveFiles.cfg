SPECIFICATION Spec
CONSTANTS
  Extensions = {".bin", ".lzma"}
  Plain = ".bin"
  Blocks = 2
  MaxRuns = 3
  MaxFaults = 2
INVARIANTS
  TypeOK
  StartsAnew
  WholeSomewhere
  SuccessIsStored
  RestoresOneRun
  OutputIsBeginning
PROPERTIES
  ReplacedByWhole
