SPECIFICATION Spec
CONSTANTS
  Extensions = {".bin", ".lzma"}
  Plain = ".bin"
  Blocks = 2
  MaxRuns = 1
  MaxFaults = 0
INVARIANT UsageWorks
