SPECIFICATION FairSpec
CONSTANTS
  Values = {0, 1, 2, 3}
  Line <- Values
  Inputs <- MCInputs
  WindowSize = 2
  FieldSize = 4
  BlockSize = 3
  Dist <- MCDist
  Unit = 3
  Threshold = 2
  Diff <- MCDiff
  Patch <- MCPatch
  Cost <- MCCost
  Length <- MCLength
  Carried <- MCCarried
  MaxMisread = 2
INVARIANTS
  TypeOK
  WindowsAgree
  OutputIsPrefix
  SuccessIsComplete
  RefusedOnlyWithoutHeader
PROPERTIES
  ImplementsArchive
  EventuallyRestored
