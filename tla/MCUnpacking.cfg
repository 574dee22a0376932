SPECIFICATION Spec
CONSTANTS
  MaxContent = 33
  Overhead = 2
  UIntRange = 32
INVARIANTS
  TypeOK
  SuccessIsContent
  WholeIsUnpacked
PROPERTIES
  Answers
