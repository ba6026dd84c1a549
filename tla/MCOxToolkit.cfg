SPECIFICATION FairSpec
CONSTANTS
  MaxRequests = 2
  MaxResets = 2
INVARIANTS
  ToolkitTypeOK
  InStep
PROPERTIES
  MathAnswersCorrespond
  JumpAnswersAscend
  ResetReturns
  ServerEnds
CHECK_DEADLOCK FALSE
