CONSTANTS
  OspMax = 5
  ErrorMax = 3
  MaxMessages = 4
SPECIFICATION Spec
INVARIANTS
  StackTypeOK
  OwnResult
  ErrorsTellOwnFailure
  Protected
  AnswersAreWhole
CHECK_DEADLOCK FALSE
