SPECIFICATION Spec
CONSTANTS
  MaxRequests = 2
  MaxResets = 1
PROPERTY AnswersCorrespond
CHECK_DEADLOCK FALSE
