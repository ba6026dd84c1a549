SPECIFICATION Spec
CONSTANTS
  Capacity = 12
  BodyBytes = {4, 8}
  Splits = {0, 4}
  FaultyCMO = TRUE
  ClientFaultyCMO = TRUE
  UserBall = FALSE
  MaxReq = 2
  MaxReset = 2
INVARIANTS TypeOK DeafOnlyWhenTold BallInvariant OrderInvariant
PROPERTIES NoTornMessage AnswersAreFresh KeepsPromise
CHECK_DEADLOCK FALSE
