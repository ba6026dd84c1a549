SPECIFICATION Spec
CONSTANTS
  Capacity = 12
  BodyBytes = {8}
  Splits = {0}
  FaultyCMO = FALSE
  ClientFaultyCMO = FALSE
  UserBall = TRUE
  MaxReq = 2
  MaxReset = 1
PROPERTY FreshAfterUserBall
CHECK_DEADLOCK FALSE
