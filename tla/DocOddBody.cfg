SPECIFICATION FairSpec
CONSTANTS
  Capacity = 12
  BodyBytes = {4}
  Splits = {0}
  FaultyCMO = FALSE
  ClientFaultyCMO = FALSE
  UserBall = FALSE
  MaxReq = 1
  MaxReset = 1
PROPERTY BallIsFound
CHECK_DEADLOCK FALSE
