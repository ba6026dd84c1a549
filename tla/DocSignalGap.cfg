SPECIFICATION FairSpec
CONSTANTS
  Capacity = 12
  BodyBytes = {8}
  Splits = {0}
  FaultyCMO = FALSE
  ClientFaultyCMO = FALSE
  UserBall = FALSE
  MaxReq = 1
  MaxReset = 1
PROPERTY SignalLeadsToBall
CHECK_DEADLOCK FALSE
