SPECIFICATION FairSpec
CONSTANTS
  Capacity = 2
  BodyBytes = {8}
  Splits = {0}
  FaultyCMO = FALSE
  ClientFaultyCMO = FALSE
  UserBall = TRUE
  MaxReq = 3
  MaxReset = 1
PROPERTIES HandshakeCompletes ResetCompletes NoOrphan
CHECK_DEADLOCK FALSE
