\* Three calls: one that fails on either channel, and one more.
SPECIFICATION FairSpec
CONSTANT
  MaxCalls = 3
INVARIANTS
  StartTypeOK
  NothingLeftOver
  RefusesWrongPassword
  ObjectHasEngine
  AlarmIsTakenBack
PROPERTIES
  CallReturns
  NoOrphanServer
CHECK_DEADLOCK FALSE
