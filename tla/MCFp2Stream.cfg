SPECIFICATION FairSpec
CONSTANTS
  Limit = 2
  TmpSize = 2
  SocketSize = 3
  MaxPut = 6
INVARIANTS StreamTypeOK StreamOrder
PROPERTIES ClearedIsGone IsQueue ArrivedIsRead
CHECK_DEADLOCK FALSE
