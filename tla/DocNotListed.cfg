SPECIFICATION Spec
CONSTANTS
  Clients = {c1, c2}
  MaxClients = 4
  FirstFileID = 8
  Descriptors = {0, 1, 2, 3}
  Snull = Snull
  Leaked = Leaked
  MaxFiles = 2
  MaxKept = 1
SYMMETRY AnyClient
INVARIANT ResetReachesAll
CHECK_DEADLOCK FALSE
