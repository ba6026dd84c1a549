SPECIFICATION Spec
CONSTANTS
  Clients = {c1, c2, c3}
  MaxClients = 3
  FirstFileID = 8
  Descriptors = {0, 1, 2}
  Snull = Snull
  Leaked = Leaked
  MaxFiles = 1
  MaxKept = 1
SYMMETRY AnyClient
INVARIANTS TableTypeOK ListIsComplete OwnDescriptors IdIdentifiesClient EntriesAreLive
CONSTRAINT ReuseAlone
CHECK_DEADLOCK FALSE
