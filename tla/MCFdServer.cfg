\* The server sleeps when its clients are idle, and may have exited.
CHECK_DEADLOCK FALSE
SPECIFICATION Spec
CONSTANTS
  Clients = {c1, c2, c3}
  None = None
  Listen = 1
  FdLimit = 4
  fd_max_num <- TableSizes
  MaxUnread = 1
INVARIANTS
  TypeOK
  AllAskedFor
  NeverBlocks
PROPERTIES
  GoneAreFreed
