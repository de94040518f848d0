\* epoll_wait sleeps when all clients are idle, and the loop stops at MaxActive.
CHECK_DEADLOCK FALSE
SPECIFICATION Spec
CONSTANTS
  c1 = c1
  c2 = c2
  Clients <- MCClients
  Listener = Listener
  EventsMax = 2
  MaxActive = 9
SYMMETRY MCSymmetry
INVARIANTS
  TypeOK
  NeverSleepsOnWork
  NoEventDropped
