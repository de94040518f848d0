\* A process that is gone does nothing more.
SPECIFICATION Spec
CHECK_DEADLOCK FALSE
CONSTANTS
  Ids = {i1, i2}
  Tasks = {p1, p2, p3}
  Cap = 3
  Timeouts <- MCTimeouts
  None = None
  Expired = Expired
INVARIANTS
  TypeOK
  Findable
  HeldBySlots
PROPERTIES
  ImplementsTimers
