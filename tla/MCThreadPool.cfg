SPECIFICATION PoliteSpec
CONSTANTS
  Workers = {w1, w2}
  Conns = {k1, k2, k3}
  None = None
INVARIANTS
  TypeOK
  NoLostWakeup
  OneOwner
PROPERTIES
  TasksInOrder
  EveryConnectionServed
