\* A process that is gone does nothing more.
SPECIFICATION Spec
CHECK_DEADLOCK FALSE
CONSTANTS
  Producers = {p1, p2}
  Consumers = {c1, c2, c3}
  Values = {v1}
  Max <- NUM
  Low <- LOW
  High <- HIGH
  Garbage = Garbage
  Blank = Blank
  Limit = 7
  MissingLimit = 2
INVARIANTS
  TypeOK
  NotAllWaiting
PROPERTIES
  ConsumersServed
  ProducersServed
