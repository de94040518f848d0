SPECIFICATION Spec
CONSTANTS
  Producers = {p1, p2}
  Consumers = {c1, c2}
  Values = {v1, v2}
  Cap = 2
  Nobody = Nobody
  Blank = Blank
INVARIANTS
  TypeOK
  Conservation
  NoSlotRace
  PositionsAgree
PROPERTIES
  ImplementsFifo
  EveryValueLeaves
