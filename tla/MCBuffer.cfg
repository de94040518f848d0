SPECIFICATION Spec
CONSTANTS
  Bytes <- MCBytes
  NL <- MCNL
  Zero <- MCZero
  DefaultSize = 2
  MaxWrite = 2
  MaxSize = 4
INVARIANTS
  TypeOK
  StagedInPlace
PROPERTIES
  ImplementsByteStream
  GrowsWhenFull
