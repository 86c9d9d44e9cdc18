SPECIFICATION FairSpec
CONSTANTS
  ColCount = 2
  NotNull = {}
  BatchSize = 2
  MaxWire = 6
  Backends <- MCBackends
  Wires <- MCWires
INVARIANTS
  TypeOK
  OnlyCellsPanic
  BatchesAligned
  ShortBatchIsLast
  EndMeansComplete
  LossBounded
PROPERTIES
  DeliversRows
  Termination
CHECK_DEADLOCK FALSE
