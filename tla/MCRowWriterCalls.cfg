SPECIFICATION Spec
CONSTANTS
  ColCount = 2
  NotNull <- MCNotNull
  MinBatchSizes <- MCMinBatchSizes
  MaxPrepare = 3
  MaxRows = 6
INVARIANTS
  TypeOK
  NoPanic
  CellsInPlace
CHECK_DEADLOCK FALSE
