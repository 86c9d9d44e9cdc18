SPECIFICATION Spec
CONSTANTS
  ColCount = 2
  NotNull = {}
  MaxRows = 3
  StorageClasses <- MCStorageClasses
  Tables <- MCTables
INVARIANTS
  TypeOK
  SoundNeverPanics
  WholeResultInOneBatch
PROPERTIES
  DeliversRows
CHECK_DEADLOCK FALSE
