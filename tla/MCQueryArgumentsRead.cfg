SPECIFICATION Spec
CONSTANTS
  Connectors <- MCPostgres
  Placeholders <- MCPlaceholders
  ValueLists <- MCValueLists
  Batches <- MCBatches
  MaxStarts = 1
INVARIANTS ArgumentsAreRead
CHECK_DEADLOCK FALSE
