SPECIFICATION Spec
CONSTANTS
  Connectors <- MCConnectors
  Placeholders <- MCPlaceholders
  ValueLists <- MCValueLists
  Batches <- MCBatches
  MaxStarts = 2
INVARIANTS TypeOK ArgumentsArrive OnlyMistypedPanic
CHECK_DEADLOCK FALSE
