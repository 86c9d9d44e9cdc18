SPECIFICATION Spec
CONSTANTS
  Flavours <- MCDuckDB
  TableWidth = 2
  Widths <- MCWidths
  BatchRows <- MCBatchRows
  MaxRows = 5
  FlushRows = 3
INVARIANTS
  OkMeansStored
