SPECIFICATION Spec
CONSTANTS
  Flavours <- MCFlavours
  TableWidth = 2
  Widths <- MCWidths
  BatchRows <- MCBatchRows
  MaxRows = 5
  FlushRows = 3
INVARIANTS
  TypeOK
  FinishMeansStored
  LossIsLastFlush
PROPERTIES
  AllOrNothing
