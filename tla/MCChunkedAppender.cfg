SPECIFICATION Spec
CONSTANTS
  Flavours <- MCBoth
  ChunkSize = 2
  BatchRows <- MCBatchRows
  MaxRows = 8
INVARIANTS
  TypeOK
  ChunksCoverBatch
  FinishMeansCommitted
PROPERTIES
  StableWhileAppending
  AllOrNothing
