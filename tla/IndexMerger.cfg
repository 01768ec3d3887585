\* Two merges, of one vector or two, that delete up to two.
SPECIFICATION Spec
CONSTANTS
  FirstIndices <- SomeIndices
  Batches <- SomeBatches
  MaxDeletes = 2
  range = 2
  MaxMerges = 2
INVARIANTS
  VectorsKept
  NoDeletedReferences
  LiveNodesLinked
  InsertsMutual
CHECK_DEADLOCK FALSE
