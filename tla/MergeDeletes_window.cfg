\* A batch ends within a chunk, as with 10 records per page.
SPECIFICATION Spec
CONSTANTS
  NIds = 5
  Tail = 6
  NodesPerPage = 3
  LocPerPopulate = 2
  LocPerMerge = 3
  R = 2
  NSampled = 2
  Layouts <- OneLayout
  Graphs <- OneGraph
  BgStates <- BgIdle
  Modes <- Beam
INVARIANTS
  IdsWrittenBack
CHECK_DEADLOCK FALSE
