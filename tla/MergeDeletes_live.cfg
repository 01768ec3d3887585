\* Batches that are not whole chunks, and a write of the last insert that may
\* be queued; no searches.
SPECIFICATION LiveSpec
CONSTANTS
  NIds = 5
  Tail = 6
  NodesPerPage = 3
  LocPerPopulate = 2
  LocPerMerge = 3
  R = 2
  NSampled = 2
  Layouts <- AllLayouts
  Graphs <- RingTree
  BgStates <- BgAny
  Modes <- NoSearch
INVARIANTS
  NumberingSound
  TablesRenewed
PROPERTY
  MergeEnds
CHECK_DEADLOCK FALSE
