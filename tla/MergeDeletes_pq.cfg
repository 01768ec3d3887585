\* Beam searches start while the merge runs.
SPECIFICATION Spec
CONSTANTS
  NIds = 5
  Tail = 6
  NodesPerPage = 2
  LocPerPopulate = 2
  LocPerMerge = 4
  R = 2
  NSampled = 2
  Layouts <- OneLayout
  Graphs <- OneGraph
  BgStates <- BgIdle
  Modes <- Beam
INVARIANTS
  SearchServed
CHECK_DEADLOCK FALSE
