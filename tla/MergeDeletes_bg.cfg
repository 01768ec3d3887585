\* The last insert's write is still queued when the merge starts.
SPECIFICATION Spec
CONSTANTS
  NIds = 5
  Tail = 6
  NodesPerPage = 2
  LocPerPopulate = 2
  LocPerMerge = 4
  R = 2
  NSampled = 2
  Layouts <- OneLayout
  Graphs <- OneGraph
  BgStates <- BgQueued
  Modes <- Beam
INVARIANTS
  ReadsCurrent
CHECK_DEADLOCK FALSE
