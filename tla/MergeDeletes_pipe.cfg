\* A pipelined search runs across the switch.
SPECIFICATION Spec
CONSTANTS
  NIds = 5
  Tail = 6
  NodesPerPage = 2
  LocPerPopulate = 2
  LocPerMerge = 4
  R = 2
  NSampled = 2
  Layouts <- OneLayout
  Graphs <- OneGraph
  BgStates <- BgIdle
  Modes <- Pipe
INVARIANTS
  CandidatesServed
CHECK_DEADLOCK FALSE
