\* Whole batches are whole chunks; beam searches go on during the merge.
SPECIFICATION Spec
CONSTANTS
  NIds = 5
  Tail = 8
  NodesPerPage = 2
  LocPerPopulate = 2
  LocPerMerge = 4
  R = 2
  NSampled = 2
  Layouts <- AllLayouts
  Graphs <- RingTree
  BgStates <- BgIdle
  Modes <- Beam
INVARIANTS
  MergedIndexSound
  CandidatesServed
CHECK_DEADLOCK FALSE
