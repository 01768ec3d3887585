\* The default mode, and an insert that locks two ids.
SPECIFICATION Spec
CONSTANTS
  NNodes = 6
  Graphs <- SomeGraphs
  Starts = {4, 5}
  LSearch = 3
  BeamWidth = 3
  InitialBeam = 2
  MaxReads = 4
  RelaxedLs = {0}
  LockSets = {{1, 3}}
  MaxCalls = 1
  MaxInserts = 1
PROPERTY
  InsertReturns
CHECK_DEADLOCK FALSE
