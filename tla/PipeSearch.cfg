\* Two searches, in the default mode or with relaxed monotonicity, and inserts
\* that lock one id each.
SPECIFICATION Spec
CONSTANTS
  NNodes = 6
  Graphs <- SomeGraphs
  Starts = {4, 5}
  LSearch = 3
  BeamWidth = 3
  InitialBeam = 2
  MaxReads = 4
  RelaxedLs = {0, 1}
  LockSets = {{1}, {2}}
  MaxCalls = 2
  MaxInserts = 1
INVARIANTS
  AllIosComplete
  RecordsOwn
PROPERTY
  SearchReturns
CHECK_DEADLOCK FALSE
