\* Along one schedule of two threads and three inserts: a page chosen to be
\* written without being read is in use when it is written.
SPECIFICATION RecordsSpec
CONSTANTS
  a = a
  b = b
  Inserters <- TwoInserters
  NPoints = 4
  NodesPerPage = 4
  MaxId = 7
  MaxLoc = 20
  MaxVisits = 4
  MinNbrs = 1
  MaxNbrs = 4
  NBufs = 6
INVARIANT
  NoRawOverwrite
ACTION_CONSTRAINT OverwriteSchedule
CHECK_DEADLOCK FALSE
