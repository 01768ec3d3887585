\* One inserting thread and the background thread, three inserts.
SPECIFICATION DataSpec
CONSTANTS
  a = a
  b = b
  Inserters <- OneInserter
  NPoints = 2
  NodesPerPage = 2
  MaxId = 5
  MaxLoc = 14
  MaxVisits = 2
  MinNbrs = 1
  MaxNbrs = 2
  NBufs = 2
INVARIANTS
  RefsAccounted
  RecordsIntact
  LinksMutual
  DiskConsistent
CHECK_DEADLOCK FALSE
