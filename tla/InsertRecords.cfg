\* Two inserting threads and the background thread, three inserts, and pages
\* with room for the records of several of them.
SPECIFICATION RecordsSpec
CONSTANTS
  a = a
  b = b
  Inserters <- TwoInserters
  NPoints = 1
  NodesPerPage = 4
  MaxId = 4
  MaxLoc = 12
  MaxVisits = 2
  MinNbrs = 1
  MaxNbrs = 2
  NBufs = 4
INVARIANTS
  RefsAccounted
  RecordsKept
  LinksKept
CHECK_DEADLOCK FALSE
SYMMETRY Symmetry
