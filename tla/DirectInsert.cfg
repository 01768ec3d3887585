\* Two inserters, two records per page, and a query buffer less than the
\* two inserters could hold.
SPECIFICATION Spec
CONSTANTS
  a = a
  b = b
  Inserters <- TwoInserters
  NPoints = 2
  NodesPerPage = 2
  MaxId = 4
  MaxLoc = 8
  MaxVisits = 2
  MinNbrs = 0
  MaxNbrs = 1
  NBufs = 3
INVARIANTS
  PageWritesExclusive
  ReaderSeesItsRecord
PROPERTIES
  ImplementsLocTable
  InsertReturns
  PagesUnlocked
CHECK_DEADLOCK FALSE
