\* Two records per page, two inserters, three inserts.
SPECIFICATION Spec
CONSTANTS
  a = a
  b = b
  c = c
  Inserters <- TwoInserters
  NPoints = 2
  NodesPerPage = 2
  MaxId = 5
  MaxLoc = 12
  MaxVisits = 2
  MinNbrs = 0
  MaxNbrs = 1
INVARIANTS
  TypeOK
  TablesAgree
  SlotsAccounted
  QueuedPagesEmpty
  EmptyPagesQueued
PROPERTY MovesAreLocked
CHECK_DEADLOCK FALSE
SYMMETRY Symmetry2
