\* Three inserts by two inserters: the target of the first is a neighbour
\* of the other two.
SPECIFICATION Spec
CONSTANTS
  a = a
  b = b
  Inserters <- TwoInserters
  NPoints = 1
  NodesPerPage = 1
  MaxId = 4
  MaxLoc = 8
  MaxVisits = 1
  MinNbrs = 1
  MaxNbrs = 1
  NBufs = 4
PROPERTY
  SectorsStable
CHECK_DEADLOCK FALSE
