\* Two inserters, a page with room for both.
SPECIFICATION DataSpec
CONSTANTS
  a = a
  b = b
  Inserters <- TwoInserters
  NPoints = 1
  NodesPerPage = 4
  MaxId = 3
  MaxLoc = 12
  MaxVisits = 1
  MinNbrs = 1
  MaxNbrs = 1
  NBufs = 4
INVARIANT
  DiskConsistent
CHECK_DEADLOCK FALSE
SYMMETRY Symmetry
