\* The same; the first split is enough.
SPECIFICATION Spec
CONSTANTS
  i1 = i1
  Inserters = {i1}
  NumPoints = 3
  MaxIds = 5
  MaxPages = 4
  MinPoints = 3
  ntopo_per_sector = 2
  range = 2
  n_sampled_nbrs = 2
PROPERTIES
  RecordsOwn
CHECK_DEADLOCK FALSE
