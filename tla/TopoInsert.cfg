\* Two insertions into an index of three points, with pages of two; a point
\* can be deleted before the second and two after it.
SPECIFICATION Spec
CONSTANTS
  i1 = i1
  Inserters = {i1}
  NumPoints = 3
  MaxIds = 5
  MaxPages = 4
  MinPoints = 3
  ntopo_per_sector = 2
  range = 2
  n_sampled_nbrs = 2
INVARIANTS
  LayoutConsistent
  PagesAccounted
  NoDeletedLinks
CHECK_DEADLOCK FALSE
