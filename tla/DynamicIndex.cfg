\* Three merges, an inserter and a search.
SPECIFICATION Spec
CONSTANTS
  t1 = t1  t2 = t2  t3 = t3
  p1 = p1  s1 = s1
  Tags = {t1, t2, t3}
  OnDisk <- FirstOnDisk
  Inserters = {p1}
  Searchers = {s1}
  MaxMerges = 3
SYMMETRY Symmetry
INVARIANTS
  LiveStored
  DeletedKept
  SearchExact
CHECK_DEADLOCK FALSE
