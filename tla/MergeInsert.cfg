\* Two inserters and a search around a merge thread.
SPECIFICATION Spec
CONSTANTS
  t1 = t1  t2 = t2  t3 = t3  t4 = t4
  p1 = p1  p2 = p2  s1 = s1
  Tags = {t1, t2, t3}
  OnDisk <- FirstOnDisk
  Inserters = {p1, p2}
  Searchers = {s1}
  MergeTh = 1
  K = 1
SYMMETRY Symmetry
INVARIANTS
  LiveStored
  NothingComesBack
  SearchExact
CHECK_DEADLOCK FALSE
