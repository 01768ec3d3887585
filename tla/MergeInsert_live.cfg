\* Inserts that never end around the merge thread; no searches.
SPECIFICATION Spec
CONSTANTS
  t1 = t1  t2 = t2  t3 = t3  t4 = t4
  p1 = p1  p2 = p2  s1 = s1
  Tags = {t1, t2, t3, t4}
  OnDisk <- FirstOnDisk
  Inserters = {p1, p2}
  Searchers = {}
  MergeTh = 1
  K = 1
INVARIANTS
  RefusedWhenFull
PROPERTY
  SwitchHappens
CHECK_DEADLOCK FALSE
