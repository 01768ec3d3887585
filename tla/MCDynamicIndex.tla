--------------------------- MODULE MCDynamicIndex ---------------------------
(* TLC instances of DynamicIndex.                                          *)
EXTENDS DynamicIndex, TLC

CONSTANTS t1, t2, t3, p1, s1

FirstOnDisk == {t1, t2}

Symmetry == Permutations({t1, t2})
=============================================================================
