--------------------------- MODULE MCMergeInsert ---------------------------
(* TLC instances of MergeInsert.                                           *)
EXTENDS MergeInsert, TLC
CONSTANTS t1, t2, t3, t4, p1, p2, s1

FirstOnDisk == {t1}
Symmetry == Permutations({t2, t3}) \cup Permutations({p1, p2})
=============================================================================
