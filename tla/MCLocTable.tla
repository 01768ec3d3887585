----------------------------- MODULE MCLocTable -----------------------------
(* TLC instances of LocTable: small index files, a few concurrent inserts. *)
EXTENDS LocTable, TLC

CONSTANTS a, b, c

TwoInserters   == {a, b}
ThreeInserters == {a, b, c}

Symmetry2 == Permutations(TwoInserters)
Symmetry3 == Permutations(ThreeInserters)
=============================================================================
