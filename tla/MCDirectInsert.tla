--------------------------- MODULE MCDirectInsert ---------------------------
(* TLC instances of DirectInsert.                                          *)
EXTENDS DirectInsert, TLC

CONSTANTS a, b

TwoInserters == {a, b}
Symmetry == Permutations(TwoInserters)
=============================================================================
