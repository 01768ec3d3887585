---------------------------- MODULE MCInsertData ----------------------------
(* TLC instances of InsertData.                                            *)
EXTENDS InsertData, TLC

CONSTANTS a, b

OneInserter  == {a}
TwoInserters == {a, b}
Symmetry == Permutations(TwoInserters)
=============================================================================
