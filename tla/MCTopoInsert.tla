---------------------------- MODULE MCTopoInsert ----------------------------
(* Small instances of TopoInsert.                                           *)
EXTENDS TopoInsert

CONSTANT i1
=============================================================================
