--------------------------- MODULE MCMergeDeletes ---------------------------
(* TLC instances of MergeDeletes.                                          *)
EXTENDS MergeDeletes

(* Locations in the order of ids, reversed, and with holes between them.   *)
Identity == [i \in Ids |-> i]
Reversed == [i \in Ids |-> Tail - 1 - i]
Spread   == [i \in Ids |-> IF 2 * i < Tail THEN 2 * i ELSE 2 * (i - Tail \div 2) + 1]
AllLayouts == {Identity, Reversed, Spread}
OneLayout  == {Identity}

(* A ring, and a binary tree that wraps around: with two links per node, a *)
(* node that inherits those of a deleted neighbour has too many.           *)
Ring == [i \in Ids |-> {(i + 1) % NIds}]
Tree == [i \in Ids |-> {(2 * i + 1) % NIds, (2 * i + 2) % NIds} \ {i}]
RingTree == {Ring, Tree}
OneGraph == {Ring}

BgIdle   == {"none"}
BgQueued == {"queued"}
BgAny    == {"none", "queued"}
Beam     == {"beam"}
Pipe     == {"pipe"}
NoSearch == {}
=============================================================================
