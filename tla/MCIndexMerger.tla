--------------------------- MODULE MCIndexMerger ----------------------------
(* TLC instances of IndexMerger.                                           *)
EXTENDS IndexMerger, TLC

(* An index of the given tags; a ring with a shortcut, without and with a  *)
(* hole.                                                                   *)
AnIndex(tags, links, medoid) ==
  [npts |-> Len(tags), medoid |-> medoid,
   tag |-> [i \in 0 .. Len(tags) - 1 |-> tags[i + 1]],
   vec |-> [i \in 0 .. Len(tags) - 1 |-> tags[i + 1]],
   pq |-> [i \in 0 .. Len(tags) - 1 |-> tags[i + 1]],
   nbrs |-> [i \in 0 .. Len(tags) - 1 |-> links[i + 1]]]

SomeIndices ==
  {AnIndex(<<"a", "b", "c">>, <<{1, 2}, {0}, {1}>>, 0),
   AnIndex(<<"a", "hole", "c">>, <<{2}, {}, {0}>>, 2)}

SomeBatches == {<<"x", "y">>, <<"z">>}
=============================================================================
