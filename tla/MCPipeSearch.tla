---------------------------- MODULE MCPipeSearch ----------------------------
(* TLC instances of PipeSearch.                                            *)
EXTENDS PipeSearch, TLC

(* Each node has a few neighbours, nearer or farther: a path towards the   *)
(* query with a branch at each step, and a hub.                            *)
SomeGraphs ==
  {0 :> {1} @@ 1 :> {0, 3} @@ 2 :> {0, 3} @@ 3 :> {1, 2} @@ 4 :> {2, 3} @@ 5 :> {3, 4},
   0 :> {2} @@ 1 :> {4} @@ 2 :> {1} @@ 3 :> {4} @@ 4 :> {0, 1, 2, 3} @@ 5 :> {0, 3}}
=============================================================================
