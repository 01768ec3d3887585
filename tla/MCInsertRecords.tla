--------------------------- MODULE MCInsertRecords ---------------------------
(* TLC instances of InsertRecords.                                         *)
EXTENDS InsertRecords, TLC

CONSTANTS a, b

TwoInserters == {a, b}
Symmetry == Permutations(TwoInserters)

(* One schedule that ends in a raw overwrite, for InsertRecords_raw.cfg: b *)
(* begins and visits a node; a inserts once and empties that node's page,  *)
(* and gets this page for its second insert, to be written without being   *)
(* read; then b, with the page as its hint, settles a record there.  Ids   *)
(* are visited, and get their slots, in increasing order.                  *)
First(p)  == target[p] = NPoints
Second(p) == target[p] = NPoints + 2
OverwriteSchedule ==
  LET allocates(p) == at[p] = "search" /\ at'[p] = "lockpage" IN
  /\ First(b) /\ Len(hints[b]) # 1 => UNCHANGED <<at[a], target[a]>>
  /\ at[b] = "idle" /\ at'[b] = "begin" => cur_id = NPoints
  /\ allocates(b) => at[a] = "lockpage" /\ Second(a)
  /\ at[a] = "lockpage" /\ Second(a) /\ at'[a] # at[a] =>
       at[b] = "idle" /\ bg_tasks = <<>> /\ bg_task = {}
  /\ allocates(a) => Cardinality(nbrs'[a]) = IF Second(a) THEN MinNbrs ELSE MaxNbrs
  /\ \A p \in Inserters :
       /\ reading'[p] \in {-1, reading[p], Len(hints[p])}
       /\ locs'[p] = locs[p] \/ \A i, j \in DOMAIN locs'[p] : i < j => locs'[p][i] < locs'[p][j]

NoRawOverwrite == "raw overwrite" \notin faults
=============================================================================
