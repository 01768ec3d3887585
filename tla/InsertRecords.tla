---------------------------- MODULE InsertRecords ----------------------------
(***************************************************************************)
(* What becomes of the records under concurrent calls of insert_in_place().*)
(*                                                                         *)
(* Three steps of the code may each lose what another insert has written.  *)
(* They are steps of InsertData, not errors of the model, and a history    *)
(* variable notes them when they happen:                                   *)
(*                                                                         *)
(*   stale put      a read_alloc() that missed a page puts what it has     *)
(*                  read from disk in the cache, although the page has     *)
(*                  been written there in the meantime                     *)
(*   raw overwrite  pages are chosen by alloc_loc() to be written without  *)
(*                  being read, as they were empty; another insert has     *)
(*                  since settled a record in one of them                  *)
(*   lost lock      the second unlock of the target releases the lock that *)
(*                  another insert has taken on it                         *)
(*                                                                         *)
(* The properties say that nothing else does: whatever the interleaving,   *)
(* no record and no link is lost before one of them has happened.          *)
(***************************************************************************)
EXTENDS InsertData

VARIABLE faults     \* the faults that have happened

(* put() of page contents that are no longer those of the page.            *)
StalePut(p) ==
  /\ missing[p] # NoPages /\ missing'[p] = NoPages
  /\ \E l \in DOMAIN found[p] : found[p][l] # Contents(l)

(* The records of an insert are begun in raw memory for a page in use.     *)
RawOverwrite(p) ==
  /\ at[p] = "read" /\ at'[p] = "update"
  /\ \E i \in LT!Settled : PageOf(id2loc[i]) \in WritePages(p) \ need_read[p]

(* The target is still, or again, locked when it is unlocked a second time.*)
LostLock(p) ==
  /\ at[p] = "unlocktarget" /\ at'[p] = "push"
  /\ target[p] \in vec_locks

Noted(fault, happened) == IF happened THEN {fault} ELSE {}

RecordsInit == DataInit /\ faults = {}
RecordsNext ==
  /\ DataNext
  /\ faults' = faults \cup Noted("stale put", \E p \in Inserters : StalePut(p))
                     \cup Noted("raw overwrite", \E p \in Inserters : RawOverwrite(p))
                     \cup Noted("lost lock", \E p \in Inserters : LostLock(p))

RecordsSpec == RecordsInit /\ [][RecordsNext]_<<allVars, faults>>

-----------------------------------------------------------------------------
(* Properties.                                                             *)

(* Whoever reads the location of an id that is settled, from the cache or  *)
(* from the disk, finds that id's record, until one of the faults: pages   *)
(* are read, modified and written as a whole by several inserts, leave the *)
(* cache and come back from a disk that is written behind.                 *)
RecordsKept == faults = {} => RecordsIntact

(* A link, once made from both sides, is not lost to an insert that copies *)
(* an earlier version of the neighbour's record, until one of the faults.  *)
LinksKept == faults = {} => LinksMutual
=============================================================================
