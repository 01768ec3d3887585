---------------------------- MODULE MergeInsert ----------------------------
(***************************************************************************)
(* FreshDiskANN's MergeInsert: two memory indices and two deletion sets in *)
(* front of a disk index.  Inserts go to the active memory index, deletes  *)
(* to the active deletion set.  The merge thread saves the deletion set,   *)
(* makes the other memory index the active one, merges the old one into a  *)
(* new disk index, and then clears it.  Inserts, deletes and searches go   *)
(* on all the while.                                                       *)
(*                                                                         *)
(* A vector is its tag.  A search finds everything in an index (its list   *)
(* is long enough); which K of the candidates are nearest is left open.    *)
(* There is one merge thread, as in tests/test_merge_insert.cpp, where     *)
(* trigger_merge() runs in a loop and final_merge() after it.              *)
(***************************************************************************)
EXTENDS Integers, FiniteSets, FiniteSetsExt

CONSTANTS
  Tags,
  OnDisk,           \* the tags of the disk index at the start
  Inserters, Searchers,
  MergeTh,          \* _merge_th; a memory index takes twice as many points
  K                 \* the results a search asks for

ASSUME MergeInsertAssumption ==
  /\ OnDisk \subseteq Tags /\ IsFiniteSet(Tags)
  /\ MergeTh \in Nat \ {0} /\ K \in Nat

Sides == {0, 1}
MaxPoints == 2 * MergeTh
None == "none"

VARIABLES
  active_index, active, mem,      \* _active_index, _active_0/1, _mem_index_0/1
  mem_points, check_switch_index,
  active_delete_set, deletion_set,
  clearing_index,                 \* _clearing_index_0/1
  disk,                           \* the tags of the loaded disk index
  mem_file,                       \* the memory index that the merger reads
  pc,                             \* the place of the merge thread
  ins,                            \* the inserts in progress
  srch,                           \* the searches in progress
  live                            \* history: inserted and not deleted since

indexVars  == <<active_index, active, mem, mem_points, check_switch_index>>
deleteVars == <<active_delete_set, deletion_set>>
mergeVars  == <<clearing_index, disk, mem_file, pc>>
callVars   == <<ins, srch, live>>
vars == <<indexVars, deleteVars, mergeVars, callVars>>

Inactive == 1 - active_index
Stored == disk \cup mem[0] \cup mem[1]
Deleted == deletion_set[0] \cup deletion_set[1]

IdleInsert == [at |-> "idle", tag |-> None, side |-> 0]
IdleSearch == [at |-> "idle", side |-> 0, best |-> {}, must |-> {}, dead |-> {},
               old |-> FALSE]

Init ==
  /\ active_index = 0 /\ active = [i \in Sides |-> i = 0]
  /\ mem = [i \in Sides |-> {}] /\ mem_points = 0
  /\ check_switch_index = FALSE
  /\ active_delete_set = 0 /\ deletion_set = [i \in Sides |-> {}]
  /\ clearing_index = [i \in Sides |-> FALSE]
  /\ disk = OnDisk /\ mem_file = {}
  /\ pc = "idle"
  /\ ins = [p \in Inserters |-> IdleInsert]
  /\ srch = [s \in Searchers |-> IdleSearch]
  /\ live = OnDisk

-----------------------------------------------------------------------------
(* insert().                                                               *)

(* A caller inserts a tag that is not in the index; one that it deleted    *)
(* comes back at the earliest when the merge that applied the deletion is  *)
(* over (seed_iter() and run_iter() in tests/test_merge_insert.cpp).       *)
(* This restricts the callers: insert() checks none of it, and what then   *)
(* becomes of the new point is not modelled.                               *)
Insertable ==
  {t \in Tags : /\ t \notin live
                /\ t \notin deletion_set[active_delete_set]
                /\ pc = "idle" \/ t \notin deletion_set[1 - active_delete_set]
                /\ \A p \in Inserters : ins[p].tag # t}

(* (Plausible defect: inserts do not wait for the switch.)                 *)
InsertUnchecked(p, t) ==
  /\ ins[p].at = "idle" /\ t \in Insertable
  /\ ins' = [ins EXCEPT ![p] = [IdleInsert EXCEPT !.at = "lock", !.tag = t]]
  /\ UNCHANGED <<indexVars, deleteVars, mergeVars, srch, live>>

(* The loop on _check_switch_index is over.                                *)
Insert(p, t) ==
  /\ ins[p].at = "idle" /\ t \in Insertable
  /\ ~check_switch_index
  /\ ins' = [ins EXCEPT ![p] = [IdleInsert EXCEPT !.at = "lock", !.tag = t]]
  /\ UNCHANGED <<indexVars, deleteVars, mergeVars, srch, live>>

(* The shared _index_lock.  switch_index() holds it exclusively for one    *)
(* step, so that it is never found taken.                                  *)
InsertLock(p) ==
  /\ ins[p].at = "lock"
  /\ ins' = [ins EXCEPT ![p].at = IF active[active_index] THEN "locked" ELSE "refused",
                        ![p].side = active_index]
  /\ UNCHANGED <<indexVars, deleteVars, mergeVars, srch, live>>

(* insert_point(), unless the index is full.  Its other error, -3, changes *)
(* nothing either and ends in the same refusal.                            *)
InsertPoint(p) ==
  LET full == Cardinality(mem[ins[p].side]) >= MaxPoints IN
  /\ ins[p].at = "locked"
  /\ IF full THEN UNCHANGED <<mem, live>>
     ELSE /\ mem' = [mem EXCEPT ![ins[p].side] = @ \cup {ins[p].tag}]
          /\ live' = live \cup {ins[p].tag}
  /\ ins' = [ins EXCEPT ![p].at = IF full THEN "refused" ELSE "inserted"]
  /\ srch' = [s \in Searchers |->
                [srch[s] EXCEPT !.dead = IF full THEN @ ELSE @ \ {ins[p].tag}]]
  /\ UNCHANGED <<active_index, active, mem_points, check_switch_index, deleteVars,
                 mergeVars>>

(* _mem_points is increased and the lock released; or -1 or -2 returned.   *)
InsertReturn(p) ==
  /\ ins[p].at \in {"inserted", "refused"}
  /\ mem_points' = IF ins[p].at = "inserted" THEN mem_points + 1 ELSE mem_points
  /\ ins' = [ins EXCEPT ![p] = IdleInsert]
  /\ UNCHANGED <<active_index, active, mem, check_switch_index, deleteVars, mergeVars,
                 srch, live>>

(* The inserts that hold _index_lock.                                      *)
IndexLockHeld == \E p \in Inserters : ins[p].at \in {"locked", "inserted", "refused"}

-----------------------------------------------------------------------------
(* lazy_delete(), under _delete_lock.  Its caller knows the tag.           *)

LazyDelete(t) ==
  /\ t \in live
  /\ \A p \in Inserters : ins[p].tag # t
  /\ deletion_set' = [deletion_set EXCEPT ![active_delete_set] = @ \cup {t}]
  /\ live' = live \ {t}
  /\ srch' = [s \in Searchers |-> [srch[s] EXCEPT !.must = @ \ {t}]]
  /\ UNCHANGED <<indexVars, active_delete_set, mergeVars, ins>>

-----------------------------------------------------------------------------
(* search_sync().  "must" and "dead" are history: the tags the search has  *)
(* to find, and those that were deleted before it began; "old" is set when *)
(* the merge thread starts to clear a memory index after it has begun.     *)

(* The disk index, under the shared _disk_lock.                            *)
SearchDisk(s) ==
  /\ srch[s].at = "idle"
  /\ srch' = [srch EXCEPT ![s] = [IdleSearch EXCEPT !.at = "check", !.best = disk,
                                     !.must = live, !.dead = Tags \ live]]
  /\ UNCHANGED <<indexVars, deleteVars, mergeVars, ins, live>>

NextPlace(side) == IF side = 0 THEN "check" ELSE "filter"

(* A memory index that is being cleared is not searched.                   *)
SearchCheck(s) ==
  LET i == srch[s].side IN
  /\ srch[s].at = "check"
  /\ srch' = [srch EXCEPT ![s].at = IF clearing_index[i] THEN NextPlace(i) ELSE "lock",
                          ![s].side = IF clearing_index[i] THEN 1 ELSE i]
  /\ UNCHANGED <<indexVars, deleteVars, mergeVars, ins, live>>

(* The shared clear lock.  That of index 0 is held until its flags are     *)
(* reset, that of index 1 only while it is cleared.                        *)
SearchLock(s) ==
  /\ srch[s].at = "lock"
  /\ ~(pc = "cleared" /\ Inactive = 0 /\ srch[s].side = 0)
  /\ srch' = [srch EXCEPT ![s].at = "mem"]
  /\ UNCHANGED <<indexVars, deleteVars, mergeVars, ins, live>>

SearchMem(s) ==
  LET i == srch[s].side IN
  /\ srch[s].at = "mem"
  /\ srch' = [srch EXCEPT ![s].at = NextPlace(i), ![s].side = 1,
                          ![s].best = @ \cup mem[i]]
  /\ UNCHANGED <<indexVars, deleteVars, mergeVars, ins, live>>

(* (Plausible defect: only the active deletion set filters the results.)   *)
ResultsActiveSet(best) ==
  LET found == best \ deletion_set[active_delete_set] IN
  IF Cardinality(best) > K
  THEN kSubset(Min({K, Cardinality(found)}), found) ELSE {{}}

(* The results: the nearest K candidates that are in neither deletion set, *)
(* and none at all unless there are more than K candidates.                *)
Results(best) ==
  IF Cardinality(best) > K
  THEN kSubset(Min({K, Cardinality(best \ Deleted)}), best \ Deleted) ELSE {{}}

(* "best" is now what is returned.                                         *)
SearchFilter(s) ==
  /\ srch[s].at = "filter"
  /\ \E found \in Results(srch[s].best) :
       srch' = [srch EXCEPT ![s].at = "return", ![s].best = found, ![s].must = {}]
  /\ UNCHANGED <<indexVars, deleteVars, mergeVars, ins, live>>

SearchReturn(s) ==
  /\ srch[s].at = "return"
  /\ srch' = [srch EXCEPT ![s] = IdleSearch]
  /\ UNCHANGED <<indexVars, deleteVars, mergeVars, ins, live>>

ClearLockHeld(i) == \E s \in Searchers : srch[s].at = "mem" /\ srch[s].side = i

-----------------------------------------------------------------------------
(* The merge thread: trigger_merge() and final_merge(), which call         *)
(* save_del_set() and switch_index().                                      *)

(* trigger_merge() looks at the threshold; final_merge() is called when    *)
(* the inserts have returned.  The other deletion set is cleared and       *)
(* becomes the active one, under _delete_lock.  The one that was active is *)
(* then written to a file (TagsFile); nobody changes it meanwhile.         *)
SaveDelSet ==
  /\ pc = "idle"
  /\ \/ mem_points >= MergeTh
     \/ mem_points > 0 /\ \A p \in Inserters : ins[p].at = "idle"
  /\ deletion_set' = [deletion_set EXCEPT ![1 - active_delete_set] = {}]
  /\ active_delete_set' = 1 - active_delete_set
  /\ pc' = "switch"
  /\ UNCHANGED <<indexVars, clearing_index, disk, mem_file, callVars>>

CheckSwitch ==
  /\ pc = "switch"
  /\ check_switch_index' = TRUE
  /\ pc' = "lock"
  /\ UNCHANGED <<active_index, active, mem, mem_points, deleteVars, clearing_index, disk,
                 mem_file, callVars>>

(* (Plausible defect: _index_lock is not waited for.)                      *)
SwitchUnlocked ==
  /\ pc = "lock"
  /\ mem' = [mem EXCEPT ![Inactive] = {}]
  /\ active' = [active EXCEPT ![Inactive] = TRUE]
  /\ active_index' = Inactive
  /\ mem_points' = 0
  /\ check_switch_index' = FALSE
  /\ pc' = "save"
  /\ UNCHANGED <<deleteVars, clearing_index, disk, mem_file, callVars>>

(* Under the exclusive _index_lock the other index is replaced by a new    *)
(* one, which becomes the active one.                                      *)
Switch ==
  /\ pc = "lock"
  /\ ~IndexLockHeld
  /\ mem' = [mem EXCEPT ![Inactive] = {}]
  /\ active' = [active EXCEPT ![Inactive] = TRUE]
  /\ active_index' = Inactive
  /\ mem_points' = 0
  /\ check_switch_index' = FALSE
  /\ pc' = "save"
  /\ UNCHANGED <<deleteVars, clearing_index, disk, mem_file, callVars>>

(* (Plausible defect: the index that is now active is made inactive.)      *)
SaveActive ==
  /\ pc = "save"
  /\ mem_file' = IF active[Inactive] THEN mem[Inactive] ELSE mem_file
  /\ active' = [active EXCEPT ![active_index] = FALSE]
  /\ pc' = "merge"
  /\ UNCHANGED <<active_index, mem, mem_points, check_switch_index, deleteVars,
                 clearing_index, disk, callVars>>

(* save(): if the old index is already inactive nothing is saved, and the  *)
(* file stays as it was; the caller does not look at the result.           *)
Save ==
  /\ pc = "save"
  /\ mem_file' = IF active[Inactive] THEN mem[Inactive] ELSE mem_file
  /\ active' = [active EXCEPT ![Inactive] = FALSE]
  /\ pc' = "merge"
  /\ UNCHANGED <<active_index, mem, mem_points, check_switch_index, deleteVars,
                 clearing_index, disk, callVars>>

(* _deleted_tags_file.                                                     *)
TagsFile == deletion_set[1 - active_delete_set]

(* (Plausible defect: the deleted tags are not taken from the new points.) *)
MergeKeepsDeleted ==
  /\ pc = "merge"
  /\ mem_file \ TagsFile # {}
  /\ disk' = (disk \ TagsFile) \cup mem_file
  /\ pc' = "merged"
  /\ UNCHANGED <<indexVars, deleteVars, clearing_index, mem_file, callVars>>

(* merge(): the new disk index is made, and loaded under the exclusive     *)
(* _disk_lock.  IndexMerger says how it is made.                           *)
Merge ==
  /\ pc = "merge"
  /\ mem_file \ TagsFile # {}
  /\ disk' = (disk \cup mem_file) \ TagsFile
  /\ pc' = "merged"
  /\ UNCHANGED <<indexVars, deleteVars, clearing_index, mem_file, callVars>>

(* With nothing to insert the merger reads the back of an empty vector.    *)
MergeUndefined ==
  /\ pc = "merge"
  /\ mem_file \ TagsFile = {}
  /\ pc' = "undefined"
  /\ UNCHANGED <<indexVars, deleteVars, clearing_index, disk, mem_file, callVars>>

SetClearing ==
  /\ pc = "merged"
  /\ clearing_index' = [clearing_index EXCEPT ![Inactive] = TRUE]
  /\ srch' = [s \in Searchers |->
                [srch[s] EXCEPT !.old = srch[s].at # "idle" \/ @]]
  /\ pc' = "clear"
  /\ UNCHANGED <<indexVars, deleteVars, disk, mem_file, ins, live>>

(* The old index is replaced by an empty one, under its clear lock.        *)
ClearIndex ==
  /\ pc = "clear"
  /\ ~ClearLockHeld(Inactive)
  /\ mem' = [mem EXCEPT ![Inactive] = {}]
  /\ pc' = "cleared"
  /\ UNCHANGED <<active_index, active, mem_points, check_switch_index, deleteVars,
                 clearing_index, disk, mem_file, callVars>>

EndClear ==
  /\ pc = "cleared"
  /\ clearing_index' = [clearing_index EXCEPT ![Inactive] = FALSE]
  /\ active' = [active EXCEPT ![Inactive] = FALSE]
  /\ pc' = "idle"
  /\ UNCHANGED <<active_index, mem, mem_points, check_switch_index, deleteVars, disk,
                 mem_file, callVars>>

-----------------------------------------------------------------------------
InsertStep(p) ==
  \/ \E t \in Tags : Insert(p, t)
  \/ InsertLock(p) \/ InsertPoint(p) \/ InsertReturn(p)

SearchGoesOn(s) ==
  \/ SearchCheck(s) \/ SearchLock(s) \/ SearchMem(s)
  \/ SearchFilter(s) \/ SearchReturn(s)

SearchStep(s) == SearchDisk(s) \/ SearchGoesOn(s)

MergeStep ==
  \/ SaveDelSet \/ CheckSwitch \/ Switch \/ Save
  \/ Merge \/ MergeUndefined \/ SetClearing \/ ClearIndex \/ EndClear

Next ==
  \/ \E p \in Inserters : InsertStep(p)
  \/ \E s \in Searchers : SearchStep(s)
  \/ \E t \in Tags : LazyDelete(t)
  \/ MergeStep

(* The merge thread polls; a call that has begun goes on.  _index_lock is  *)
(* a reader-preferring rwlock and no fairness is assumed of it.            *)
Spec ==
  /\ Init /\ [][Next]_vars
  /\ WF_vars(MergeStep)
  /\ \A p \in Inserters : WF_vars(InsertLock(p) \/ InsertPoint(p) \/ InsertReturn(p))
  /\ \A s \in Searchers : WF_vars(SearchGoesOn(s))

-----------------------------------------------------------------------------
(* Properties.                                                             *)

(* The type of the variables.                                              *)
TypeOK ==
  /\ active_index \in Sides /\ active \in [Sides -> BOOLEAN]
  /\ mem \in [Sides -> SUBSET Tags] /\ mem_points \in 0 .. MaxPoints
  /\ check_switch_index \in BOOLEAN
  /\ active_delete_set \in Sides /\ deletion_set \in [Sides -> SUBSET Tags]
  /\ clearing_index \in [Sides -> BOOLEAN]
  /\ disk \subseteq Tags /\ mem_file \subseteq Tags
  /\ pc \in {"idle", "switch", "lock", "save", "merge", "merged", "clear",
             "cleared", "undefined"}
  /\ ins \in [Inserters ->
                [at : {"idle", "lock", "locked", "inserted", "refused"},
                 tag : Tags \cup {None}, side : Sides]]
  /\ srch \in [Searchers ->
                 [at : {"idle", "check", "lock", "mem", "filter", "return"},
                  side : Sides, best : SUBSET Tags, must : SUBSET Tags,
                  dead : SUBSET Tags, old : BOOLEAN]]
  /\ live \subseteq Tags

(* No vector is lost: one that has been inserted and not deleted is in an  *)
(* index that is searched, whatever the merge thread is doing.             *)
LiveStored == live \subseteq Stored

(* No vector comes back: one that is stored and passes the filter of the   *)
(* two deletion sets is live.  A deletion set may only be cleared when the *)
(* merge that it was saved for has dropped its tags everywhere.            *)
NothingComesBack == Stored \ Deleted \subseteq live

(* An insert never meets an inactive index ("Active index indicated as ... *)
(* but it cannot accept insertions"): only a full one refuses it.          *)
RefusedWhenFull ==
  \A p \in Inserters :
    ins[p].at = "refused" => Cardinality(mem[ins[p].side]) >= MaxPoints

(* A search during which no merge ended has come across every vector that  *)
(* was inserted before it began and is still there, and does not return    *)
(* one that was deleted before it began.                                   *)
SearchExact ==
  \A s \in Searchers :
    ~srch[s].old =>
      /\ srch[s].at = "filter" => srch[s].must \subseteq srch[s].best
      /\ srch[s].at = "return" => srch[s].best \cap srch[s].dead = {}

(* "insert threads wait till it turns back to false" (merge_insert.h): so  *)
(* inserts, however many, cannot keep the switch from _index_lock.         *)
SwitchHappens == pc = "lock" ~> pc = "save"
=============================================================================
