---------------------------- MODULE DynamicIndex ----------------------------
(***************************************************************************)
(* PipeANN's DynamicSSDIndex: insertions in place, lazy deletions in one   *)
(* of two sets, searches that leave the deleted tags out, and final_merge, *)
(* which writes an index without them and loads it.                        *)
(*                                                                         *)
(* The index is the set of its tags, and there are two index files: the    *)
(* one at _disk_index_prefix_in, which is open, and the one that the next  *)
(* merge writes.  What an insertion does to the file is DirectInsert, how  *)
(* a merge writes the other one is MergeDeletes.  Searches are in the mode *)
(* BEAM_SEARCH, the default, and find all tags.                            *)
(***************************************************************************)
EXTENDS Integers, FiniteSets

CONSTANTS
  Tags,
  OnDisk,           \* the tags in the index at the start
  Inserters, Searchers,
  MaxMerges         \* bound on the merges

ASSUME DynamicIndexAssumption ==
  OnDisk \subseteq Tags /\ IsFiniteSet(Tags) /\ MaxMerges \in Nat

Sides == {0, 1}
None == "none"

VARIABLES
  file,                     \* the tags in each of the two index files
  prefix_in,                \* _disk_index_prefix_in
  opened,                   \* the file that the reader has open
  deletion_sets, active_delete_set, active_del,
  pc,                       \* the place of final_merge()
  tags,                     \* the ids' tags, in memory
  ins, srch,                \* the calls of insert() and of search()
  live,                     \* history: inserted and not deleted since
  merges                    \* counter for the bound

indexVars  == <<file, prefix_in, opened, tags>>
deleteVars == <<deletion_sets, active_delete_set, active_del>>
vars == <<indexVars, deleteVars, pc, ins, srch, live, merges>>

Inactive == 1 - active_delete_set
Deleted == deletion_sets[0] \cup deletion_sets[1]

(* merge_lock of the SSDIndex, from merge_deletes() to reload().           *)
Committed == pc \in {"committed", "swapped"}

IdleSearch == [at |-> "idle", set |-> 0, found |-> {}, must |-> {}, dead |-> {},
               saves |-> 0]

Init ==
  /\ file = [i \in Sides |-> IF i = 0 THEN OnDisk ELSE {}]
  /\ prefix_in = 0 /\ opened = 0 /\ tags = OnDisk
  /\ deletion_sets = [i \in Sides |-> {}] /\ active_delete_set = 0
  /\ active_del = [i \in Sides |-> i = 0]
  /\ pc = "idle"
  /\ ins = [p \in Inserters |-> None]
  /\ srch = [s \in Searchers |-> IdleSearch]
  /\ live = OnDisk /\ merges = 0

-----------------------------------------------------------------------------
(* insert() *)

(* A tag may be inserted again once a merge has removed it: until then the *)
(* index would hold it twice.  This restricts the callers: insert() does   *)
(* not check it, and the merge that applies the deletion drops the new     *)
(* point of the tag as well (deletion_sets holds tags, not ids).           *)
Insertable == Tags \ (tags \cup {ins[p] : p \in Inserters})

(* (Plausible defect: the merge is not prevented during the insertion.)    *)
InsertUnlocked(p) ==
  /\ ins[p] = None
  /\ \E t \in Insertable : ins' = [ins EXCEPT ![p] = t]
  /\ UNCHANGED <<indexVars, deleteVars, pc, srch, live, merges>>

(* The shared _merge_lock is taken, "prevent merge during insert".         *)
Insert(p) ==
  /\ ins[p] = None
  /\ pc = "idle"
  /\ \E t \in Insertable : ins' = [ins EXCEPT ![p] = t]
  /\ UNCHANGED <<indexVars, deleteVars, pc, srch, live, merges>>

(* insert_in_place(), and the lock is released.                            *)
InsertInPlace(p) ==
  /\ ins[p] # None
  /\ file' = [file EXCEPT ![opened] = @ \cup {ins[p]}]
  /\ tags' = tags \cup {ins[p]}
  /\ live' = live \cup {ins[p]}
  /\ ins' = [ins EXCEPT ![p] = None]
  /\ srch' = [s \in Searchers |-> [srch[s] EXCEPT !.dead = @ \ {ins[p]}]]
  /\ UNCHANGED <<prefix_in, opened, deleteVars, pc, merges>>

-----------------------------------------------------------------------------
(* lazy_delete(), under delete_lock.                                       *)
LazyDelete(t) ==
  /\ t \in live
  /\ deletion_sets' = [deletion_sets EXCEPT ![active_delete_set] = @ \cup {t}]
  /\ live' = live \ {t}
  /\ srch' = [s \in Searchers |-> [srch[s] EXCEPT !.must = @ \ {t}]]
  /\ UNCHANGED <<indexVars, active_delete_set, active_del, pc, ins, merges>>

-----------------------------------------------------------------------------
(* search().  The history components are: the tags it must find, those it  *)
(* must not return, and how many deletion sets have been saved since (one  *)
(* already if a merge is in progress).                                     *)

(* The address of the active deletion set is taken first.                  *)
Search(s) ==
  /\ srch[s].at = "idle"
  /\ srch' = [srch EXCEPT ![s] =
                [at |-> "disk", set |-> active_delete_set, found |-> {}, must |-> live,
                 dead |-> Tags \ live, saves |-> IF pc = "idle" THEN 0 ELSE 2]]
  /\ UNCHANGED <<indexVars, deleteVars, pc, ins, live, merges>>

(* beam_search() holds merge_lock, so that it is not between the new tags  *)
(* and the new file.                                                       *)
BeamSearch(s) ==
  /\ srch[s].at = "disk"
  /\ ~Committed
  /\ srch' = [srch EXCEPT ![s].at = "filter", ![s].found = file[opened] \cap tags]
  /\ UNCHANGED <<indexVars, deleteVars, pc, ins, live, merges>>

(* (Plausible defect: the set that is active now is used.)                 *)
FilterActive(s) ==
  /\ srch[s].at = "filter"
  /\ srch' = [srch EXCEPT ![s].at = "return",
                          ![s].found = @ \ deletion_sets[active_delete_set]]
  /\ UNCHANGED <<indexVars, deleteVars, pc, ins, live, merges>>

(* The tags that are in the set now, which may have been saved or cleared  *)
(* since, are left out.                                                    *)
Filter(s) ==
  /\ srch[s].at = "filter"
  /\ srch' = [srch EXCEPT ![s].at = "return", ![s].found = @ \ deletion_sets[srch[s].set]]
  /\ UNCHANGED <<indexVars, deleteVars, pc, ins, live, merges>>

SearchReturn(s) ==
  /\ srch[s].at = "return"
  /\ srch' = [srch EXCEPT ![s] = IdleSearch]
  /\ UNCHANGED <<indexVars, deleteVars, pc, ins, live, merges>>

-----------------------------------------------------------------------------
(* final_merge() *)

(* The _merge_lock is taken.                                               *)
FinalMerge ==
  /\ pc = "idle" /\ merges < MaxMerges
  /\ \A p \in Inserters : ins[p] = None
  /\ pc' = "locked" /\ merges' = merges + 1
  /\ UNCHANGED <<indexVars, deleteVars, ins, srch, live>>

CountSave == srch' = [s \in Searchers |->
                        IF srch[s].at = "idle" THEN srch[s]
                        ELSE [srch[s] EXCEPT !.saves = IF @ = 2 THEN 2 ELSE @ + 1]]

(* (Plausible defect: the set that was saved is cleared too.)              *)
SaveDelSetClearsBoth ==
  /\ pc = "locked"
  /\ deletion_sets' = [i \in Sides |-> {}]
  /\ active_del' = [i \in Sides |-> i = Inactive]
  /\ active_delete_set' = Inactive
  /\ CountSave
  /\ pc' = "saved"
  /\ UNCHANGED <<indexVars, ins, live, merges>>

(* save_del_set(), under delete_lock.                                      *)
SaveDelSet ==
  /\ pc = "locked"
  /\ deletion_sets' = [deletion_sets EXCEPT ![Inactive] = {}]
  /\ active_del' = [active_del EXCEPT ![Inactive] = TRUE, ![active_delete_set] = FALSE]
  /\ active_delete_set' = Inactive
  /\ CountSave
  /\ pc' = "saved"
  /\ UNCHANGED <<indexVars, ins, live, merges>>

(* merge_deletes() writes the records whose tags are not in the saved set  *)
(* to the file at _disk_index_prefix_out,                                  *)
MergeDeletes ==
  /\ pc = "saved"
  /\ file' = [file EXCEPT ![1 - prefix_in] = file[opened] \ deletion_sets[Inactive]]
  /\ pc' = "written"
  /\ UNCHANGED <<prefix_in, opened, tags, deleteVars, ins, srch, live, merges>>

(* takes merge_lock, and renews the tables.                                *)
CommitTables ==
  /\ pc = "written"
  /\ tags' = file[1 - prefix_in]
  /\ pc' = "committed"
  /\ UNCHANGED <<file, prefix_in, opened, deleteVars, ins, srch, live, merges>>

Swap ==
  /\ pc = "committed"
  /\ prefix_in' = 1 - prefix_in
  /\ pc' = "swapped"
  /\ UNCHANGED <<file, opened, tags, deleteVars, ins, srch, live, merges>>

(* reload() opens the new file and unlocks merge_lock; final_merge()       *)
(* returns.                                                                *)
Reload ==
  /\ pc = "swapped"
  /\ opened' = prefix_in
  /\ pc' = "idle"
  /\ UNCHANGED <<file, prefix_in, tags, deleteVars, ins, srch, live, merges>>

-----------------------------------------------------------------------------
InsertCall == \E p \in Inserters : Insert(p) \/ InsertInPlace(p)
SearchCall ==
  \E s \in Searchers : Search(s) \/ BeamSearch(s) \/ Filter(s) \/ SearchReturn(s)
Delete == \E t \in Tags : LazyDelete(t)
MergeCall == FinalMerge \/ SaveDelSet \/ MergeDeletes \/ CommitTables \/ Swap \/ Reload

Next == InsertCall \/ SearchCall \/ Delete \/ MergeCall

Spec == Init /\ [][Next]_vars

-----------------------------------------------------------------------------
(* Properties.                                                             *)

(* The type of the variables; one deletion set accepts deletions.          *)
TypeOK ==
  /\ file \in [Sides -> SUBSET Tags] /\ prefix_in \in Sides /\ opened \in Sides
  /\ tags \subseteq Tags /\ live \subseteq Tags /\ merges \in 0 .. MaxMerges
  /\ deletion_sets \in [Sides -> SUBSET Tags] /\ active_delete_set \in Sides
  /\ active_del = [i \in Sides |-> i = active_delete_set]
  /\ pc \in {"idle", "locked", "saved", "written", "committed", "swapped"}
  /\ ins \in [Inserters -> Tags \cup {None}]
  /\ srch \in [Searchers ->
                 [at : {"idle", "disk", "filter", "return"}, set : Sides,
                  found : SUBSET Tags, must : SUBSET Tags, dead : SUBSET Tags,
                  saves : 0 .. 2]]

(* No vector is lost by the merges: one that has been inserted and not     *)
(* deleted has its tag and its record in the open file, and it is not      *)
(* taken for deleted.                                                      *)
LiveStored ==
  /\ ~Committed => live \subseteq file[opened]
  /\ live \subseteq tags
  /\ live \cap deletion_sets[active_delete_set] = {}

(* A deleted vector is in a deletion set until a merge has removed it, so  *)
(* that none comes back when the sets are switched.                        *)
DeletedKept == tags \ Deleted \subseteq live

(* A search that began outside of a merge, and during which at most one    *)
(* began, returns all vectors that were live when it began and have not    *)
(* been deleted since, and none that was deleted or not inserted before,   *)
(* unless it is inserted meanwhile.  The set whose address it took is      *)
(* cleared by the second save_del_set(); and a search that begins in a     *)
(* merge takes the new set, while the deleted tags are still in the index. *)
SearchExact ==
  \A s \in Searchers :
    srch[s].at = "return" /\ srch[s].saves < 2 =>
      /\ srch[s].must \subseteq srch[s].found
      /\ srch[s].found \cap srch[s].dead = {}
=============================================================================
