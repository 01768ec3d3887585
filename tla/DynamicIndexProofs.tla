------------------------- MODULE DynamicIndexProofs -------------------------
(***************************************************************************)
(* Proofs about DynamicIndex, for any tags, calls and number of merges: no *)
(* live vector is lost, no deleted one comes back, and a search that       *)
(* overlaps at most one merge is exact.                                    *)
(***************************************************************************)
EXTENDS DynamicIndex, TLAPS

-----------------------------------------------------------------------------
(* The inductive invariant.  A search depends on which of the two deletion *)
(* sets it has the address of, and a deletion set on the merge's progress, *)
(* so that the three properties are proved together.                       *)

Saved == pc \in {"saved", "written", "committed", "swapped"}

FilesInv ==
  (* The reader is behind the prefix between the swap and reload().        *)
  /\ opened = IF pc = "swapped" THEN 1 - prefix_in ELSE prefix_in
  (* The tags in memory are those of the open file, or of the next one.    *)
  /\ tags = IF pc = "committed" THEN file[1 - prefix_in]
            ELSE IF pc = "swapped" THEN file[prefix_in] ELSE file[opened]
  (* Nothing is inserted while the file is written.                        *)
  /\ pc # "idle" => \A p \in Inserters : ins[p] = None
  /\ pc = "written" => file[1 - prefix_in] = file[opened] \ deletion_sets[Inactive]
  (* No two calls insert the same tag.                                     *)
  /\ \A p \in Inserters :
       ins[p] # None => ins[p] \notin tags /\ \A q \in Inserters \ {p} : ins[q] # ins[p]

DeletesInv ==
  /\ live \subseteq tags
  /\ deletion_sets[active_delete_set] \subseteq tags
  /\ live \cap deletion_sets[active_delete_set] = {}
  (* From its saving to its merge, the saved set holds no live tag and     *)
  (* shares none with the set that replaced it.                            *)
  /\ Saved => /\ live \cap deletion_sets[Inactive] = {}
              /\ deletion_sets[0] \cap deletion_sets[1] = {}
  (* Outside of that time, and once the tables are renewed, the active set *)
  (* alone accounts for the deleted tags.                                  *)
  /\ tags \ Deleted \subseteq live
  /\ (~Saved \/ Committed) => tags \ deletion_sets[active_delete_set] \subseteq live

(* A search s with at most one save_del_set() since it began.              *)
SearchInv(s) ==
  /\ srch[s].must \subseteq live /\ srch[s].dead \cap live = {}
  /\ srch[s].at # "idle" /\ srch[s].saves = 0 =>
       ~Saved /\ srch[s].set = active_delete_set
  /\ srch[s].at # "idle" /\ srch[s].saves = 1 => srch[s].set = Inactive
  /\ srch[s].at # "idle" /\ srch[s].saves < 2 =>
       (* The set that the search will subtract covers its dead tags, and  *)
       (* no tag that it must find is in it.                               *)
       /\ srch[s].dead \cap tags \subseteq deletion_sets[srch[s].set]
       /\ srch[s].must \cap deletion_sets[srch[s].set] = {}
  /\ srch[s].at = "filter" /\ srch[s].saves < 2 =>
       /\ srch[s].must \subseteq srch[s].found
       /\ srch[s].found \cap srch[s].dead \subseteq deletion_sets[srch[s].set]
  /\ srch[s].at = "return" /\ srch[s].saves < 2 =>
       /\ srch[s].must \subseteq srch[s].found
       /\ srch[s].found \cap srch[s].dead = {}

IInv ==
  /\ TypeOK
  /\ FilesInv
  /\ DeletesInv
  /\ \A s \in Searchers : SearchInv(s)

-----------------------------------------------------------------------------
(* Type correctness. *)

SearchState == [at : {"idle", "disk", "filter", "return"}, set : Sides,
                found : SUBSET Tags, must : SUBSET Tags, dead : SUBSET Tags,
                saves : 0 .. 2]

(* The variables keep their types, and exactly the active deletion set     *)
(* accepts deletions (save_del_set() clears and activates the other one).  *)
THEOREM TypeCorrect == Spec => []TypeOK
<1> USE DEF TypeOK, Sides, None, Inactive
<1>1. Init => TypeOK
  BY DynamicIndexAssumption DEF Init, IdleSearch
<1>2. TypeOK /\ [Next]_vars => TypeOK'
  <2> SUFFICES ASSUME TypeOK, [Next]_vars PROVE TypeOK'
    OBVIOUS
  <2>1. ASSUME NEW p \in Inserters, Insert(p) PROVE TypeOK'
    BY <2>1 DEF Insert, Insertable, indexVars, deleteVars
  <2>2. ASSUME NEW p \in Inserters, InsertInPlace(p) PROVE TypeOK'
    BY <2>2 DEF InsertInPlace, deleteVars
  <2>3. ASSUME NEW s \in Searchers, Search(s) PROVE TypeOK'
    BY <2>3 DEF Search, indexVars, deleteVars
  <2>4. ASSUME NEW s \in Searchers, BeamSearch(s) PROVE TypeOK'
    <3> DEFINE x == [srch[s] EXCEPT !.at = "filter", !.found = file[opened] \cap tags]
    <3>1. srch' = [srch EXCEPT ![s] = x]
      BY <2>4 DEF BeamSearch
    <3>2. x \in SearchState
      BY DEF SearchState
    <3> QED BY <2>4, <3>1, <3>2 DEF BeamSearch, SearchState, indexVars, deleteVars
  <2>5. ASSUME NEW s \in Searchers, Filter(s) PROVE TypeOK'
    <3> DEFINE x == [srch[s] EXCEPT !.at = "return",
                                    !.found = @ \ deletion_sets[srch[s].set]]
    <3>1. srch' = [srch EXCEPT ![s] = x]
      BY <2>5 DEF Filter
    <3>2. x \in SearchState
      BY DEF SearchState
    <3> QED BY <2>5, <3>1, <3>2 DEF Filter, SearchState, indexVars, deleteVars
  <2>6. ASSUME NEW s \in Searchers, SearchReturn(s) PROVE TypeOK'
    BY <2>6 DEF SearchReturn, IdleSearch, indexVars, deleteVars
  <2>7. ASSUME NEW t \in Tags, LazyDelete(t) PROVE TypeOK'
    BY <2>7 DEF LazyDelete, indexVars
  <2>8. CASE FinalMerge
    BY <2>8, DynamicIndexAssumption DEF FinalMerge, indexVars, deleteVars
  <2>9. CASE SaveDelSet
    <3>1. ASSUME NEW s \in Searchers
          PROVE  [srch[s] EXCEPT !.saves = IF @ = 2 THEN 2 ELSE @ + 1] \in SearchState
      <4>1. srch[s] \in SearchState /\ srch[s].saves \in 0 .. 2
        BY DEF SearchState
      <4>2. (IF srch[s].saves = 2 THEN 2 ELSE srch[s].saves + 1) \in 0 .. 2
        BY <4>1
      <4> QED BY <4>1, <4>2 DEF SearchState
    <3>2. srch' \in [Searchers -> SearchState]
      BY <2>9, <3>1 DEF SaveDelSet, CountSave, SearchState
    <3>3. active_del' = [i \in Sides |-> i = active_delete_set']
      <4>1. \A i \in Sides : i = active_delete_set \/ i = Inactive
        OBVIOUS
      <4>2. active_delete_set' = Inactive /\ Inactive # active_delete_set
        BY <2>9 DEF SaveDelSet
      <4>3. active_del' = [active_del EXCEPT ![Inactive] = TRUE, ![active_delete_set] = FALSE]
        BY <2>9 DEF SaveDelSet
      <4> QED BY <4>1, <4>2, <4>3, Zenon
    <3>4. /\ deletion_sets' \in [Sides -> SUBSET Tags] /\ active_delete_set' \in Sides
          /\ pc' = "saved" /\ UNCHANGED <<indexVars, ins, live, merges>>
      BY <2>9 DEF SaveDelSet
    <3> QED BY <3>2, <3>3, <3>4 DEF SearchState, indexVars
  <2>10. CASE MergeDeletes
    BY <2>10 DEF MergeDeletes, deleteVars
  <2>11. CASE CommitTables
    BY <2>11 DEF CommitTables, deleteVars
  <2>12. CASE Swap
    BY <2>12 DEF Swap, deleteVars
  <2>13. CASE Reload
    BY <2>13 DEF Reload, deleteVars
  <2>14. CASE UNCHANGED vars
    BY <2>14 DEF vars, indexVars, deleteVars
  <2> QED BY <2>1, <2>2, <2>3, <2>4, <2>5, <2>6, <2>7, <2>8, <2>9, <2>10, <2>11,
             <2>12, <2>13, <2>14 DEF Next, InsertCall, SearchCall, Delete, MergeCall
<1> QED BY <1>1, <1>2, PTL DEF Spec

-----------------------------------------------------------------------------
(* The invariant is preserved by each action; the searches of an action    *)
(* that concerns the index or the merge are untouched, but for the history *)
(* components that the action updates.                                     *)

(* insert() takes a tag that is in no call and not in the index.           *)
LEMMA InsertInv ==
  ASSUME IInv, NEW p \in Inserters, Insert(p)
  PROVE  FilesInv' /\ DeletesInv' /\ \A s \in Searchers : SearchInv(s)'
<1> USE DEF IInv, TypeOK, Insert, indexVars, deleteVars, Inactive, Committed
<1>1. FilesInv'
  BY DEF FilesInv, Insertable
<1>2. DeletesInv'
  BY DEF DeletesInv, Deleted, Saved
<1>3. ASSUME NEW s \in Searchers PROVE SearchInv(s)'
  BY DEF SearchInv, Saved
<1> QED BY <1>1, <1>2, <1>3

(* insert_in_place() adds a tag to the open file and to the tables; no     *)
(* search counts the tag as dead from then on.                             *)
LEMMA InsertInPlaceInv ==
  ASSUME IInv, NEW p \in Inserters, InsertInPlace(p)
  PROVE  FilesInv' /\ DeletesInv' /\ \A s \in Searchers : SearchInv(s)'
<1> USE DEF IInv, TypeOK, InsertInPlace, deleteVars, Inactive, Committed, Sides
<1>1. pc = "idle" /\ opened = prefix_in /\ tags = file[opened] /\ ins[p] \notin tags
  BY DEF FilesInv
<1>2. FilesInv'
  BY <1>1 DEF FilesInv
<1>3. DeletesInv'
  BY <1>1 DEF DeletesInv, Deleted, Saved
<1>4. ASSUME NEW s \in Searchers PROVE SearchInv(s)'
  <2>1. /\ srch'[s].at = srch[s].at /\ srch'[s].set = srch[s].set
        /\ srch'[s].found = srch[s].found /\ srch'[s].must = srch[s].must
        /\ srch'[s].dead = srch[s].dead \ {ins[p]} /\ srch'[s].saves = srch[s].saves
    OBVIOUS
  <2>2. /\ tags' = tags \cup {ins[p]} /\ live' = live \cup {ins[p]}
        /\ UNCHANGED <<pc, deletion_sets, active_delete_set>>
    OBVIOUS
  <2>3. SearchInv(s)
    OBVIOUS
  <2> QED BY ONLY <2>1, <2>2, <2>3 DEF SearchInv, Saved, Inactive
<1> QED BY <1>2, <1>3, <1>4

(* lazy_delete() moves a live tag to the active deletion set.              *)
LEMMA LazyDeleteInv ==
  ASSUME IInv, NEW t \in Tags, LazyDelete(t)
  PROVE  FilesInv' /\ DeletesInv' /\ \A s \in Searchers : SearchInv(s)'
<1> USE DEF IInv, TypeOK, LazyDelete, indexVars, Inactive, Committed, Sides
<1>1. FilesInv'
  BY DEF FilesInv
<1>2. DeletesInv'
  BY DEF DeletesInv, Deleted, Saved
<1>3. ASSUME NEW s \in Searchers PROVE SearchInv(s)'
  <2>1. /\ srch'[s].at = srch[s].at /\ srch'[s].set = srch[s].set
        /\ srch'[s].found = srch[s].found /\ srch'[s].must = srch[s].must \ {t}
        /\ srch'[s].dead = srch[s].dead /\ srch'[s].saves = srch[s].saves
    OBVIOUS
  <2>2. /\ \A i \in Sides : /\ deletion_sets[i] \subseteq deletion_sets'[i]
                            /\ deletion_sets'[i] \subseteq deletion_sets[i] \cup {t}
        /\ live' = live \ {t}
        /\ srch[s].set \in Sides
        /\ UNCHANGED <<pc, tags, active_delete_set>>
    OBVIOUS
  <2>3. SearchInv(s)
    OBVIOUS
  <2> QED BY ONLY <2>1, <2>2, <2>3 DEF SearchInv, Saved, Inactive
<1> QED BY <1>1, <1>2, <1>3

(* The steps of one search change nothing but that search.                 *)
LEMMA SearchStepInv ==
  ASSUME IInv, NEW s \in Searchers,
         Search(s) \/ BeamSearch(s) \/ Filter(s) \/ SearchReturn(s)
  PROVE  FilesInv' /\ DeletesInv' /\ \A r \in Searchers : SearchInv(r)'
<1> USE DEF IInv, TypeOK, indexVars, deleteVars, Inactive, Committed, Sides
<1>1. /\ UNCHANGED <<file, prefix_in, opened, tags, deletion_sets, active_delete_set,
                     pc, ins, live>>
      /\ \A r \in Searchers \ {s} : srch'[r] = srch[r]
  BY DEF Search, BeamSearch, Filter, SearchReturn
<1>2. FilesInv' /\ DeletesInv'
  BY <1>1 DEF FilesInv, DeletesInv, Deleted, Saved
<1>3. ASSUME NEW r \in Searchers \ {s} PROVE SearchInv(r)'
  BY <1>1 DEF SearchInv, Saved
<1>4. SearchInv(s)'
  (* Outside of a merge the active set accounts for every dead tag.        *)
  <2>1. CASE Search(s)
    <3>1. /\ srch'[s].at = "disk" /\ srch'[s].set = active_delete_set
          /\ srch'[s].must = live /\ srch'[s].dead = Tags \ live
          /\ srch'[s].saves = IF pc = "idle" THEN 0 ELSE 2
      BY <2>1 DEF Search
    <3>2. pc = "idle" => tags \ deletion_sets[active_delete_set] \subseteq live
      BY DEF DeletesInv, Saved
    <3> QED BY <1>1, <3>1, <3>2 DEF SearchInv, DeletesInv, Saved
  (* The open file holds the tags, all live ones among them.               *)
  <2>2. CASE BeamSearch(s)
    <3>1. /\ srch[s].at = "disk" /\ srch'[s].at = "filter"
          /\ srch'[s].found = file[opened] \cap tags
          /\ srch'[s].set = srch[s].set /\ srch'[s].must = srch[s].must
          /\ srch'[s].dead = srch[s].dead /\ srch'[s].saves = srch[s].saves
      BY <2>2 DEF BeamSearch
    <3>2. tags = file[opened] /\ live \subseteq tags
      BY <2>2 DEF BeamSearch, FilesInv, DeletesInv
    <3> QED BY <1>1, <3>1, <3>2 DEF SearchInv, Saved
  <2>3. CASE Filter(s)
    <3>1. /\ srch[s].at = "filter" /\ srch'[s].at = "return"
          /\ srch'[s].found = srch[s].found \ deletion_sets[srch[s].set]
          /\ srch'[s].set = srch[s].set /\ srch'[s].must = srch[s].must
          /\ srch'[s].dead = srch[s].dead /\ srch'[s].saves = srch[s].saves
      BY <2>3 DEF Filter
    <3>2. SearchInv(s)
      OBVIOUS
    <3> QED BY ONLY <1>1, <3>1, <3>2 DEF SearchInv, Saved, Inactive
  <2>4. CASE SearchReturn(s)
    BY <1>1, <2>4 DEF SearchReturn, IdleSearch, SearchInv
  <2> QED BY <2>1, <2>2, <2>3, <2>4
<1> QED BY <1>2, <1>3, <1>4

(* save_del_set() switches the sets: the one that a search has taken the   *)
(* address of since the previous switch is kept for the merge.             *)
LEMMA SaveDelSetInv ==
  ASSUME IInv, SaveDelSet
  PROVE  FilesInv' /\ DeletesInv' /\ \A s \in Searchers : SearchInv(s)'
<1> USE DEF IInv, TypeOK, SaveDelSet, indexVars, Sides
<1>1. FilesInv'
  BY DEF FilesInv, Committed, Inactive
<1>2. /\ active_delete_set' = Inactive /\ Inactive' = active_delete_set
      /\ deletion_sets'[Inactive] = {} /\ Inactive # active_delete_set
      /\ deletion_sets'[active_delete_set] = deletion_sets[active_delete_set]
      /\ Deleted' = deletion_sets[active_delete_set]
      /\ UNCHANGED <<tags, live>> /\ pc = "locked" /\ pc' = "saved"
  BY DEF Inactive, Deleted
<1>3. DeletesInv'
  <2>1. tags \ deletion_sets[active_delete_set] \subseteq live
    BY <1>2 DEF DeletesInv, Saved
  <2>2. deletion_sets'[0] \cap deletion_sets'[1] = {}
    BY <1>2 DEF Inactive
  <2> QED BY <1>2, <2>1, <2>2 DEF DeletesInv, Saved, Committed
<1>4. ASSUME NEW s \in Searchers PROVE SearchInv(s)'
  <2>1. /\ srch'[s].at = srch[s].at /\ srch'[s].set = srch[s].set
        /\ srch'[s].found = srch[s].found /\ srch'[s].must = srch[s].must
        /\ srch'[s].dead = srch[s].dead
        /\ srch[s].at # "idle" =>
             srch'[s].saves = IF srch[s].saves = 2 THEN 2 ELSE srch[s].saves + 1
    BY DEF CountSave
  <2>2. SearchInv(s) /\ srch[s].saves \in 0 .. 2
    OBVIOUS
  <2> QED BY ONLY <1>2, <2>1, <2>2 DEF SearchInv, Saved
<1> QED BY <1>1, <1>3, <1>4

(* The rest of final_merge() leaves the deletion sets and the live tags    *)
(* alone.                                                                  *)
LEMMA MergeInv ==
  ASSUME IInv, FinalMerge \/ MergeDeletes \/ CommitTables \/ Swap \/ Reload
  PROVE  FilesInv' /\ DeletesInv' /\ \A s \in Searchers : SearchInv(s)'
<1> USE DEF IInv, TypeOK, indexVars, deleteVars, Sides, Inactive
<1>1. UNCHANGED <<deletion_sets, active_delete_set, ins, srch, live>>
  BY DEF FinalMerge, MergeDeletes, CommitTables, Swap, Reload
<1>2. tags' \subseteq tags
  BY DEF FinalMerge, MergeDeletes, CommitTables, Swap, Reload, FilesInv
<1>3. FilesInv' /\ DeletesInv'
  <2>1. CASE FinalMerge
    BY <1>1, <2>1 DEF FinalMerge, FilesInv, DeletesInv, Deleted, Saved, Committed
  <2>2. CASE MergeDeletes
    BY <1>1, <2>2 DEF MergeDeletes, FilesInv, DeletesInv, Deleted, Saved, Committed
  (* The new tables hold the tags but those of the saved set.              *)
  <2>3. CASE CommitTables
    <3>1. tags' = tags \ deletion_sets[Inactive]
      BY <2>3 DEF CommitTables, FilesInv
    <3>2. FilesInv'
      BY <1>1, <2>3, <3>1 DEF CommitTables, FilesInv, Committed
    <3>3. deletion_sets[0] \cup deletion_sets[1]
             = deletion_sets[active_delete_set] \cup deletion_sets[Inactive]
      OBVIOUS
    <3>4. deletion_sets[active_delete_set] \cap deletion_sets[Inactive] = {}
      BY <2>3 DEF CommitTables, DeletesInv, Saved
    <3> QED BY <1>1, <2>3, <3>1, <3>2, <3>3, <3>4
            DEF CommitTables, DeletesInv, Deleted, Saved, Committed
  <2>4. CASE Swap
    BY <1>1, <2>4 DEF Swap, FilesInv, DeletesInv, Deleted, Saved, Committed
  <2>5. CASE Reload
    BY <1>1, <2>5 DEF Reload, FilesInv, DeletesInv, Deleted, Saved, Committed
  <2> QED BY <2>1, <2>2, <2>3, <2>4, <2>5
<1>4. ASSUME NEW s \in Searchers PROVE SearchInv(s)'
  <2>1. ~Saved => ~Saved'
    BY DEF FinalMerge, MergeDeletes, CommitTables, Swap, Reload, Saved
  <2>2. SearchInv(s)
    OBVIOUS
  <2> QED BY ONLY <1>1, <1>2, <2>1, <2>2 DEF SearchInv, Inactive
<1> QED BY <1>3, <1>4

-----------------------------------------------------------------------------
(* The inductive invariant holds: it relates the two files, the tables,    *)
(* the two deletion sets and the searches at every step of a merge.        *)
THEOREM Invariance == Spec => []IInv
<1>1. Init => IInv
  <2> SUFFICES ASSUME Init PROVE IInv
    OBVIOUS
  <2>1. TypeOK
    BY DynamicIndexAssumption DEF Init, TypeOK, IdleSearch, Sides, None
  <2> QED BY <2>1 DEF Init, IInv, FilesInv, DeletesInv, SearchInv, Deleted, Saved,
             IdleSearch, Sides, Committed, None, Inactive
<1>2. IInv /\ TypeOK' /\ [Next]_vars => IInv'
  <2> SUFFICES ASSUME IInv, TypeOK', [Next]_vars PROVE IInv'
    OBVIOUS
  <2>1. CASE UNCHANGED vars
    <3>1. FilesInv' /\ DeletesInv'
      BY <2>1 DEF IInv, vars, indexVars, deleteVars, FilesInv, DeletesInv, Deleted,
                  Saved, Committed, Inactive
    <3>2. \A s \in Searchers : SearchInv(s)'
      BY <2>1 DEF IInv, vars, indexVars, deleteVars, SearchInv, Saved, Inactive
    <3> QED BY <3>1, <3>2 DEF IInv
  <2>2. CASE Next
    BY <2>2, InsertInv, InsertInPlaceInv, LazyDeleteInv, SearchStepInv, SaveDelSetInv,
       MergeInv DEF Next, InsertCall, SearchCall, Delete, MergeCall, IInv
  <2> QED BY <2>1, <2>2
<1> QED BY <1>1, <1>2, TypeCorrect, PTL DEF Spec

(* No vector is lost: a tag that has been inserted and not deleted is in   *)
(* the tables and in the open file, whatever final_merge() is doing.       *)
THEOREM LiveStoredAlways == Spec => []LiveStored
<1>1. IInv => LiveStored
  BY DEF IInv, TypeOK, FilesInv, DeletesInv, LiveStored, Committed
<1> QED BY <1>1, Invariance, PTL

(* No deleted vector comes back when the deletion sets are switched.       *)
THEOREM DeletedKeptAlways == Spec => []DeletedKept
<1>1. IInv => DeletedKept
  BY DEF IInv, DeletesInv, DeletedKept
<1> QED BY <1>1, Invariance, PTL

(* A search during which at most one merge saves the deletions returns all *)
(* tags that stayed live and none that stayed dead.                        *)
THEOREM SearchExactAlways == Spec => []SearchExact
<1>1. IInv => SearchExact
  BY DEF IInv, SearchInv, SearchExact
<1> QED BY <1>1, Invariance, PTL
=============================================================================
