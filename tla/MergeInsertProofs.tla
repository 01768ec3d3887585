-------------------------- MODULE MergeInsertProofs --------------------------
(***************************************************************************)
(* Proofs about MergeInsert, for any tags, calls, threshold and K: no      *)
(* vector is lost or comes back, only a full index refuses a point, and a  *)
(* search during which no memory index is cleared is exact.                *)
(***************************************************************************)
EXTENDS MergeInsert, FiniteSetTheorems, TLAPS

-----------------------------------------------------------------------------
(* The inductive invariant.                                                *)

(* The tags of the inserts whose point is in the index and not counted.    *)
Uncounted == {ins[p].tag : p \in {q \in Inserters : ins[q].at = "inserted"}}

InactiveDeleteSet == deletion_set[1 - active_delete_set]

IndexInv ==
  (* The active index takes points; the other one does once it has been    *)
  (* saved, and is empty outside of a merge.                               *)
  /\ active[active_index]
  /\ pc = "save" => active[Inactive]
  /\ pc \in {"idle", "switch", "lock", "cleared"} => mem[Inactive] = {}
  /\ pc = "merge" => mem_file = mem[Inactive]
  /\ \A i \in Sides : clearing_index[i] <=> pc \in {"clear", "cleared"} /\ i = Inactive
  (* _mem_points lags behind by the inserts that have not returned.        *)
  /\ Cardinality(mem[active_index]) <= MaxPoints
  /\ mem_points = Cardinality(mem[active_index] \ Uncounted)

InsertInv(p) ==
  /\ ins[p].at \in {"locked", "inserted", "refused"} => ins[p].side = active_index
  /\ ins[p].at = "inserted" => ins[p].tag \in mem[active_index]
  /\ ins[p].at = "refused" => Cardinality(mem[active_index]) >= MaxPoints
  (* Its tag is its own, and in no deletion set that will be applied.      *)
  /\ ins[p].at = "idle" => ins[p].tag = None
  /\ ins[p].at # "idle" =>
       /\ ins[p].tag \in Tags /\ ins[p].tag # None
       /\ \A q \in Inserters \ {p} : ins[q].tag # ins[p].tag
       /\ ins[p].tag \notin deletion_set[active_delete_set]
       /\ pc # "idle" => ins[p].tag \notin InactiveDeleteSet
  /\ ins[p].at \in {"lock", "locked"} => ins[p].tag \notin live \cup Stored

DeletesInv ==
  /\ live \subseteq Stored
  /\ Stored \ Deleted \subseteq live
  /\ live \cap deletion_set[active_delete_set] = {}
  (* The saved set stays apart from the live tags until it is applied.     *)
  /\ pc # "idle" => live \cap InactiveDeleteSet = {}
  /\ pc \in {"save", "merge", "merged", "clear", "cleared"} =>
       mem[active_index] \cap InactiveDeleteSet = {}
  /\ pc \in {"merged", "clear", "cleared"} => disk \cap InactiveDeleteSet = {}
  (* The merged index replaces the old memory index before it is cleared.  *)
  /\ pc \in {"merged", "clear"} => mem[Inactive] \subseteq disk \cup InactiveDeleteSet
  (* Outside of a merge the active set accounts for all deleted tags.      *)
  /\ pc = "idle" => Stored \ deletion_set[active_delete_set] \subseteq live

(* The memory indices that a search has yet to look at.                    *)
Ahead(s) == IF srch[s].at \in {"check", "lock", "mem"} THEN srch[s].side .. 1 ELSE {}

SearchInv(s) ==
  /\ srch[s].must \subseteq live /\ srch[s].dead \cap live = {}
  /\ srch[s].at \in {"check", "lock", "mem", "filter"} /\ ~srch[s].old =>
       /\ \A t \in srch[s].must : t \in srch[s].best \/ \E i \in Ahead(s) : t \in mem[i]
       /\ srch[s].best \cap srch[s].dead \subseteq Deleted
       (* One that began when the old index was being cleared does without *)
       (* it; and its candidates do not depend on the set that is cleared  *)
       (* next.                                                            *)
       /\ pc = "clear" => srch[s].must \cap mem[Inactive] \subseteq srch[s].best
       /\ pc = "clear" /\ srch[s].at \in {"lock", "mem"} => srch[s].side # Inactive
       /\ pc \in {"clear", "cleared", "idle"} =>
            srch[s].best \cap srch[s].dead \subseteq deletion_set[active_delete_set]
  /\ srch[s].at = "return" /\ ~srch[s].old => srch[s].best \cap srch[s].dead = {}

IInv ==
  /\ TypeOK
  /\ IndexInv
  /\ \A p \in Inserters : InsertInv(p)
  /\ DeletesInv
  /\ \A s \in Searchers : SearchInv(s)

-----------------------------------------------------------------------------
(* Types. *)

InsertState == [at : {"idle", "lock", "locked", "inserted", "refused"},
                tag : Tags \cup {None}, side : Sides]
SearchState == [at : {"idle", "check", "lock", "mem", "filter", "return"},
                side : Sides, best : SUBSET Tags, must : SUBSET Tags,
                dead : SUBSET Tags, old : BOOLEAN]

(* A memory index is finite, and the counted points are some of it.        *)
LEMMA PointsBound ==
  ASSUME NEW m \in SUBSET Tags, NEW u
  PROVE  /\ IsFiniteSet(m) /\ Cardinality(m) \in Nat
         /\ Cardinality(m \ u) \in 0 .. Cardinality(m)
<1>1. IsFiniteSet(m)
  BY FS_Subset, MergeInsertAssumption
<1>2. m \ u \subseteq m
  OBVIOUS
<1> QED BY <1>1, <1>2, FS_Subset, FS_CardinalityType

(* A search returns candidates that are in neither deletion set.           *)
LEMMA ResultsFound ==
  ASSUME NEW best, NEW found \in Results(best)
  PROVE  found \subseteq best \ Deleted
<1> DEFINE rest == best \ Deleted
           k == Min({K, Cardinality(rest)})
<1>1. CASE Cardinality(best) > K
  <2>1. found \in kSubset(k, rest)
    BY <1>1 DEF Results
  <2> HIDE DEF k
  <2> QED BY <2>1 DEF kSubset
<1>2. CASE ~(Cardinality(best) > K)
  BY <1>2 DEF Results
<1> QED BY <1>1, <1>2

(* What a step of one insert or one search does to its own record.         *)
LEMMA InsertStepType ==
  ASSUME TypeOK, NEW p \in Inserters, InsertStep(p)
  PROVE  ins' \in [Inserters -> InsertState] /\ \A q \in Inserters \ {p} : ins'[q] = ins[q]
<1> USE DEF TypeOK, InsertState, Sides, None
<1>1. ASSUME NEW t \in Tags, Insert(p, t) PROVE ins' \in [Inserters -> InsertState]
  BY <1>1 DEF Insert, IdleInsert
<1>2. ASSUME InsertLock(p) PROVE ins' \in [Inserters -> InsertState]
  <2> DEFINE x == [ins[p] EXCEPT !.at = IF active[active_index] THEN "locked" ELSE "refused",
                                 !.side = active_index]
  <2>1. ins' = [ins EXCEPT ![p] = x]
    BY <1>2 DEF InsertLock
  <2>2. x \in InsertState
    <3>1. ins[p] \in InsertState /\ active_index \in Sides
      OBVIOUS
    <3> QED BY ONLY <3>1 DEF InsertState
  <2> QED BY <2>1, <2>2
<1>3. ASSUME InsertPoint(p) PROVE ins' \in [Inserters -> InsertState]
  BY <1>3 DEF InsertPoint
<1>4. ASSUME InsertReturn(p) PROVE ins' \in [Inserters -> InsertState]
  BY <1>4 DEF InsertReturn, IdleInsert
<1> QED BY <1>1, <1>2, <1>3, <1>4
        DEF InsertStep, Insert, InsertLock, InsertPoint, InsertReturn

(* The active index is taken for what active says of it.                   *)
LEMMA InsertLockEffect ==
  ASSUME TypeOK, NEW p \in Inserters, InsertLock(p)
  PROVE  /\ ins'[p].at = IF active[active_index] THEN "locked" ELSE "refused"
         /\ ins'[p].side = active_index /\ ins'[p].tag = ins[p].tag
<1>1. ins' = [ins EXCEPT ![p] =
                [ins[p] EXCEPT !.at = IF active[active_index] THEN "locked" ELSE "refused",
                               !.side = active_index]]
  BY DEF InsertLock
<1>2. ins \in [Inserters -> InsertState]
  BY DEF TypeOK, InsertState
<1> QED BY ONLY <1>1, <1>2 DEF InsertState

(* A step of a search keeps the type of its state, and no other search's.  *)
LEMMA SearchStepType ==
  ASSUME TypeOK, NEW s \in Searchers, SearchStep(s)
  PROVE  srch' \in [Searchers -> SearchState] /\ \A r \in Searchers \ {s} : srch'[r] = srch[r]
<1> USE DEF TypeOK, SearchState, Sides, NextPlace
<1>1. ASSUME SearchDisk(s) PROVE srch' \in [Searchers -> SearchState]
  BY <1>1 DEF SearchDisk, IdleSearch
<1>2. ASSUME SearchCheck(s) PROVE srch' \in [Searchers -> SearchState]
  <2> DEFINE i == srch[s].side
             x == [srch[s] EXCEPT !.at = IF clearing_index[i] THEN NextPlace(i) ELSE "lock",
                                  !.side = IF clearing_index[i] THEN 1 ELSE i]
  <2>1. srch' = [srch EXCEPT ![s] = x]
    BY <1>2 DEF SearchCheck
  <2>2. x \in SearchState
    <3>1. srch[s] \in SearchState /\ i \in Sides
      OBVIOUS
    <3>2. NextPlace(i) \in {"check", "filter"} /\ 1 \in Sides
      OBVIOUS
    <3> HIDE DEF i
    <3> QED BY ONLY <3>1, <3>2 DEF SearchState
  <2> QED BY <2>1, <2>2
<1>3. ASSUME SearchLock(s) PROVE srch' \in [Searchers -> SearchState]
  BY <1>3 DEF SearchLock
<1>4. ASSUME SearchMem(s) PROVE srch' \in [Searchers -> SearchState]
  <2> DEFINE i == srch[s].side
             x == [srch[s] EXCEPT !.at = NextPlace(i), !.side = 1, !.best = @ \cup mem[i]]
  <2>1. srch' = [srch EXCEPT ![s] = x]
    BY <1>4 DEF SearchMem
  <2>2. x \in SearchState
    <3>1. srch[s] \in SearchState /\ i \in Sides /\ mem[i] \subseteq Tags
      OBVIOUS
    <3>2. NextPlace(i) \in {"check", "filter"} /\ 1 \in Sides
      OBVIOUS
    <3> HIDE DEF i
    <3> QED BY ONLY <3>1, <3>2 DEF SearchState
  <2> QED BY <2>1, <2>2
<1>5. ASSUME SearchFilter(s) PROVE srch' \in [Searchers -> SearchState]
  <2>1. PICK found \in Results(srch[s].best) :
          srch' = [srch EXCEPT ![s] = [srch[s] EXCEPT !.at = "return", !.best = found,
                                                      !.must = {}]]
    BY <1>5 DEF SearchFilter
  <2>2. found \subseteq srch[s].best
    BY <2>1, ResultsFound
  <2>3. srch[s] \in SearchState /\ found \in SUBSET Tags
    BY <2>2
  <2>4. [srch[s] EXCEPT !.at = "return", !.best = found, !.must = {}] \in SearchState
    BY ONLY <2>3 DEF SearchState
  <2> QED BY <2>1, <2>4
<1>6. ASSUME SearchReturn(s) PROVE srch' \in [Searchers -> SearchState]
  BY <1>6 DEF SearchReturn, IdleSearch
<1> QED BY <1>1, <1>2, <1>3, <1>4, <1>5, <1>6
        DEF SearchStep, SearchGoesOn, SearchDisk, SearchCheck, SearchLock, SearchMem,
            SearchFilter, SearchReturn

(* The types are kept; the count of the points is, by what it counts.      *)
LEMMA TypeStep ==
  ASSUME IInv, [Next]_vars, IndexInv'
  PROVE  TypeOK'
<1> DEFINE Rest == /\ active_index \in Sides /\ active \in [Sides -> BOOLEAN]
                   /\ mem \in [Sides -> SUBSET Tags]
                   /\ check_switch_index \in BOOLEAN
                   /\ active_delete_set \in Sides /\ deletion_set \in [Sides -> SUBSET Tags]
                   /\ clearing_index \in [Sides -> BOOLEAN]
                   /\ disk \subseteq Tags /\ mem_file \subseteq Tags
                   /\ pc \in {"idle", "switch", "lock", "save", "merge", "merged", "clear",
                              "cleared", "undefined"}
                   /\ ins \in [Inserters -> InsertState]
                   /\ srch \in [Searchers -> SearchState]
                   /\ live \subseteq Tags
<1>1. Rest /\ (TypeOK' <=> Rest' /\ mem_points' \in 0 .. MaxPoints)
  BY DEF IInv, TypeOK, InsertState, SearchState
<1>2. Rest'
  <2> USE DEF Sides, Inactive, indexVars, deleteVars, mergeVars, callVars
  <2>1. ASSUME NEW p \in Inserters, InsertStep(p) PROVE Rest'
    <3>1. ins' \in [Inserters -> InsertState] /\ (ins[p].at = "locked" => ins[p].tag \in Tags)
      BY <2>1, InsertStepType DEF IInv, InsertInv
    <3>2. CASE InsertPoint(p)
      <4>1. ins[p].tag \in Tags /\ ins[p].side \in Sides
        BY <3>1, <3>2, <1>1 DEF InsertPoint, InsertState
      <4>2. mem' \in [Sides -> SUBSET Tags] /\ live' \subseteq Tags
        BY <3>2, <4>1, <1>1 DEF InsertPoint
      <4>3. ASSUME NEW s \in Searchers, NEW d \in SUBSET srch[s].dead
            PROVE  [srch[s] EXCEPT !.dead = d] \in SearchState
        BY <1>1 DEF SearchState
      <4>4. srch' \in [Searchers -> SearchState]
        BY <3>2, <4>3 DEF InsertPoint
      <4> QED BY <1>1, <3>1, <3>2, <4>2, <4>4 DEF InsertPoint
    <3> QED BY <1>1, <2>1, <3>1, <3>2
            DEF InsertStep, Insert, InsertLock, InsertReturn
  <2>2. ASSUME NEW s \in Searchers, SearchStep(s) PROVE Rest'
    BY <1>1, <2>2, SearchStepType
    DEF IInv, SearchStep, SearchGoesOn, SearchDisk, SearchCheck, SearchLock, SearchMem,
        SearchFilter, SearchReturn
  <2>3. ASSUME NEW t \in Tags, LazyDelete(t) PROVE Rest'
    BY <1>1, <2>3 DEF LazyDelete, SearchState
  <2>4. CASE SaveDelSet
    BY <1>1, <2>4 DEF SaveDelSet
  <2>5. CASE CheckSwitch
    BY <1>1, <2>5 DEF CheckSwitch
  <2>6. CASE Switch
    <3>1. active' \in [Sides -> BOOLEAN]
      <4>1. active' = [active EXCEPT ![Inactive] = TRUE]
        BY <2>6 DEF Switch
      <4> QED BY <1>1, <4>1
    <3>2. mem' \in [Sides -> SUBSET Tags] /\ active_index' \in Sides
      BY <1>1, <2>6 DEF Switch
    <3>3. /\ UNCHANGED <<active_delete_set, deletion_set, clearing_index, disk, mem_file,
                         ins, srch, live>>
          /\ check_switch_index' = FALSE /\ pc' = "save"
      BY <2>6 DEF Switch
    <3> QED BY <1>1, <3>1, <3>2, <3>3
  <2>7. CASE Save
    <3>1. active' \in [Sides -> BOOLEAN]
      <4>1. active' = [active EXCEPT ![Inactive] = FALSE]
        BY <2>7 DEF Save
      <4> QED BY <1>1, <4>1
    <3>2. mem_file' \in SUBSET Tags
      BY <1>1, <2>7 DEF Save
    <3> QED BY <1>1, <2>7, <3>1, <3>2 DEF Save
  <2>8. CASE Merge
    BY <1>1, <2>8 DEF Merge
  <2>9. CASE MergeUndefined
    BY <1>1, <2>9 DEF MergeUndefined
  <2>10. CASE SetClearing
    BY <1>1, <2>10 DEF SetClearing, SearchState
  <2>11. CASE ClearIndex
    BY <1>1, <2>11 DEF ClearIndex
  <2>12. CASE EndClear
    BY <1>1, <2>12 DEF EndClear
  <2>13. CASE UNCHANGED vars
    BY <1>1, <2>13 DEF vars
  <2> QED BY <2>1, <2>2, <2>3, <2>4, <2>5, <2>6, <2>7, <2>8, <2>9, <2>10, <2>11,
             <2>12, <2>13 DEF Next, MergeStep
<1>3. mem_points' \in 0 .. MaxPoints
  <2>1. mem'[active_index'] \in SUBSET Tags
    BY <1>2
  <2> DEFINE m == mem'[active_index']
  <2>2. /\ Cardinality(m) \in Nat /\ Cardinality(m \ Uncounted') \in 0 .. Cardinality(m)
    BY <2>1, PointsBound
  <2>3. Cardinality(m) <= MaxPoints /\ mem_points' = Cardinality(m \ Uncounted')
    BY DEF IndexInv
  <2>4. MaxPoints \in Nat
    BY MergeInsertAssumption DEF MaxPoints
  <2> QED BY ONLY <2>2, <2>3, <2>4
<1> QED BY <1>1, <1>2, <1>3

-----------------------------------------------------------------------------
(* insert() *)

(* insert() up to the lock changes its own record alone.                   *)
LEMMA InsertBeginInv ==
  ASSUME IInv, NEW p \in Inserters, NEW t \in Tags, Insert(p, t) \/ InsertLock(p)
  PROVE  IndexInv' /\ DeletesInv' /\ (\A q \in Inserters : InsertInv(q)')
         /\ \A s \in Searchers : SearchInv(s)'
<1> USE DEF indexVars, deleteVars, mergeVars
<1>1. UNCHANGED <<active_index, active, mem, mem_points, deletion_set, active_delete_set,
                  clearing_index, disk, mem_file, pc, srch, live>>
  BY DEF Insert, InsertLock
<1>2. /\ \A q \in Inserters \ {p} : ins'[q] = ins[q]
      /\ ins[p].at # "inserted" /\ ins'[p].at # "inserted"
  <2>1. InsertStep(p)
    BY DEF InsertStep
  <2>2. ins[p].at \in {"idle", "lock"} /\ ins'[p].at \in {"lock", "locked", "refused"}
    <3>1. CASE Insert(p, t)
      BY <3>1 DEF Insert, IInv, TypeOK, IdleInsert
    <3>2. CASE InsertLock(p)
      BY <3>2, InsertLockEffect DEF InsertLock, IInv
    <3> QED BY <3>1, <3>2
  <2> QED BY <2>1, <2>2, InsertStepType DEF IInv
<1>3. Uncounted' = Uncounted
  BY <1>2 DEF Uncounted
<1>4. Stored' = Stored /\ Deleted' = Deleted
  BY <1>1 DEF Stored, Deleted
<1>5. IndexInv' /\ DeletesInv'
  BY <1>1, <1>3, <1>4 DEF IInv, IndexInv, DeletesInv, Inactive, InactiveDeleteSet
<1>6. \A s \in Searchers : SearchInv(s)'
  BY <1>1, <1>4 DEF IInv, SearchInv, Ahead, Inactive
<1>7. CASE Insert(p, t)
  <2>1. /\ ins'[p].at = "lock" /\ ins'[p].tag = t /\ t \in Insertable
    BY <1>7 DEF Insert, IInv, TypeOK, IdleInsert
  (* A tag that is stored and not live is still in one of the sets.        *)
  <2>2. t \notin live \cup Stored
    <3>1. Deleted = deletion_set[active_delete_set] \cup InactiveDeleteSet
      BY DEF IInv, TypeOK, Sides, Deleted, InactiveDeleteSet
    <3> QED BY <2>1, <3>1 DEF Insertable, IInv, DeletesInv, InactiveDeleteSet
  <2>3. InsertInv(p)'
    <3>1. t # None
      BY <1>7, <2>1 DEF Insert, Insertable, IInv, InsertInv
    <3> QED BY <1>1, <1>2, <1>4, <2>1, <2>2, <3>1 DEF InsertInv, Insertable, InactiveDeleteSet
  <2>4. ASSUME NEW q \in Inserters \ {p} PROVE InsertInv(q)'
    <3>1. InsertInv(q) /\ ins'[q] = ins[q] /\ ins[q].tag # t
      BY <1>2, <2>1 DEF IInv, Insertable
    <3> QED BY <1>1, <1>2, <1>4, <2>1, <3>1 DEF InsertInv, InactiveDeleteSet
  <2> QED BY <1>5, <1>6, <2>3, <2>4
<1>8. CASE InsertLock(p)
  (* The active index is never found inactive.                             *)
  <2>1. /\ ins[p].at = "lock" /\ ins'[p].at = "locked" /\ ins'[p].side = active_index
        /\ ins'[p].tag = ins[p].tag
    BY <1>8, InsertLockEffect DEF InsertLock, IInv, IndexInv
  <2>2. ASSUME NEW q \in Inserters PROVE InsertInv(q)'
    <3>1. InsertInv(q) /\ InsertInv(p) /\ \A r \in Inserters : ins'[r].tag = ins[r].tag
      BY <1>2, <2>1 DEF IInv
    <3> QED BY <1>1, <1>2, <1>4, <2>1, <3>1 DEF InsertInv, InactiveDeleteSet
  <2> QED BY <1>5, <1>6, <2>2
<1> QED BY <1>7, <1>8

(* insert_point() adds a tag to the active index, or refuses it when full. *)
LEMMA InsertPointInv ==
  ASSUME IInv, NEW p \in Inserters, InsertPoint(p)
  PROVE  IndexInv' /\ DeletesInv' /\ (\A q \in Inserters : InsertInv(q)')
         /\ \A s \in Searchers : SearchInv(s)'
<1> DEFINE t == ins[p].tag
           full == Cardinality(mem[active_index]) >= MaxPoints
<1> USE DEF deleteVars, mergeVars
<1>1. /\ ins[p].at = "locked" /\ ins[p].side = active_index /\ t \in Tags
      /\ t \notin live \cup Stored
      /\ InsertInv(p)
  BY DEF InsertPoint, IInv, InsertInv
<1>2. /\ \A q \in Inserters \ {p} : ins'[q] = ins[q]
      /\ ins'[p].at = (IF full THEN "refused" ELSE "inserted")
      /\ ins'[p].tag = t /\ ins'[p].side = active_index
      /\ \A q \in Inserters : ins'[q].tag = ins[q].tag
  BY <1>1 DEF InsertPoint, IInv, TypeOK
<1>3. UNCHANGED <<active_index, active, mem_points, deletion_set, active_delete_set,
                  clearing_index, disk, mem_file, pc>>
  BY DEF InsertPoint
<1>4. active_index \in Sides /\ Inactive \in Sides /\ Inactive # active_index
      /\ Inactive' = Inactive /\ Deleted' = Deleted
  BY <1>3 DEF IInv, TypeOK, Sides, Inactive, Deleted
<1>5. ASSUME NEW s \in Searchers
      PROVE  /\ srch'[s].at = srch[s].at /\ srch'[s].side = srch[s].side
             /\ srch'[s].best = srch[s].best /\ srch'[s].must = srch[s].must
             /\ srch'[s].old = srch[s].old
             /\ srch'[s].dead = IF full THEN srch[s].dead ELSE srch[s].dead \ {t}
  <2>1. srch[s] \in SearchState
    BY DEF IInv, TypeOK, SearchState
  <2>2. srch'[s] = [srch[s] EXCEPT !.dead = IF full THEN @ ELSE @ \ {t}]
    BY <1>1 DEF InsertPoint
  <2> QED BY ONLY <2>1, <2>2 DEF SearchState
<1>6. CASE full
  <2>1. UNCHANGED <<mem, live>>
    BY <1>1, <1>6 DEF InsertPoint
  <2>2. Uncounted' = Uncounted
    BY <1>1, <1>2, <1>6 DEF Uncounted
  <2>3. Stored' = Stored
    BY <1>3, <2>1 DEF Stored
  <2>4. IndexInv' /\ DeletesInv'
    BY <1>3, <1>4, <2>1, <2>2, <2>3 DEF IInv, IndexInv, DeletesInv, InactiveDeleteSet
  <2>5. ASSUME NEW s \in Searchers PROVE SearchInv(s)'
    <3>1. SearchInv(s)
      BY DEF IInv
    <3> QED BY ONLY <3>1, <1>3, <1>4, <1>5, <1>6, <2>1 DEF SearchInv, Ahead
  <2>6. ASSUME NEW q \in Inserters PROVE InsertInv(q)'
    <3>1. InsertInv(q)
      BY DEF IInv
    <3> QED BY ONLY <3>1, <1>1, <1>2, <1>3, <1>6, <2>1, <2>3 DEF InsertInv, InactiveDeleteSet
  <2> QED BY <2>4, <2>5, <2>6
<1>7. CASE ~full
  <2>1. /\ mem' = [mem EXCEPT ![active_index] = @ \cup {t}]
        /\ live' = live \cup {t}
    BY <1>1, <1>7 DEF InsertPoint
  <2>2. /\ mem'[active_index] = mem[active_index] \cup {t}
        /\ mem'[Inactive] = mem[Inactive]
    BY <1>4, <2>1 DEF IInv, TypeOK
  <2>3. Stored' = Stored \cup {t} /\ t \notin mem[active_index]
    BY <1>1, <1>3, <2>1 DEF Stored, IInv, TypeOK, Sides
  <2>4. Uncounted' = Uncounted \cup {t}
    BY <1>1, <1>2, <1>7 DEF Uncounted
  <2>5. IndexInv'
    <3>1. /\ IsFiniteSet(mem[active_index]) /\ Cardinality(mem[active_index]) \in Nat
          /\ Cardinality(mem[active_index] \cup {t}) = Cardinality(mem[active_index]) + 1
      BY <1>4, <2>3, PointsBound, FS_AddElement DEF IInv, TypeOK
    <3>2. MaxPoints \in Nat
      BY MergeInsertAssumption DEF MaxPoints
    <3>3. Cardinality(mem'[active_index']) <= MaxPoints
      BY <1>3, <1>7, <2>2, <3>1, <3>2
    <3>4. mem'[active_index'] \ Uncounted' = mem[active_index] \ Uncounted
      BY <1>3, <2>2, <2>3, <2>4
    <3> QED BY <1>3, <1>4, <2>2, <3>3, <3>4 DEF IInv, IndexInv
  <2>6. DeletesInv'
    <3>1. DeletesInv
      BY DEF IInv
    <3> QED BY <3>1, <1>1, <1>3, <1>4, <2>1, <2>2, <2>3
            DEF DeletesInv, InsertInv, InactiveDeleteSet
  <2>7. ASSUME NEW s \in Searchers PROVE SearchInv(s)'
    <3>1. SearchInv(s)
      BY DEF IInv
    <3>2. \A i \in Ahead(s) : i \in Sides /\ mem[i] \subseteq mem'[i]
      BY <2>1 DEF Ahead, IInv, TypeOK, Sides
    <3>3. Ahead(s)' = Ahead(s)
      BY <1>5 DEF Ahead
    <3> QED BY ONLY <3>1, <3>2, <3>3, <1>3, <1>4, <1>5, <1>7, <2>1, <2>2 DEF SearchInv
  <2>8. ASSUME NEW q \in Inserters PROVE InsertInv(q)'
    <3>1. InsertInv(q)
      BY DEF IInv
    <3>2. ins[q].at # "refused"
      BY <3>1, <1>7 DEF InsertInv
    <3>3. ins[q].tag \in Tags /\ ins[q].at # "idle" /\ q # p => ins[q].tag # t
      BY <3>1 DEF InsertInv
    <3> QED BY ONLY <3>1, <3>2, <3>3, <1>1, <1>2, <1>3, <1>7, <2>1, <2>2, <2>3
            DEF InsertInv, InactiveDeleteSet
  <2> QED BY <2>5, <2>6, <2>7, <2>8
<1> QED BY <1>6, <1>7

(* The point is counted when the insert returns.                           *)
LEMMA InsertReturnInv ==
  ASSUME IInv, NEW p \in Inserters, InsertReturn(p)
  PROVE  IndexInv' /\ DeletesInv' /\ (\A q \in Inserters : InsertInv(q)')
         /\ \A s \in Searchers : SearchInv(s)'
<1> USE DEF deleteVars, mergeVars
<1>1. UNCHANGED <<active_index, active, mem, deletion_set, active_delete_set,
                  clearing_index, disk, mem_file, pc, srch, live>>
  BY DEF InsertReturn
<1>2. /\ \A q \in Inserters \ {p} : ins'[q] = ins[q]
      /\ ins'[p].at = "idle" /\ ins'[p].tag = None
  BY DEF InsertReturn, IInv, TypeOK, IdleInsert
<1>3. Stored' = Stored /\ Deleted' = Deleted
  BY <1>1 DEF Stored, Deleted
<1>4. DeletesInv' /\ \A s \in Searchers : SearchInv(s)'
  BY <1>1, <1>3 DEF IInv, DeletesInv, SearchInv, Ahead, Inactive, InactiveDeleteSet
<1>5. ASSUME NEW q \in Inserters PROVE InsertInv(q)'
  <2>1. InsertInv(q)
    BY DEF IInv
  <2>2. CASE q = p
    BY <1>2, <2>2 DEF InsertInv
  <2>3. CASE q # p
    <3>1. ins[q].at # "idle" => \A r \in Inserters \ {q} : ins'[r].tag # ins[q].tag
      BY <1>2, <2>1, <2>3 DEF InsertInv
    <3> QED BY <1>1, <1>2, <1>3, <2>1, <2>3, <3>1 DEF InsertInv, InactiveDeleteSet
  <2> QED BY <2>2, <2>3
<1>6. IndexInv'
  <2> DEFINE m == mem[active_index]
             t == ins[p].tag
  <2>1. CASE ins[p].at = "refused"
    <3>1. Uncounted' = Uncounted /\ mem_points' = mem_points
      BY <1>2, <2>1 DEF InsertReturn, Uncounted
    <3> QED BY <1>1, <3>1 DEF IInv, IndexInv, Inactive
  <2>2. CASE ins[p].at = "inserted"
    <3>1. t \in m /\ t \in Uncounted
      BY <2>2 DEF IInv, InsertInv, Uncounted
    <3>2. Uncounted' = Uncounted \ {t}
      BY <1>2, <2>2 DEF Uncounted, IInv, InsertInv
    <3>3. m \ Uncounted' = (m \ Uncounted) \cup {t} /\ t \notin m \ Uncounted
      BY <3>1, <3>2
    <3>4. IsFiniteSet(m \ Uncounted)
      <4>1. m \in SUBSET Tags
        BY DEF IInv, TypeOK
      <4> QED BY <4>1, FS_Subset, MergeInsertAssumption
    <3>5. Cardinality(m \ Uncounted') = Cardinality(m \ Uncounted) + 1
      BY <3>3, <3>4, FS_AddElement
    <3>6. mem_points' = mem_points + 1
      BY <2>2 DEF InsertReturn
    <3> QED BY <1>1, <3>5, <3>6 DEF IInv, IndexInv, Inactive
  <2> QED BY <2>1, <2>2 DEF InsertReturn
<1> QED BY <1>4, <1>5, <1>6

-----------------------------------------------------------------------------
(* lazy_delete() and search_sync() *)

(* lazy_delete() moves a live tag to the active deletion set.              *)
LEMMA LazyDeleteInv ==
  ASSUME IInv, NEW t \in Tags, LazyDelete(t)
  PROVE  IndexInv' /\ DeletesInv' /\ (\A q \in Inserters : InsertInv(q)')
         /\ \A s \in Searchers : SearchInv(s)'
<1> USE DEF indexVars, mergeVars
<1>1. UNCHANGED <<active_index, active, mem, mem_points, active_delete_set,
                  clearing_index, disk, mem_file, pc, ins>>
  BY DEF LazyDelete
<1>2. /\ live' = live \ {t} /\ t \in live /\ \A p \in Inserters : ins[p].tag # t
      /\ deletion_set' = [deletion_set EXCEPT ![active_delete_set] = @ \cup {t}]
  BY DEF LazyDelete
<1>3. active_delete_set \in Sides /\ deletion_set \in [Sides -> SUBSET Tags]
  BY DEF IInv, TypeOK
<1>4. /\ Stored' = Stored /\ Deleted' = Deleted \cup {t} /\ Inactive' = Inactive
      /\ deletion_set'[active_delete_set] = deletion_set[active_delete_set] \cup {t}
      /\ InactiveDeleteSet' = InactiveDeleteSet
  BY <1>1, <1>2, <1>3 DEF Stored, Deleted, Inactive, InactiveDeleteSet, Sides
<1>5. IndexInv'
  BY <1>1 DEF IInv, IndexInv, Uncounted, Inactive
<1>6. DeletesInv'
  <2>1. DeletesInv
    BY DEF IInv
  <2> QED BY ONLY <1>1, <1>2, <1>4, <2>1 DEF DeletesInv
<1>7. ASSUME NEW q \in Inserters PROVE InsertInv(q)'
  <2>1. InsertInv(q)
    BY DEF IInv
  <2> QED BY ONLY <1>1, <1>2, <1>4, <2>1 DEF InsertInv
<1>8. ASSUME NEW s \in Searchers PROVE SearchInv(s)'
  <2>1. srch'[s] = [srch[s] EXCEPT !.must = @ \ {t}]
    BY DEF LazyDelete
  <2>2. srch[s] \in SearchState
    BY DEF IInv, TypeOK, SearchState
  <2>3. /\ srch'[s].at = srch[s].at /\ srch'[s].side = srch[s].side
        /\ srch'[s].best = srch[s].best /\ srch'[s].must = srch[s].must \ {t}
        /\ srch'[s].old = srch[s].old /\ srch'[s].dead = srch[s].dead
    BY ONLY <2>1, <2>2 DEF SearchState
  <2>4. SearchInv(s)
    BY DEF IInv
  <2> QED BY ONLY <1>1, <1>2, <1>4, <2>3, <2>4 DEF SearchInv, Ahead
<1> QED BY <1>5, <1>6, <1>7, <1>8

(* A search changes nothing but itself, and each of its steps keeps what   *)
(* it has yet to find in front of it.                                      *)
LEMMA SearchStepInv ==
  ASSUME IInv, NEW s \in Searchers, SearchStep(s)
  PROVE  IndexInv' /\ DeletesInv' /\ (\A q \in Inserters : InsertInv(q)')
         /\ \A r \in Searchers : SearchInv(r)'
<1> USE DEF indexVars, deleteVars, mergeVars
<1>1. UNCHANGED <<active_index, active, mem, mem_points, deletion_set, active_delete_set,
                  clearing_index, disk, mem_file, pc, ins, live>>
  BY DEF SearchStep, SearchGoesOn, SearchDisk, SearchCheck, SearchLock, SearchMem,
         SearchFilter, SearchReturn
<1>2. \A r \in Searchers \ {s} : srch'[r] = srch[r]
  BY SearchStepType DEF IInv
<1>3. Stored' = Stored /\ Deleted' = Deleted /\ Inactive' = Inactive
  BY <1>1 DEF Stored, Deleted, Inactive
<1>4. IndexInv' /\ DeletesInv' /\ \A q \in Inserters : InsertInv(q)'
  BY <1>1, <1>3
  DEF IInv, IndexInv, DeletesInv, InsertInv, Uncounted, InactiveDeleteSet
<1>5. ASSUME NEW r \in Searchers \ {s} PROVE SearchInv(r)'
  BY <1>1, <1>2, <1>3 DEF IInv, SearchInv, Ahead
<1>6. srch[s] \in SearchState /\ SearchInv(s) /\ srch \in [Searchers -> SearchState]
  BY DEF IInv, TypeOK, SearchState
(* What is stored and dead is in a deletion set; while the old index is    *)
(* cleared, what is left is so in the active one.                          *)
<1>7. /\ live \subseteq disk \cup mem[0] \cup mem[1]
      /\ \A x \in Stored \ live : x \in Deleted
      /\ pc \in {"clear", "cleared", "idle"} =>
           \A x \in (disk \cup mem[active_index]) \ live :
             x \in deletion_set[active_delete_set]
      /\ pc \in {"cleared", "idle"} => mem[Inactive] = {}
      /\ pc = "clear" => live \cap mem[Inactive] \subseteq disk
  <2>1. Deleted = deletion_set[active_delete_set] \cup InactiveDeleteSet
    BY DEF IInv, TypeOK, Sides, Deleted, InactiveDeleteSet
  <2>2. \A i \in Sides : mem[i] \subseteq Stored
    BY DEF Stored, Sides
  <2>3. active_index \in Sides
    BY DEF IInv, TypeOK
  <2> QED BY <2>1, <2>2, <2>3 DEF IInv, DeletesInv, IndexInv, Stored
<1>8. SearchInv(s)'
  <2>1. CASE SearchDisk(s)
    <3>1. srch'[s] = [IdleSearch EXCEPT !.at = "check", !.best = disk, !.must = live,
                                        !.dead = Tags \ live]
      BY <2>1, <1>6 DEF SearchDisk
    <3>2. /\ srch'[s].at = "check" /\ srch'[s].side = 0 /\ srch'[s].best = disk
          /\ srch'[s].must = live /\ srch'[s].dead = Tags \ live
      BY <3>1 DEF IdleSearch
    <3>3. Ahead(s)' = {0, 1}
      BY <3>2 DEF Ahead
    <3> QED BY ONLY <1>1, <1>3, <1>7, <3>2, <3>3 DEF SearchInv, Stored
  <2>2. CASE SearchCheck(s)
    <3> DEFINE i == srch[s].side
    <3>1. srch'[s] = [srch[s] EXCEPT !.at = IF clearing_index[i] THEN NextPlace(i) ELSE "lock",
                                     !.side = IF clearing_index[i] THEN 1 ELSE i]
      BY <2>2, <1>6 DEF SearchCheck
    <3>2. i \in Sides /\ srch[s].at = "check"
      BY <2>2, <1>6 DEF SearchCheck, SearchState
    <3>3. /\ srch'[s].at = IF clearing_index[i] THEN NextPlace(i) ELSE "lock"
          /\ srch'[s].side = IF clearing_index[i] THEN 1 ELSE i
          /\ srch'[s].best = srch[s].best /\ srch'[s].must = srch[s].must
          /\ srch'[s].old = srch[s].old /\ srch'[s].dead = srch[s].dead
      BY ONLY <1>6, <3>1 DEF SearchState
    <3>4. clearing_index[i] <=> pc \in {"clear", "cleared"} /\ i = Inactive
      BY <3>2 DEF IInv, IndexInv
    <3>5. CASE clearing_index[i]
      <4>1. Ahead(s)' = Ahead(s) \ {i}
        BY <3>2, <3>3, <3>5 DEF Ahead, NextPlace, Sides
      <4>2. srch'[s].at \in {"check", "filter"}
        BY <3>3, <3>5 DEF NextPlace
      <4> QED BY ONLY <1>1, <1>3, <1>6, <1>7, <3>2, <3>3, <3>4, <3>5, <4>1, <4>2
              DEF SearchInv
    <3>6. CASE ~clearing_index[i]
      <4>1. Ahead(s)' = Ahead(s)
        BY <3>2, <3>3, <3>6 DEF Ahead
      <4> QED BY ONLY <1>1, <1>3, <1>6, <3>2, <3>3, <3>4, <3>6, <4>1 DEF SearchInv
    <3> QED BY <3>5, <3>6
  <2>3. CASE SearchLock(s)
    <3>1. srch'[s] = [srch[s] EXCEPT !.at = "mem"] /\ srch[s].at = "lock"
      BY <2>3, <1>6 DEF SearchLock
    <3>2. /\ srch'[s].at = "mem" /\ srch'[s].side = srch[s].side
          /\ srch'[s].best = srch[s].best /\ srch'[s].must = srch[s].must
          /\ srch'[s].old = srch[s].old /\ srch'[s].dead = srch[s].dead
      BY ONLY <1>6, <3>1 DEF SearchState
    <3>3. Ahead(s)' = Ahead(s)
      BY <3>1, <3>2 DEF Ahead
    <3> QED BY ONLY <1>1, <1>3, <1>6, <3>1, <3>2, <3>3 DEF SearchInv
  <2>4. CASE SearchMem(s)
    <3> DEFINE i == srch[s].side
    <3>1. srch'[s] = [srch[s] EXCEPT !.at = NextPlace(i), !.side = 1, !.best = @ \cup mem[i]]
      BY <2>4, <1>6 DEF SearchMem
    <3>2. i \in Sides /\ srch[s].at = "mem"
      BY <2>4, <1>6 DEF SearchMem, SearchState
    <3>3. /\ srch'[s].at = NextPlace(i) /\ srch'[s].side = 1
          /\ srch'[s].best = srch[s].best \cup mem[i] /\ srch'[s].must = srch[s].must
          /\ srch'[s].old = srch[s].old /\ srch'[s].dead = srch[s].dead
      BY ONLY <1>6, <3>1 DEF SearchState
    <3>4. Ahead(s)' = Ahead(s) \ {i} /\ srch'[s].at \in {"check", "filter"}
      BY <3>2, <3>3 DEF Ahead, NextPlace, Sides
    <3>5. /\ i = active_index \/ i = Inactive
          /\ mem[i] \subseteq Stored
      BY <3>2 DEF IInv, TypeOK, Inactive, Sides, Stored
    <3> QED BY ONLY <1>1, <1>3, <1>6, <1>7, <3>2, <3>3, <3>4, <3>5 DEF SearchInv
  <2>5. CASE SearchFilter(s)
    <3>1. PICK found \in Results(srch[s].best) :
            srch' = [srch EXCEPT ![s] = [srch[s] EXCEPT !.at = "return", !.best = found,
                                                        !.must = {}]]
      BY <2>5 DEF SearchFilter
    <3>2. found \subseteq srch[s].best \ Deleted /\ srch[s].at = "filter"
      BY <2>5, ResultsFound DEF SearchFilter
    <3>3. /\ srch'[s].at = "return" /\ srch'[s].best = found /\ srch'[s].must = {}
          /\ srch'[s].old = srch[s].old /\ srch'[s].dead = srch[s].dead
      BY ONLY <1>6, <3>1 DEF SearchState
    <3> QED BY ONLY <1>1, <1>3, <1>6, <3>2, <3>3 DEF SearchInv
  <2>6. CASE SearchReturn(s)
    BY <2>6, <1>6 DEF SearchReturn, IdleSearch, SearchInv
  <2> QED BY <2>1, <2>2, <2>3, <2>4, <2>5, <2>6 DEF SearchStep, SearchGoesOn
<1> QED BY <1>4, <1>5, <1>8

-----------------------------------------------------------------------------
(* The merge thread *)

(* save_del_set() drops the set that the last merge has applied.           *)
LEMMA SaveDelSetInv ==
  ASSUME IInv, SaveDelSet
  PROVE  IndexInv' /\ DeletesInv' /\ (\A q \in Inserters : InsertInv(q)')
         /\ \A s \in Searchers : SearchInv(s)'
<1> USE DEF indexVars, callVars
<1>1. /\ UNCHANGED <<active_index, active, mem, mem_points, clearing_index, disk, mem_file,
                     ins, srch, live>>
      /\ pc = "idle" /\ pc' = "switch"
  BY DEF SaveDelSet
<1>2. /\ deletion_set'[active_delete_set'] = {}
      /\ InactiveDeleteSet' = deletion_set[active_delete_set]
      /\ Deleted' = deletion_set[active_delete_set]
      /\ Stored' = Stored /\ Inactive' = Inactive
  BY <1>1 DEF SaveDelSet, InactiveDeleteSet, Deleted, Stored, Inactive, IInv, TypeOK, Sides
<1>3. IndexInv'
  BY <1>1 DEF IInv, IndexInv, Uncounted, Inactive
<1>4. DeletesInv'
  BY <1>1, <1>2 DEF IInv, DeletesInv
<1>5. ASSUME NEW q \in Inserters PROVE InsertInv(q)'
  BY <1>1, <1>2 DEF IInv, InsertInv
<1>6. ASSUME NEW s \in Searchers PROVE SearchInv(s)'
  <2>1. SearchInv(s)
    BY DEF IInv
  <2> QED BY ONLY <1>1, <1>2, <2>1 DEF SearchInv, Ahead
<1> QED BY <1>3, <1>4, <1>5, <1>6

(* The switch: the inserts that hold _index_lock have returned, so that    *)
(* the new active index starts empty with a count of zero.                 *)
LEMMA SwitchInv ==
  ASSUME IInv, CheckSwitch \/ Switch
  PROVE  IndexInv' /\ DeletesInv' /\ (\A q \in Inserters : InsertInv(q)')
         /\ \A s \in Searchers : SearchInv(s)'
<1> USE DEF deleteVars, callVars
<1>1. /\ UNCHANGED <<deletion_set, active_delete_set, clearing_index, disk, mem_file,
                     ins, srch, live>>
      /\ pc \in {"switch", "lock"} /\ pc' \in {"lock", "save"}
      /\ InactiveDeleteSet' = InactiveDeleteSet /\ Deleted' = Deleted
  BY DEF CheckSwitch, Switch, InactiveDeleteSet, Deleted
<1>2. active_index \in Sides /\ Inactive \in Sides /\ Inactive # active_index
      /\ mem \in [Sides -> SUBSET Tags] /\ active \in [Sides -> BOOLEAN]
  BY DEF IInv, TypeOK, Sides, Inactive
<1>3. mem[Inactive] = {}
  BY <1>1 DEF IInv, IndexInv
<1>4. mem' = mem
  <2>1. CASE CheckSwitch
    BY <2>1 DEF CheckSwitch
  <2>2. CASE Switch
    BY <2>2, <1>2, <1>3 DEF Switch
  <2> QED BY <2>1, <2>2
<1>5. Stored' = Stored
  BY <1>1, <1>4 DEF Stored
<1>6. CASE CheckSwitch
  <2>1. UNCHANGED <<active_index, active, mem_points>> /\ pc' = "lock"
    BY <1>6 DEF CheckSwitch
  <2>2. IndexInv' /\ DeletesInv' /\ \A q \in Inserters : InsertInv(q)'
    BY <1>1, <1>4, <1>5, <2>1
    DEF IInv, IndexInv, DeletesInv, InsertInv, Uncounted, Inactive
  <2>3. ASSUME NEW s \in Searchers PROVE SearchInv(s)'
    <3>1. SearchInv(s)
      BY DEF IInv
    <3> QED BY ONLY <1>1, <1>4, <1>5, <2>1, <3>1 DEF SearchInv, Ahead
  <2> QED BY <2>2, <2>3
<1>7. CASE Switch
  <2>1. /\ active' = [active EXCEPT ![Inactive] = TRUE] /\ active_index' = Inactive
        /\ mem_points' = 0 /\ pc' = "save" /\ ~IndexLockHeld
    BY <1>7 DEF Switch
  <2>2. \A p \in Inserters : ins[p].at \notin {"locked", "inserted", "refused"}
    BY <2>1 DEF IndexLockHeld
  <2>3. Inactive' = active_index
    BY <1>2, <2>1 DEF Inactive, Sides
  <2>4. IndexInv'
    <3>1. active'[active_index'] /\ active'[Inactive']
      BY <1>2, <2>1, <2>3 DEF IInv, IndexInv
    <3>2. MaxPoints \in Nat
      BY MergeInsertAssumption DEF MaxPoints
    <3>3. mem'[active_index'] = {} /\ Cardinality({}) = 0
      BY <1>3, <1>4, <2>1, FS_EmptySet
    <3>4. mem'[active_index'] \ Uncounted' = {}
      BY <3>3
    <3>5. \A i \in Sides : ~clearing_index[i]
      BY <1>1 DEF IInv, IndexInv
    <3> QED BY ONLY <3>1, <3>2, <3>3, <3>4, <3>5, <2>1, <1>1 DEF IndexInv
  <2>5. DeletesInv'
    <3>1. DeletesInv
      BY DEF IInv
    <3> QED BY ONLY <1>1, <1>3, <1>4, <1>5, <2>1, <3>1 DEF DeletesInv
  <2>6. ASSUME NEW q \in Inserters PROVE InsertInv(q)'
    <3>1. InsertInv(q)
      BY DEF IInv
    <3> QED BY ONLY <1>1, <1>5, <2>1, <2>2, <3>1 DEF InsertInv
  <2>7. ASSUME NEW s \in Searchers PROVE SearchInv(s)'
    <3>1. SearchInv(s)
      BY DEF IInv
    <3> QED BY ONLY <1>1, <1>4, <2>1, <3>1 DEF SearchInv, Ahead
  <2> QED BY <2>4, <2>5, <2>6, <2>7
<1> QED BY <1>6, <1>7

(* save() reads the index that the switch left behind; the merger puts its *)
(* points on disk, without the tags of the saved deletion set.             *)
LEMMA MergeInv ==
  ASSUME IInv, Save \/ Merge \/ MergeUndefined
  PROVE  IndexInv' /\ DeletesInv' /\ (\A q \in Inserters : InsertInv(q)')
         /\ \A s \in Searchers : SearchInv(s)'
<1> USE DEF indexVars, deleteVars, callVars
<1>1. /\ UNCHANGED <<active_index, mem, mem_points, deletion_set, active_delete_set,
                     clearing_index, ins, srch, live>>
      /\ InactiveDeleteSet' = InactiveDeleteSet /\ Deleted' = Deleted
      /\ Inactive' = Inactive /\ Uncounted' = Uncounted
      /\ pc \in {"save", "merge"} /\ pc' \in {"merge", "merged", "undefined"}
  BY DEF Save, Merge, MergeUndefined, InactiveDeleteSet, Deleted, Inactive, Uncounted
<1>2. active_index \in Sides /\ Inactive \in Sides /\ Inactive # active_index
      /\ active \in [Sides -> BOOLEAN]
      /\ Stored = disk \cup mem[active_index] \cup mem[Inactive]
      /\ Stored' = disk' \cup mem[active_index] \cup mem[Inactive]
      /\ Deleted = deletion_set[active_delete_set] \cup InactiveDeleteSet
  BY <1>1 DEF IInv, TypeOK, Sides, Inactive, Stored, Deleted, InactiveDeleteSet
<1>3. IndexInv'
  <2>1. active'[active_index] /\ (pc' = "merge" => mem_file' = mem[Inactive])
    BY <1>1, <1>2 DEF Save, Merge, MergeUndefined, IInv, IndexInv
  <2> QED BY <1>1, <2>1 DEF IInv, IndexInv
<1>4. /\ pc = "save" => disk' = disk
      /\ pc' = "undefined" => disk' = disk
      /\ pc' = "merged" => disk' = (disk \cup mem[Inactive]) \ InactiveDeleteSet
  BY DEF Save, Merge, MergeUndefined, IInv, IndexInv, TagsFile, InactiveDeleteSet
<1>5. /\ (pc = "save" /\ pc' = "merge") \/ (pc = "merge" /\ pc' = "merged")
         \/ (pc = "merge" /\ pc' = "undefined")
  BY DEF Save, Merge, MergeUndefined
<1>6. DeletesInv'
  <2>1. DeletesInv
    BY DEF IInv
  <2> QED BY ONLY <1>1, <1>2, <1>4, <1>5, <2>1 DEF DeletesInv
<1>7. ASSUME NEW q \in Inserters PROVE InsertInv(q)'
  <2>1. InsertInv(q)
    BY DEF IInv
  <2> QED BY ONLY <1>1, <1>2, <1>4, <1>5, <2>1 DEF InsertInv
<1>8. ASSUME NEW s \in Searchers PROVE SearchInv(s)'
  <2>1. SearchInv(s)
    BY DEF IInv
  <2> QED BY ONLY <1>1, <2>1 DEF SearchInv, Ahead
<1> QED BY <1>3, <1>6, <1>7, <1>8

(* The old index is marked, emptied and given up: what it held is on disk  *)
(* by then, and the searches that went before are told apart.              *)
LEMMA ClearInv ==
  ASSUME IInv, SetClearing \/ ClearIndex \/ EndClear
  PROVE  IndexInv' /\ DeletesInv' /\ (\A q \in Inserters : InsertInv(q)')
         /\ \A s \in Searchers : SearchInv(s)'
<1> USE DEF indexVars, deleteVars, callVars
<1>1. /\ UNCHANGED <<active_index, mem_points, deletion_set, active_delete_set, disk, ins,
                     live>>
      /\ InactiveDeleteSet' = InactiveDeleteSet /\ Deleted' = Deleted
      /\ Inactive' = Inactive /\ Uncounted' = Uncounted
      /\ \/ pc = "merged" /\ pc' = "clear" /\ mem' = mem
         \/ pc = "clear" /\ pc' = "cleared" /\ mem' = [mem EXCEPT ![Inactive] = {}]
         \/ pc = "cleared" /\ pc' = "idle" /\ mem' = mem
  BY DEF SetClearing, ClearIndex, EndClear, InactiveDeleteSet, Deleted, Inactive, Uncounted
<1>2. active_index \in Sides /\ Inactive \in Sides /\ Inactive # active_index
      /\ (\A i \in Sides : i = active_index \/ i = Inactive)
      /\ mem \in [Sides -> SUBSET Tags]
      /\ active \in [Sides -> BOOLEAN] /\ clearing_index \in [Sides -> BOOLEAN]
  BY DEF IInv, TypeOK, Sides, Inactive
<1>3. mem'[active_index] = mem[active_index]
      /\ mem'[Inactive] = IF pc = "clear" THEN {} ELSE mem[Inactive]
  BY <1>1, <1>2
<1>4. /\ Stored = disk \cup mem[active_index] \cup mem[Inactive]
      /\ Stored' = disk \cup mem'[active_index] \cup mem'[Inactive]
      /\ Deleted = deletion_set[active_delete_set] \cup InactiveDeleteSet
  BY <1>1, <1>2 DEF IInv, TypeOK, Sides, Inactive, Stored, Deleted, InactiveDeleteSet
<1>5. IndexInv'
  <2>1. active'[active_index]
    BY <1>2 DEF SetClearing, ClearIndex, EndClear, IInv, IndexInv
  <2>2. \A i \in Sides : clearing_index'[i] <=> pc' \in {"clear", "cleared"} /\ i = Inactive
    <3>1. \A i \in Sides : clearing_index[i] <=> pc \in {"clear", "cleared"} /\ i = Inactive
      BY DEF IInv, IndexInv
    <3>2. CASE SetClearing
      BY <1>2, <3>1, <3>2 DEF SetClearing
    <3>3. CASE ClearIndex
      BY <1>2, <3>1, <3>3 DEF ClearIndex
    <3>4. CASE EndClear
      BY <1>2, <3>1, <3>4 DEF EndClear
    <3> QED BY <3>2, <3>3, <3>4
  <2> QED BY <1>1, <1>3, <2>1, <2>2 DEF IInv, IndexInv
<1>6. DeletesInv'
  <2>1. DeletesInv /\ (pc = "cleared" => mem[Inactive] = {})
    BY DEF IInv, IndexInv
  <2> QED BY ONLY <1>1, <1>3, <1>4, <2>1 DEF DeletesInv
<1>7. ASSUME NEW q \in Inserters PROVE InsertInv(q)'
  <2>1. InsertInv(q)
    BY DEF IInv
  <2> QED BY ONLY <1>1, <1>3, <1>4, <2>1 DEF InsertInv
<1>8. ASSUME NEW s \in Searchers PROVE SearchInv(s)'
  <2>1. SearchInv(s) /\ srch[s] \in SearchState
    BY DEF IInv, TypeOK, SearchState
  <2>2. CASE SetClearing
    <3>1. srch'[s] = [srch[s] EXCEPT !.old = srch[s].at # "idle" \/ @]
      BY <2>2 DEF SetClearing
    <3>2. /\ srch'[s].at = srch[s].at /\ srch'[s].must = srch[s].must
          /\ srch'[s].dead = srch[s].dead /\ (srch[s].at # "idle" => srch'[s].old)
      BY ONLY <2>1, <3>1 DEF SearchState
    <3> QED BY ONLY <1>1, <2>1, <3>2 DEF SearchInv
  <2>3. CASE ClearIndex
    <3>1. srch' = srch /\ pc = "clear" /\ pc' = "cleared"
      BY <2>3 DEF ClearIndex
    <3>2. Ahead(s)' = Ahead(s) /\ Ahead(s) \subseteq Sides
      BY <2>1, <3>1 DEF Ahead, Sides, SearchState
    <3> QED BY ONLY <1>1, <1>2, <1>3, <2>1, <3>1, <3>2 DEF SearchInv
  <2>4. CASE EndClear
    <3>1. srch' = srch /\ pc = "cleared" /\ pc' = "idle" /\ mem' = mem
      BY <2>4, <1>1 DEF EndClear
    <3> QED BY ONLY <1>1, <2>1, <3>1 DEF SearchInv, Ahead
  <2> QED BY <2>2, <2>3, <2>4
<1> QED BY <1>5, <1>6, <1>7, <1>8

-----------------------------------------------------------------------------
(* The inductive invariant holds: it relates the two memory indices, the   *)
(* two deletion sets and the disk index through every step of a merge.     *)
THEOREM Invariance == Spec => []IInv
<1>1. Init => IInv
  <2> SUFFICES ASSUME Init PROVE IInv
    OBVIOUS
  <2> USE DEF Init, IdleInsert, IdleSearch, Sides, None
  <2>1. MaxPoints \in Nat /\ Cardinality({}) = 0
    BY MergeInsertAssumption, FS_EmptySet DEF MaxPoints
  <2>2. TypeOK
    <3>1. active \in [Sides -> BOOLEAN] /\ clearing_index \in [Sides -> BOOLEAN]
      OBVIOUS
    <3>2. mem_points \in 0 .. MaxPoints /\ disk \subseteq Tags
      BY <2>1, MergeInsertAssumption
    <3> QED BY <3>1, <3>2, MergeInsertAssumption DEF TypeOK
  <2>3. IndexInv
    <3>1. mem[active_index] \ Uncounted = {} /\ mem[active_index] = {} /\ mem[Inactive] = {}
      BY DEF Inactive
    <3>2. active[active_index] /\ \A i \in Sides : ~clearing_index[i]
      OBVIOUS
    <3> QED BY ONLY Init, <2>1, <3>1, <3>2 DEF IndexInv
  <2>4. DeletesInv
    BY DEF DeletesInv, Stored, Deleted, InactiveDeleteSet
  <2>5. ASSUME NEW p \in Inserters PROVE InsertInv(p)
    BY DEF InsertInv
  <2>6. ASSUME NEW s \in Searchers PROVE SearchInv(s)
    BY DEF SearchInv
  <2> QED BY <2>2, <2>3, <2>4, <2>5, <2>6 DEF IInv
<1>2. IInv /\ [Next]_vars => IInv'
  <2> SUFFICES ASSUME IInv, [Next]_vars PROVE IInv'
    OBVIOUS
  <2> DEFINE Kept == IndexInv' /\ DeletesInv' /\ (\A q \in Inserters : InsertInv(q)')
                     /\ \A s \in Searchers : SearchInv(s)'
  <2>1. Kept
    <3>1. CASE UNCHANGED vars
      <4> USE DEF vars, indexVars, deleteVars, mergeVars, callVars
      <4>1. IndexInv' /\ DeletesInv'
        BY <3>1 DEF IInv, IndexInv, DeletesInv, Uncounted, Inactive, InactiveDeleteSet,
                    Stored, Deleted
      <4>2. (\A q \in Inserters : InsertInv(q)') /\ \A s \in Searchers : SearchInv(s)'
        BY <3>1 DEF IInv, InsertInv, SearchInv, Ahead, Inactive, InactiveDeleteSet,
                    Stored, Deleted
      <4> QED BY <4>1, <4>2
    <3>2. ASSUME NEW p \in Inserters, InsertStep(p) PROVE Kept
      <4>1. ASSUME NEW t \in Tags, Insert(p, t) PROVE Kept
        BY <4>1, InsertBeginInv
      <4>2. CASE InsertLock(p)
        <5>1. \E t \in Tags : TRUE
          BY <4>2 DEF InsertLock, IInv, InsertInv
        <5> QED BY <4>2, <5>1, InsertBeginInv
      <4>3. CASE InsertPoint(p)
        BY <4>3, InsertPointInv
      <4>4. CASE InsertReturn(p)
        BY <4>4, InsertReturnInv
      <4> QED BY <3>2, <4>1, <4>2, <4>3, <4>4 DEF InsertStep
    <3>3. ASSUME NEW s \in Searchers, SearchStep(s) PROVE Kept
      BY <3>3, SearchStepInv
    <3>4. ASSUME NEW t \in Tags, LazyDelete(t) PROVE Kept
      BY <3>4, LazyDeleteInv
    <3>5. CASE MergeStep
      BY <3>5, SaveDelSetInv, SwitchInv, MergeInv, ClearInv DEF MergeStep
    <3> HIDE DEF Kept
    <3> QED BY <3>1, <3>2, <3>3, <3>4, <3>5 DEF Next
  <2>2. TypeOK'
    BY <2>1, TypeStep
  <2> QED BY <2>1, <2>2 DEF IInv
<1> QED BY <1>1, <1>2, PTL DEF Spec

(* The variables keep their types, and _mem_points never exceeds what a    *)
(* memory index takes.                                                     *)
THEOREM TypeCorrect == Spec => []TypeOK
<1>1. IInv => TypeOK
  BY DEF IInv
<1> QED BY <1>1, Invariance, PTL

(* No vector is lost: a tag that is live is in an index that is searched,  *)
(* at every step of switch_index(), merge() and the clearing.              *)
THEOREM LiveStoredAlways == Spec => []LiveStored
<1>1. IInv => LiveStored
  BY DEF IInv, DeletesInv, LiveStored
<1> QED BY <1>1, Invariance, PTL

(* No deleted vector comes back: save_del_set() clears a set only when no  *)
(* index holds its tags any more.                                          *)
THEOREM NothingComesBackAlways == Spec => []NothingComesBack
<1>1. IInv => NothingComesBack
  BY DEF IInv, DeletesInv, NothingComesBack
<1> QED BY <1>1, Invariance, PTL

(* insert() never finds the active index inactive: it refuses a point only *)
(* when the index is full.                                                 *)
THEOREM RefusedWhenFullAlways == Spec => []RefusedWhenFull
<1>1. IInv => RefusedWhenFull
  BY DEF IInv, InsertInv, RefusedWhenFull
<1> QED BY <1>1, Invariance, PTL

(* A search during which no memory index is cleared comes across all tags  *)
(* that stay live and returns none that stays dead.                        *)
THEOREM SearchExactAlways == Spec => []SearchExact
<1>1. IInv => SearchExact
  BY DEF IInv, SearchInv, Ahead, SearchExact
<1> QED BY <1>1, Invariance, PTL
=============================================================================
