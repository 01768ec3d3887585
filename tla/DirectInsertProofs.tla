------------------------- MODULE DirectInsertProofs -------------------------
(***************************************************************************)
(* Proofs about DirectInsert and InsertData, for any number of inserters   *)
(* and buffers: insert_in_place() with its three lock tables and its       *)
(* background thread implements the table protocol of LocTable, so that    *)
(* what is proved of LocTable holds of it; and every reference to a cached *)
(* page is accounted for.                                                  *)
(*                                                                         *)
(* The records and links need a hypothesis that the code does not ensure,  *)
(* one inserting thread (OneThread): the lemmas at the end name it.  With  *)
(* more threads the code loses some (see InsertRecords).                   *)
(***************************************************************************)
EXTENDS InsertRecords, FiniteSetTheorems, TLAPS

-----------------------------------------------------------------------------
(* The refinement of LocTable.                                             *)

(* Safety does not need the fairness of Spec.                              *)
Steps == Init /\ [][Next]_vars

(* The ids whose write lock in idx_lock_table an inserter has so far.      *)
IdxHeld(p) ==
  IF at[p] = "lockidx" THEN MyIds(p) \ todo[p]
  ELSE IF at[p] \in {"move", "erase"} THEN MyIds(p) ELSE {}

PerInserter(f) == f = [p \in Inserters |-> f[p]]

(* What the refinement needs: an idle inserter has nothing, and, although  *)
(* the table records no owner, a write lock has one.                       *)
Shape ==
  /\ at \in [Inserters -> Stages]
  /\ PerInserter(target) /\ PerInserter(nbrs) /\ PerInserter(locs)
  /\ PerInserter(orig_locs) /\ PerInserter(todo) /\ PerInserter(hints)

Owners ==
  \A p \in Inserters :
    /\ at[p] = "idle" => /\ target[p] = -1 /\ nbrs[p] = {}
                         /\ locs[p] = None /\ orig_locs[p] = None
    /\ IdxHeld(p) \subseteq idx_locks
    /\ \A q \in Inserters : p # q => IdxHeld(p) \cap IdxHeld(q) = {}

(* Both hold at the start.                                                 *)
LEMMA RefInvInit == Init => Shape /\ Owners
  BY DEF Init, Shape, Owners, PerInserter, Stages, IdxHeld

(* A step of one inserter leaves the others' variables alone.              *)
LEMMA OthersUnchanged ==
  ASSUME Shape, NEW p \in Inserters, Begin(p) \/ Step(p), NEW q \in Inserters, q # p
  PROVE  /\ at'[q] = at[q] /\ target'[q] = target[q] /\ nbrs'[q] = nbrs[q]
         /\ locs'[q] = locs[q] /\ orig_locs'[q] = orig_locs[q]
         /\ todo'[q] = todo[q] /\ hints'[q] = hints[q]
<1> USE DEF Shape, PerInserter, tables, locals, locks, bg
<1>1. at'[q] = at[q] /\ target'[q] = target[q] /\ nbrs'[q] = nbrs[q]
  BY DEF Step, Begin, BeginSearch, EndVisit, Visit, AllocLoc, LockPage,
         LockVec, ReadPages, SetTarget, LockIdx, MoveIds, EraseAndSetLoc, UnlockVec,
         UnlockTarget, PushTask
<1>2. locs'[q] = locs[q] /\ orig_locs'[q] = orig_locs[q]
  BY DEF Step, Begin, BeginSearch, EndVisit, Visit, AllocLoc, LockPage,
         LockVec, ReadPages, SetTarget, LockIdx, MoveIds, EraseAndSetLoc, UnlockVec,
         UnlockTarget, PushTask
<1>3. todo'[q] = todo[q] /\ hints'[q] = hints[q]
  BY DEF Step, Begin, BeginSearch, EndVisit, Visit, AllocLoc, LockPage,
         LockVec, ReadPages, SetTarget, LockIdx, MoveIds, EraseAndSetLoc, UnlockVec,
         UnlockTarget, PushTask
<1> QED BY <1>1, <1>2, <1>3

(* The variables stay functions on the inserters.                          *)
LEMMA ShapeStep ==
  ASSUME Shape, [Next]_vars
  PROVE  Shape'
<1> USE DEF Shape, PerInserter, tables, locals, locks, bg
<1>1. at' \in [Inserters -> Stages]
  <2>1. ASSUME NEW p \in Inserters, LockPage(p) \/ LockVec(p) \/ LockIdx(p)
        PROVE  at' \in [Inserters -> Stages]
    BY <2>1 DEF LockPage, LockVec, LockIdx, Stages
  <2>2. ASSUME NEW p \in Inserters,
               \/ Begin(p) \/ BeginSearch(p) \/ (\E i \in Ids : Visit(p, i)) \/ EndVisit(p)
               \/ (\E keep \in SUBSET nbrs[p] : AllocLoc(p, keep)) \/ ReadPages(p)
        PROVE  at' \in [Inserters -> Stages]
    <3>1. ASSUME NEW i \in Ids, Visit(p, i) PROVE at' = [at EXCEPT ![p] = "reading"]
      BY <3>1 DEF Visit
    <3>2. ASSUME NEW keep, AllocLoc(p, keep) PROVE at' = [at EXCEPT ![p] = "lockpage"]
      BY <3>2 DEF AllocLoc
    <3> QED BY <2>2, <3>1, <3>2 DEF Begin, BeginSearch, EndVisit, ReadPages, Stages
  <2>3. ASSUME NEW p \in Inserters,
               \/ SetTarget(p) \/ MoveIds(p) \/ EraseAndSetLoc(p) \/ UnlockVec(p)
               \/ UnlockTarget(p) \/ PushTask(p)
        PROVE  at' \in [Inserters -> Stages]
    BY <2>3 DEF SetTarget, MoveIds, EraseAndSetLoc, UnlockVec, UnlockTarget, PushTask, Stages
  <2>4. CASE BgPop \/ BgFinish \/ UNCHANGED vars
    BY <2>4 DEF BgPop, BgFinish, vars
  <2> QED BY <2>1, <2>2, <2>3, <2>4 DEF Next, Step
<1>2. PerInserter(target)' /\ PerInserter(nbrs)'
  BY DEF Next, Step, vars, Begin, BeginSearch, EndVisit, Visit, AllocLoc, LockPage,
         LockVec, ReadPages, SetTarget, LockIdx, MoveIds, EraseAndSetLoc, UnlockVec,
         UnlockTarget, PushTask, BgPop, BgFinish
<1>3. PerInserter(locs)' /\ PerInserter(orig_locs)'
  BY DEF Next, Step, vars, Begin, BeginSearch, EndVisit, Visit, AllocLoc, LockPage,
         LockVec, ReadPages, SetTarget, LockIdx, MoveIds, EraseAndSetLoc, UnlockVec,
         UnlockTarget, PushTask, BgPop, BgFinish
<1>4. PerInserter(todo)' /\ PerInserter(hints)'
  BY DEF Next, Step, vars, Begin, BeginSearch, EndVisit, Visit, AllocLoc, LockPage,
         LockVec, ReadPages, SetTarget, LockIdx, MoveIds, EraseAndSetLoc, UnlockVec,
         UnlockTarget, PushTask, BgPop, BgFinish
<1> QED BY <1>1, <1>2, <1>3, <1>4

(* A lock is taken only when it is free, and released by its owner.        *)
LEMMA OwnersStep ==
  ASSUME Shape, Owners, [Next]_vars
  PROVE  Owners'
<1> USE DEF Shape, PerInserter, tables, locals, locks, bg
<1>1. CASE UNCHANGED at /\ UNCHANGED idx_locks /\ UNCHANGED locals /\ UNCHANGED todo
  BY <1>1 DEF Owners, IdxHeld, MyIds
<1>2. ASSUME NEW p \in Inserters, Begin(p) \/ Step(p)
      PROVE  Owners'
  <2>1. \A q \in Inserters \ {p} :
          /\ at'[q] = at[q] /\ target'[q] = target[q] /\ nbrs'[q] = nbrs[q]
          /\ locs'[q] = locs[q] /\ orig_locs'[q] = orig_locs[q] /\ IdxHeld(q)' = IdxHeld(q)
    BY <1>2, OthersUnchanged DEF IdxHeld, MyIds
  <2>2. at'[p] = "idle" => /\ target'[p] = -1 /\ nbrs'[p] = {}
                           /\ locs'[p] = None /\ orig_locs'[p] = None
    BY <1>2 DEF Step, Begin, BeginSearch, EndVisit, Visit, AllocLoc, LockPage,
         LockVec, ReadPages, SetTarget, LockIdx, MoveIds, EraseAndSetLoc, UnlockVec,
         UnlockTarget, PushTask, Stages
  <2>3. \/ IdxHeld(p)' \subseteq IdxHeld(p) /\ idx_locks' = idx_locks
        \/ IdxHeld(p)' = {} /\ idx_locks' = idx_locks \ IdxHeld(p)
        \/ \E i : /\ i \notin idx_locks /\ idx_locks' = idx_locks \cup {i}
                  /\ IdxHeld(p)' \subseteq IdxHeld(p) \cup {i}
    <3> USE DEF IdxHeld, MyIds
    <3>1. CASE LockIdx(p)
      BY <3>1 DEF LockIdx
    <3>2. CASE EraseAndSetLoc(p)
      BY <3>2 DEF EraseAndSetLoc
    <3>3. CASE MoveIds(p)
      BY <3>3 DEF MoveIds
    <3>4. CASE SetTarget(p)
      BY <3>4 DEF SetTarget
    <3>5. CASE LockVec(p)
      BY <3>5 DEF LockVec
    <3>6. CASE LockPage(p)
      BY <3>6 DEF LockPage
    <3> QED
      BY <1>2, <3>1, <3>2, <3>3, <3>4, <3>5, <3>6
      DEF Step, Begin, BeginSearch, EndVisit, Visit, AllocLoc, ReadPages, UnlockVec,
          UnlockTarget, PushTask
  <2> QED BY ONLY Owners, <2>1, <2>2, <2>3 DEF Owners
<1> QED BY <1>1, <1>2 DEF Next, BgPop, BgFinish, vars

(* The place of LocTable that a place of this module stands for.           *)
PlaceBar(x) ==
  CASE x \in {"idle", "unlockvec", "unlocktarget", "push"} -> "idle"
    [] x \in {"begin", "search", "reading"} -> "search"
    [] x \in {"lockpage", "lockvec", "read", "update"} -> "write"
    [] x = "lockidx" -> "lock"
    [] OTHER -> x

(* Its values, place by place.                                             *)
LEMMA PlaceBarValues ==
  /\ \A x \in {"idle", "unlockvec", "unlocktarget", "push"} : PlaceBar(x) = "idle"
  /\ \A x \in {"begin", "search", "reading"} : PlaceBar(x) = "search"
  /\ \A x \in {"lockpage", "lockvec", "read", "update"} : PlaceBar(x) = "write"
  /\ PlaceBar("lockidx") = "lock"
  /\ PlaceBar("move") = "move" /\ PlaceBar("erase") = "erase"
  BY DEF PlaceBar

(* PcBar is that place, for each inserter.                                 *)
LEMMA PcBarIs == PcBar = [q \in Inserters |-> PlaceBar(at[q])]
  BY DEF PcBar, PlaceBar, Over

(* ... so that it moves when at does.                                      *)
LEMMA PcBarStep ==
  ASSUME Shape, NEW p \in Inserters, NEW x, at' = [at EXCEPT ![p] = x]
  PROVE  /\ PcBar[p] = PlaceBar(at[p])
         /\ PcBar' = [PcBar EXCEPT ![p] = PlaceBar(x)]
<1>1. PcBar' = [q \in Inserters |-> PlaceBar(at'[q])]
  BY DEF PcBar, PlaceBar, Over
<1>2. \A q \in Inserters : at'[q] = IF q = p THEN x ELSE at[q]
  BY DEF Shape
<1> QED BY <1>1, <1>2, PcBarIs

(* The steps that LocTable does not see: waiting, locking and the work of  *)
(* the background thread.                                                  *)
LEMMA Stutter ==
  ASSUME Shape, UNCHANGED tables, UNCHANGED locals,
         \A q \in Inserters : /\ PlaceBar(at'[q]) = PlaceBar(at[q]) /\ Over(q)' = Over(q)
  PROVE  UNCHANGED LT!vars
<1>1. PcBar' = PcBar
  <2>1. PcBar' = [q \in Inserters |-> PlaceBar(at'[q])]
    BY DEF PcBar, PlaceBar, Over
  <2> QED BY <2>1, PcBarIs
<1>2. /\ Bar(target, -1)' = Bar(target, -1) /\ Bar(nbrs, {})' = Bar(nbrs, {})
      /\ Bar(locs, None)' = Bar(locs, None) /\ Bar(orig_locs, None)' = Bar(orig_locs, None)
  BY DEF Bar, None, locals
<1> QED BY <1>1, <1>2 DEF LT!vars, LT!tables, LT!locals, tables, locals

(* The steps that LocTable sees.  The first takes an id and a buffer.      *)
LEMMA BeginRefines ==
  ASSUME Shape, Owners, NEW p \in Inserters, Begin(p)
  PROVE  LT!Begin(p)
<1> USE DEF Begin, Shape, PerInserter
<1>1. PcBar[p] = "idle" /\ PcBar' = [PcBar EXCEPT ![p] = "search"]
  <2>1. at[p] = "idle" /\ at' = [at EXCEPT ![p] = "begin"]
    OBVIOUS
  <2>2. PcBar[p] = PlaceBar("idle") /\ PcBar' = [PcBar EXCEPT ![p] = PlaceBar("begin")]
    BY <2>1, PcBarStep
  <2> QED BY <2>2, PlaceBarValues
<1>2. Bar(target, -1)' = [Bar(target, -1) EXCEPT ![p] = cur_id]
  BY DEF Bar, Over
<1>3. /\ Bar(nbrs, {})' = Bar(nbrs, {}) /\ Bar(locs, None)' = Bar(locs, None)
      /\ Bar(orig_locs, None)' = Bar(orig_locs, None)
  BY DEF Owners, Bar, Over, None
<1> QED BY <1>1, <1>2, <1>3 DEF LT!Begin

(* A search expands a node under a read lock.                              *)
LEMMA VisitRefines ==
  ASSUME Shape, NEW p \in Inserters, NEW i \in Ids, Visit(p, i)
  PROVE  LT!Visit(p, i)
<1> USE DEF Visit, Shape, PerInserter
<1>1. PcBar[p] = "search" /\ PcBar' = PcBar
  <2>1. at[p] = "search" /\ at' = [at EXCEPT ![p] = "reading"]
    OBVIOUS
  <2>2. PcBar[p] = PlaceBar("search") /\ PcBar' = [PcBar EXCEPT ![p] = PlaceBar("reading")]
    BY <2>1, PcBarStep
  <2>3. PcBar = [q \in Inserters |-> PcBar[q]]
    BY PcBarIs
  <2> QED BY <2>2, <2>3, PlaceBarValues
<1>2. Bar(nbrs, {})[p] = nbrs[p] /\ ~Over(p)
      /\ Bar(nbrs, {})' = [Bar(nbrs, {}) EXCEPT ![p] = @ \cup {i}]
  BY DEF Bar, Over
<1>3. /\ Bar(target, -1)' = Bar(target, -1) /\ Bar(locs, None)' = Bar(locs, None)
      /\ Bar(orig_locs, None)' = Bar(orig_locs, None)
  BY DEF Bar, Over, None
<1> QED BY <1>1, <1>2, <1>3 DEF LT!Visit, LT!tables, tables

(* alloc_loc(), with the pages to lock computed from its result.           *)
LEMMA AllocLocRefines ==
  ASSUME Shape, NEW p \in Inserters, NEW keep \in SUBSET nbrs[p], AllocLoc(p, keep)
  PROVE  LT!AllocLoc(p, keep)
<1> USE DEF AllocLoc, Shape, PerInserter
<1>1. PcBar[p] = "search" /\ PcBar' = [PcBar EXCEPT ![p] = "write"]
  <2>1. at[p] = "search" /\ at' = [at EXCEPT ![p] = "lockpage"]
    OBVIOUS
  <2>2. PcBar[p] = PlaceBar("search") /\ PcBar' = [PcBar EXCEPT ![p] = PlaceBar("lockpage")]
    BY <2>1, PcBarStep
  <2> QED BY <2>2, PlaceBarValues
<1>2. Bar(target, -1)[p] = target[p] /\ ~Over(p)
  BY DEF Bar, Over
<1>3. /\ Bar(nbrs, {})' = [Bar(nbrs, {}) EXCEPT ![p] = keep]
      /\ Bar(target, -1)' = Bar(target, -1) /\ Bar(orig_locs, None)' = Bar(orig_locs, None)
  BY DEF Bar, Over, None
<1>4. ASSUME NEW a, locs' = [locs EXCEPT ![p] = a]
      PROVE  Bar(locs, None)' = [Bar(locs, None) EXCEPT ![p] = a]
  BY <1>4 DEF Bar, Over, None
<1> DEFINE n == LT!Cardinality(keep) + 1
           slots == LT!AllocSlots(n, hints[p])
<1>0. LT!Cardinality(keep) = Cardinality(keep)
  BY DEF LT!Cardinality, Cardinality
<1>5. /\ hints[p] # <<>> /\ n \in MinNbrs + 1 .. MaxNbrs + 1
      /\ LT!AlignUp(cur_loc + n) <= MaxLoc /\ LT!AllocTables(n, slots)
      /\ hints' = [hints EXCEPT ![p] = <<>>] /\ UNCHANGED <<cur_id, id2loc>>
  BY <1>0
<1>6. \E a \in LT!Bijection(keep \cup {Bar(target, -1)[p]}, slots) :
        Bar(locs, None)' = [Bar(locs, None) EXCEPT ![p] = a]
  BY <1>0, <1>2, <1>4
<1> QED BY ONLY <1>1, <1>3, <1>5, <1>6, Zenon DEF LT!AllocLoc

(* set_id2loc(target_id), after the page and vector locks.                 *)
LEMMA SetTargetRefines ==
  ASSUME Shape, NEW p \in Inserters, SetTarget(p)
  PROVE  LT!SetTarget(p)
<1> USE DEF SetTarget, Shape, PerInserter, locals
<1>1. PcBar[p] = "write" /\ PcBar' = [PcBar EXCEPT ![p] = "lock"]
  <2>1. at[p] = "update" /\ at' = [at EXCEPT ![p] = "lockidx"]
    OBVIOUS
  <2>2. PcBar[p] = PlaceBar("update") /\ PcBar' = [PcBar EXCEPT ![p] = PlaceBar("lockidx")]
    BY <2>1, PcBarStep
  <2> QED BY <2>2, PlaceBarValues
<1>2. Bar(target, -1)[p] = target[p] /\ Bar(locs, None)[p] = locs[p]
  BY DEF Bar, Over
<1>3. /\ Bar(target, -1)' = Bar(target, -1) /\ Bar(nbrs, {})' = Bar(nbrs, {})
      /\ Bar(locs, None)' = Bar(locs, None) /\ Bar(orig_locs, None)' = Bar(orig_locs, None)
  BY DEF Bar, Over, None
<1> QED BY <1>1, <1>2, <1>3 DEF LT!SetTarget, LT!locals

(* The last lock: no other inserter of LocTable holds one of the ids.      *)
LEMMA LockIdxRefines ==
  ASSUME Shape, Owners, NEW p \in Inserters, LockIdx(p)
  PROVE  LT!LockIdx(p) \/ UNCHANGED LT!vars
<1> DEFINE i == Least(todo[p])
<1> USE DEF LockIdx, Shape, PerInserter
<1>1. CASE todo[p] = {i}
  <2>1. PcBar[p] = "lock" /\ PcBar' = [PcBar EXCEPT ![p] = "move"]
    <3>1. at[p] = "lockidx" /\ at' = [at EXCEPT ![p] = "move"]
      BY <1>1
    <3>2. PcBar[p] = PlaceBar("lockidx") /\ PcBar' = [PcBar EXCEPT ![p] = PlaceBar("move")]
      BY <3>1, PcBarStep
    <3> QED BY <3>2, PlaceBarValues
  <2>2. /\ Bar(target, -1)' = Bar(target, -1) /\ Bar(nbrs, {})' = Bar(nbrs, {})
        /\ Bar(locs, None)' = Bar(locs, None) /\ Bar(orig_locs, None)' = Bar(orig_locs, None)
    BY <1>1 DEF Bar, Over, None, locals
  <2>3. ASSUME NEW q \in Inserters, LT!IdxLocked(q)
        PROVE  LT!MyIds(q) \cap LT!MyIds(p) = {}
    <3>1. PlaceBar(at[q]) \in {"move", "erase"}
      BY <2>3, PcBarIs DEF LT!IdxLocked
    <3>2. at[q] \in {"move", "erase"} /\ q # p
      BY <3>1, PlaceBarValues DEF Stages
    <3>3. LT!MyIds(q) = MyIds(q) /\ LT!MyIds(p) = MyIds(p)
      BY <3>2 DEF LT!MyIds, MyIds, Bar, Over
    <3>4. IdxHeld(q) = MyIds(q) /\ IdxHeld(p) = MyIds(p) \ {i}
      BY <1>1, <3>2 DEF IdxHeld
    <3>5. i \notin IdxHeld(q) /\ IdxHeld(q) \cap IdxHeld(p) = {}
      BY <3>2 DEF Owners
    <3> QED BY <3>3, <3>4, <3>5
  <2> QED BY <2>1, <2>2, <2>3 DEF LT!LockIdx, LT!tables, LT!locals, tables, locals
<1>2. CASE todo[p] # {i}
  <2>1. UNCHANGED at /\ UNCHANGED tables /\ UNCHANGED locals
    BY <1>2
  <2> QED BY <2>1, Stutter DEF Over
<1> QED BY <1>1, <1>2

(* The neighbours move.                                                    *)
LEMMA MoveIdsRefines ==
  ASSUME Shape, NEW p \in Inserters, MoveIds(p)
  PROVE  LT!MoveIds(p)
<1> USE DEF MoveIds, Shape, PerInserter
<1>1. PcBar[p] = "move" /\ PcBar' = [PcBar EXCEPT ![p] = "erase"]
  <2>1. at[p] = "move" /\ at' = [at EXCEPT ![p] = "erase"]
    OBVIOUS
  <2>2. PcBar[p] = PlaceBar("move") /\ PcBar' = [PcBar EXCEPT ![p] = PlaceBar("erase")]
    BY <2>1, PcBarStep
  <2> QED BY <2>2, PlaceBarValues
<1>2. Bar(nbrs, {})[p] = nbrs[p] /\ Bar(locs, None)[p] = locs[p]
  BY DEF Bar, Over
<1>3. /\ Bar(target, -1)' = Bar(target, -1) /\ Bar(nbrs, {})' = Bar(nbrs, {})
      /\ Bar(locs, None)' = Bar(locs, None)
  BY DEF Bar, Over, None
<1>4. Bar(orig_locs, None)' = [Bar(orig_locs, None) EXCEPT ![p] = [i \in nbrs[p] |-> id2loc[i]]]
  BY DEF Bar, Over, None
<1> QED BY <1>1, <1>2, <1>3, <1>4 DEF LT!MoveIds, Ids

(* The commit, after which the insert is over for LocTable.                *)
LEMMA EraseAndSetLocRefines ==
  ASSUME Shape, NEW p \in Inserters, EraseAndSetLoc(p)
  PROVE  LT!EraseAndSetLoc(p)
<1> USE DEF EraseAndSetLoc, Shape, PerInserter, locals
<1>1. PcBar[p] = "erase" /\ PcBar' = [PcBar EXCEPT ![p] = "idle"]
  <2>1. at[p] = "erase" /\ at' = [at EXCEPT ![p] = "unlockvec"]
    OBVIOUS
  <2>2. PcBar[p] = PlaceBar("erase") /\ PcBar' = [PcBar EXCEPT ![p] = PlaceBar("unlockvec")]
    BY <2>1, PcBarStep
  <2> QED BY <2>2, PlaceBarValues
<1>2. /\ Bar(target, -1)' = [Bar(target, -1) EXCEPT ![p] = -1]
      /\ Bar(nbrs, {})' = [Bar(nbrs, {}) EXCEPT ![p] = {}]
  BY DEF Bar, Over
<1>3. /\ Bar(locs, None)' = [Bar(locs, None) EXCEPT ![p] = None]
      /\ Bar(orig_locs, None)' = [Bar(orig_locs, None) EXCEPT ![p] = None]
  BY DEF Bar, Over, None
<1> QED BY <1>1, <1>2, <1>3 DEF LT!EraseAndSetLoc, LT!Invalid, LT!NoLocs, None

(* Every step is one of LocTable or leaves its variables alone.            *)
LEMMA RefinementStep ==
  ASSUME Shape, Owners, [Next]_vars
  PROVE  [LT!Next]_(LT!vars)
<1> USE PlaceBarValues DEF Shape
<1>1. ASSUME NEW p \in Inserters, Begin(p) PROVE LT!Next
  BY <1>1, BeginRefines DEF LT!Next
<1>2. ASSUME NEW p \in Inserters, BeginSearch(p) \/ EndVisit(p) \/ ReadPages(p)
                                  \/ UnlockVec(p) \/ UnlockTarget(p)
      PROVE  UNCHANGED LT!vars
  BY <1>2, Stutter DEF BeginSearch, EndVisit, ReadPages, UnlockVec, UnlockTarget, Over
<1>3. ASSUME NEW p \in Inserters, LockPage(p) \/ LockVec(p) PROVE UNCHANGED LT!vars
  BY <1>3, Stutter DEF LockPage, LockVec, Over
<1>4. ASSUME NEW p \in Inserters, NEW i \in Ids, Visit(p, i) PROVE LT!Next
  BY <1>4, VisitRefines DEF LT!Next, Ids
<1>5. ASSUME NEW p \in Inserters, NEW keep \in SUBSET nbrs[p], AllocLoc(p, keep)
      PROVE  LT!Next
  <2>1. Bar(nbrs, {})[p] = nbrs[p]
    BY <1>5 DEF AllocLoc, Bar, Over
  <2> QED BY <1>5, <2>1, AllocLocRefines DEF LT!Next
<1>6. ASSUME NEW p \in Inserters, SetTarget(p) \/ MoveIds(p) \/ EraseAndSetLoc(p)
      PROVE  LT!Next
  BY <1>6, SetTargetRefines, MoveIdsRefines, EraseAndSetLocRefines DEF LT!Next
<1>7. ASSUME NEW p \in Inserters, LockIdx(p) PROVE LT!Next \/ UNCHANGED LT!vars
  BY <1>7, LockIdxRefines DEF LT!Next
<1>8. ASSUME NEW p \in Inserters, PushTask(p) PROVE UNCHANGED LT!vars
  <2>1. PcBar' = PcBar
    BY <1>8 DEF PushTask, PcBar, Over
  <2>2. /\ Bar(target, -1)' = Bar(target, -1) /\ Bar(nbrs, {})' = Bar(nbrs, {})
        /\ Bar(locs, None)' = Bar(locs, None) /\ Bar(orig_locs, None)' = Bar(orig_locs, None)
    BY <1>8 DEF PushTask, Bar, Over, None, PerInserter
  <2> QED BY <1>8, <2>1, <2>2 DEF PushTask, LT!vars, LT!tables, LT!locals, tables
<1>9. CASE BgPop \/ BgFinish \/ UNCHANGED vars
  BY <1>9, Stutter DEF BgPop, BgFinish, vars, Over
<1> QED BY <1>1, <1>2, <1>3, <1>4, <1>5, <1>6, <1>7, <1>8, <1>9 DEF Next, Step

(* The steps of this module are steps of LocTable, or invisible there.     *)
LEMMA StepsRefine == Steps => LT!Spec
<1>1. Init => LT!Init
  <2> SUFFICES ASSUME Init PROVE LT!Init
    OBVIOUS
  <2>1. PcBar = [p \in Inserters |-> "idle"]
    BY DEF Init, PcBar, Over
  <2>2. /\ Bar(target, -1) = [p \in Inserters |-> -1]
        /\ Bar(nbrs, {}) = [p \in Inserters |-> {}]
        /\ Bar(locs, None) = [p \in Inserters |-> None]
        /\ Bar(orig_locs, None) = [p \in Inserters |-> None]
    BY DEF Init, Bar, Over
  <2> QED BY <2>1, <2>2 DEF Init, LT!Init, LT!Invalid, LT!NoLocs, None
<1>2. Shape /\ Owners /\ [Next]_vars => [LT!Next]_(LT!vars)
  BY RefinementStep
<1>3. Shape /\ Owners /\ [Next]_vars => (Shape /\ Owners)'
  BY ShapeStep, OwnersStep
<1> QED BY <1>1, <1>2, <1>3, RefInvInit, PTL DEF Steps, LT!Spec

(* insert_in_place() with its page, vector and index locks taken key by    *)
(* key, its readers and its background thread implements LocTable.         *)
THEOREM Refinement == Spec => ImplementsLocTable
  BY StepsRefine, PTL DEF Spec, Steps, ImplementsLocTable

-----------------------------------------------------------------------------
(* What is proved of LocTable holds of this module: P is the instance LT   *)
(* of LocTable, with its theorems.  The two instances are the same, but    *)
(* the prover has to be shown it, one operator at a time.                  *)
P == INSTANCE LocTableProofs WITH
       pc <- PcBar, target <- Bar(target, -1), nbrs <- Bar(nbrs, {}),
       locs <- Bar(locs, None), orig_locs <- Bar(orig_locs, None)

(* The tables and the ids a search sees are the same in both instances.    *)
LEMMA SameVisible == LT!Visible = P!Visible
  BY DEF LT!Visible, P!Visible, LT!Unlinked, P!Unlinked

(* alloc_loc() takes the same slots, and is the same, in both instances.   *)
LEMMA SameAllocSlots == \A n, hs : LT!AllocSlots(n, hs) = P!AllocSlots(n, hs)
  BY DEF LT!AllocSlots, P!AllocSlots, LT!NPop, P!NPop, LT!Candidates, P!Candidates,
         LT!FromEmpty, P!FromEmpty, LT!PageOf, P!PageOf, LT!Popped, P!Popped,
         LT!Usable, P!Usable, LT!Slots, P!Slots, LT!Holes, P!Holes,
         LT!Cardinality, P!Cardinality, LT!Threshold, P!Threshold, LT!Locs, P!Locs,
         LT!Invalid, P!Invalid, LT!INDEX_SIZE_FACTOR, P!INDEX_SIZE_FACTOR,
         LT!ToSet, P!ToSet

(* The two instances of alloc_loc() are the same.                          *)
LEMMA SameAllocLoc == \A p, keep : LT!AllocLoc(p, keep) <=> P!AllocLoc(p, keep)
<1>1. \A n, hs : LT!AllocSlots(n, hs) = P!AllocSlots(n, hs)
  BY SameAllocSlots
<1>2. \A n, slots : LT!AllocTables(n, slots) <=> P!AllocTables(n, slots)
  BY DEF LT!AllocTables, P!AllocTables, LT!NPop, P!NPop, LT!FromEmpty, P!FromEmpty,
         LT!NewCurLoc, P!NewCurLoc, LT!AlignUp, P!AlignUp, LT!Cardinality,
         P!Cardinality, LT!Locs, P!Locs, LT!Invalid, P!Invalid, LT!Allocated, P!Allocated
<1>3. \A S, T : LT!Bijection(S, T) = P!Bijection(S, T)
  BY DEF LT!Bijection, P!Bijection, LT!Injection, P!Injection, LT!Surjection,
         P!Surjection, LT!IsInjective, P!IsInjective
<1>4. \A S : LT!Cardinality(S) = P!Cardinality(S)
  BY DEF LT!Cardinality, P!Cardinality
<1>5. \A x : LT!AlignUp(x) = P!AlignUp(x)
  BY DEF LT!AlignUp, P!AlignUp
<1> QED BY ONLY <1>1, <1>2, <1>3, <1>4, <1>5 DEF LT!AllocLoc, P!AllocLoc

(* erase_and_set_loc() is the same in both instances.                      *)
LEMMA SameEraseAndSetLoc == \A p : LT!EraseAndSetLoc(p) <=> P!EraseAndSetLoc(p)
<1>1. \A p : LT!Committed(p) = P!Committed(p)
  BY DEF LT!Committed, P!Committed, LT!MyIds, P!MyIds, LT!Locs, P!Locs,
         LT!Invalid, P!Invalid
<1>2. \A p : LT!EmptiedPages(p) = P!EmptiedPages(p)
  BY <1>1 DEF LT!EmptiedPages, P!EmptiedPages, LT!PageOf, P!PageOf, LT!Slots, P!Slots,
              LT!Locs, P!Locs, LT!Invalid, P!Invalid
<1>3. \A S : LT!SetToSeqs(S) = P!SetToSeqs(S)
  BY DEF LT!SetToSeqs, P!SetToSeqs, LT!Cardinality, P!Cardinality
<1>4. \A p : LT!CommitTables(p) <=> P!CommitTables(p)
  BY ONLY <1>1, <1>2, <1>3 DEF LT!CommitTables, P!CommitTables
<1> QED BY <1>4 DEF LT!EraseAndSetLoc, P!EraseAndSetLoc, LT!Invalid, P!Invalid,
                    LT!NoLocs, P!NoLocs

(* The next-state relations of the two instances are the same.             *)
LEMMA SameNext == [LT!Next]_(LT!vars) <=> [P!Next]_(P!vars)
<1>1. \A p : LT!Begin(p) <=> P!Begin(p)
  BY DEF LT!Begin, P!Begin
<1>2. \A p, i : LT!Visit(p, i) <=> P!Visit(p, i)
  BY SameVisible DEF LT!Visit, P!Visit, LT!tables, P!tables, LT!PageOf, P!PageOf
<1>3. \A p : /\ LT!SetTarget(p) <=> P!SetTarget(p)
             /\ LT!LockIdx(p) <=> P!LockIdx(p)
             /\ LT!MoveIds(p) <=> P!MoveIds(p)
  BY DEF LT!SetTarget, P!SetTarget, LT!LockIdx, P!LockIdx, LT!MoveIds, P!MoveIds,
         LT!locals, P!locals, LT!tables, P!tables, LT!IdxLocked, P!IdxLocked,
         LT!MyIds, P!MyIds, LT!Ids, P!Ids
<1>4. LT!Next <=> P!Next
  BY ONLY SameAllocLoc, SameEraseAndSetLoc, <1>1, <1>2, <1>3
  DEF LT!Next, P!Next, LT!Ids, P!Ids
<1> QED BY ONLY <1>4 DEF LT!vars, P!vars, LT!tables, P!tables, LT!locals, P!locals

(* The theorems of LocTable are about the behaviours of this module.       *)
LEMMA TablesSpec == Steps => P!Spec
<1>1. LT!Init => P!Init
  BY DEF LT!Init, P!Init, LT!InitTables, P!InitTables, LT!AlignUp, P!AlignUp,
         LT!Ids, P!Ids, LT!Locs, P!Locs, LT!Invalid, P!Invalid, LT!NoLocs, P!NoLocs
<1>2. LT!Spec => P!Spec
  BY <1>1, SameNext, PTL DEF LT!Spec, P!Spec
<1> QED BY <1>2, StepsRefine, PTL

(* So the invariant of the table protocol holds here too.                  *)
LEMMA TablesInvariant == Steps => []P!IInv
<1>1. P!Spec => []P!IInv
  BY DirectInsertAssumption, P!Invariance
<1> QED BY <1>1, TablesSpec, PTL

(* What the tables promise holds of insert_in_place() with all its locks   *)
(* and its background writes: alloc_loc() finds the queued pages empty, and*)
(* a page that has become empty is queued.                                 *)
THEOREM PagesAlwaysAccounted == Spec => [](P!QueuedPagesEmpty /\ P!EmptyPagesQueued)
<1>1. P!Spec => []P!QueuedPagesEmpty
  BY DirectInsertAssumption, P!QueuedPagesAlwaysEmpty
<1>2. P!Spec => []P!EmptyPagesQueued
  BY DirectInsertAssumption, P!EmptyPagesAlwaysQueued
<1> QED BY <1>1, <1>2, TablesSpec, PTL DEF Spec, Steps

-----------------------------------------------------------------------------
(* What an inserter works on.                                              *)

(* Between alloc_loc() and the hand-over to the background thread an       *)
(* insert has pages to write, and what it still has to lock is its own.    *)
Writing == {"lockpage", "lockvec", "read", "update", "lockidx", "move", "erase",
            "unlockvec", "unlocktarget", "push"}

TodoOK ==
  \A p \in Inserters :
    /\ at[p] \in Writing => WritePages(p) # {} /\ WritePages(p) \subseteq Pages
    /\ at[p] = "lockpage" => todo[p] # {} /\ todo[p] \subseteq WritePages(p)
    /\ at[p] \in {"lockvec", "lockidx"} => todo[p] # {} /\ todo[p] \subseteq MyIds(p)

(* What the invariant of LocTable says of the inserter's own variables.    *)
OwnIdsOK ==
  \A p \in Inserters :
    /\ ~Over(p) => MyIds(p) \subseteq Ids
    /\ at[p] \in {"lockpage", "lockvec", "read", "update", "lockidx", "move", "erase"}
         => WritePages(p) # {} /\ WritePages(p) \subseteq Pages

(* What an inserter owns are ids and, once it has its locations, pages.    *)
LEMMA OwnIds == Shape /\ P!IInv => OwnIdsOK
<1> SUFFICES ASSUME Shape, P!IInv, NEW p \in Inserters, ~Over(p)
             PROVE  /\ MyIds(p) \subseteq Ids
                    /\ at[p] \in {"lockpage", "lockvec", "read", "update", "lockidx",
                                   "move", "erase"}
                         => WritePages(p) # {} /\ WritePages(p) \subseteq Pages
  BY DEF OwnIdsOK, Over
<1>1. /\ PcBar[p] = PlaceBar(at[p]) /\ P!MyIds(p) = MyIds(p)
      /\ Bar(nbrs, {})[p] = nbrs[p] /\ Bar(target, -1)[p] = target[p]
      /\ Bar(locs, None)[p] = locs[p]
  BY PcBarIs DEF P!MyIds, MyIds, Bar, Over
<1>2. PcBar[p] # "idle" /\ at[p] \in Stages
  BY <1>1, PlaceBarValues DEF Over, Shape, Stages
<1>3. MyIds(p) \subseteq Ids
  <2>1. nbrs[p] \subseteq Ids
    BY <1>1 DEF P!IInv, P!TypeOK, P!Ids, Ids, LT!Ids
  <2>2. target[p] \in 0 .. cur_id - 1 /\ cur_id \in NPoints .. MaxId
    BY <1>1, <1>2 DEF P!IInv, P!LocalsOK, P!TypeOK
  <2> QED BY <2>1, <2>2, DirectInsertAssumption DEF MyIds, Ids, LT!Ids
<1>4. ASSUME at[p] \in {"lockpage", "lockvec", "read", "update", "lockidx", "move", "erase"}
      PROVE  WritePages(p) # {} /\ WritePages(p) \subseteq Pages
  <2>1. P!Owner(p)
    BY <1>1, <1>4, PlaceBarValues DEF P!Owner
  <2>2. locs[p] \in [MyIds(p) -> LT!Locs]
    BY <1>1, <2>1 DEF P!IInv, P!LocalsOK, P!Locs, LT!Locs
  <2>3. DOMAIN locs[p] = MyIds(p) /\ \A i \in MyIds(p) : locs[p][i] \in LT!Locs
    BY <2>2
  <2>4. target[p] \in DOMAIN locs[p]
    BY <2>3 DEF MyIds
  <2> QED BY <2>3, <2>4 DEF WritePages, Pages, LT!Pages
<1> QED BY <1>3, <1>4

(* The same after a step.                                                 *)
LEMMA OwnIdsNext == (Shape /\ P!IInv)' => OwnIdsOK'
<1>1. (Shape /\ P!IInv => OwnIdsOK)'
  BY OwnIds, PTL
<1> QED BY <1>1

(* The least key is one of the keys: locks are taken in increasing order.  *)
LEMMA LeastIn ==
  ASSUME NEW S, S # {}, S \subseteq Nat
  PROVE  Least(S) \in S
<1>1. \E x \in S : \A y \in S : x <= y
  BY ONLY DirectInsertAssumption, S # {}, S \subseteq Nat, P!LeastNatural
<1> QED BY <1>1 DEF Least

(* alloc_loc() leaves all the pages it has taken slots of to be locked.    *)
LEMMA AllocLocPages ==
  ASSUME Shape, NEW p \in Inserters, NEW keep \in SUBSET nbrs[p], AllocLoc(p, keep)
  PROVE  todo'[p] = WritePages(p)'
<1> DEFINE slots == LT!AllocSlots(Cardinality(keep) + 1, hints[p])
<1>1. PICK a \in LT!Bijection(keep \cup {target[p]}, slots) :
        /\ locs' = [locs EXCEPT ![p] = a]
        /\ todo' = [todo EXCEPT ![p] = {LT!PageOf(l) : l \in slots}]
  BY DEF AllocLoc
<1>2. /\ a \in [keep \cup {target[p]} -> slots]
      /\ \A l \in slots : \E i \in keep \cup {target[p]} : a[i] = l
  BY <1>1 DEF LT!Bijection, LT!Injection, LT!Surjection
<1>3. locs'[p] = a /\ todo'[p] = {LT!PageOf(l) : l \in slots}
  BY <1>1 DEF Shape, PerInserter
<1> HIDE DEF slots
<1> QED BY ONLY <1>2, <1>3 DEF WritePages

(* Through every step an insert has pages of its own to write, and waits   *)
(* for locks on its own pages and ids only.                                *)
LEMMA TodoOKStep ==
  ASSUME Shape, P!IInv, (Shape /\ P!IInv)', TodoOK, [Next]_vars
  PROVE  TodoOK'
<1>1. ASSUME UNCHANGED at, UNCHANGED todo, UNCHANGED locals
      PROVE  TodoOK'
  BY <1>1 DEF TodoOK, WritePages, MyIds, locals
<1>2. ASSUME NEW p \in Inserters, Begin(p) \/ Step(p)
      PROVE  TodoOK'
  <2>1. \A q \in Inserters \ {p} :
          at'[q] = at[q] /\ todo'[q] = todo[q] /\ WritePages(q)' = WritePages(q)
          /\ MyIds(q)' = MyIds(q)
    BY <1>2, OthersUnchanged DEF WritePages, MyIds
  <2>2. at'[p] \in Writing => WritePages(p)' # {} /\ WritePages(p)' \subseteq Pages
    <3>1. at'[p] \in {"lockpage", "lockvec", "read", "update", "lockidx", "move", "erase"}
            => WritePages(p)' # {} /\ WritePages(p)' \subseteq Pages
      BY OwnIdsNext DEF OwnIdsOK, Pages, LT!Pages
    <3>2. at'[p] \in {"unlockvec", "unlocktarget", "push"}
            => at[p] \in Writing /\ locs'[p] = locs[p]
      BY <1>2 DEF Step, Begin, BeginSearch, EndVisit, Visit, AllocLoc, LockPage, LockVec,
         ReadPages, SetTarget, LockIdx, MoveIds, EraseAndSetLoc, UnlockVec, UnlockTarget,
         PushTask, Shape, Stages, Writing, locals
    <3> QED BY <3>1, <3>2 DEF TodoOK, WritePages, Writing
  <2>3. at'[p] = "lockpage" => todo'[p] # {} /\ todo'[p] \subseteq WritePages(p)'
    <3>1. CASE LockPage(p)
      BY <3>1 DEF LockPage, Shape, PerInserter, locals, TodoOK, WritePages
    <3>2. ASSUME NEW keep \in SUBSET nbrs[p], AllocLoc(p, keep)
          PROVE  todo'[p] # {} /\ todo'[p] \subseteq WritePages(p)'
      BY <3>2, AllocLocPages, OwnIdsNext DEF OwnIdsOK, AllocLoc, Shape
    <3> QED BY <1>2, <3>1, <3>2 DEF Step, Begin, BeginSearch, EndVisit, Visit, LockVec,
          ReadPages, SetTarget, LockIdx, MoveIds, EraseAndSetLoc, UnlockVec, UnlockTarget,
          PushTask, Shape
  <2>4. at'[p] \in {"lockvec", "lockidx"} => todo'[p] # {} /\ todo'[p] \subseteq MyIds(p)'
    <3> USE DEF Shape, PerInserter, locals, MyIds, TodoOK
    <3>1. CASE LockPage(p) \/ SetTarget(p)
      BY <3>1 DEF LockPage, SetTarget
    <3>2. CASE LockVec(p) \/ LockIdx(p)
      BY <3>2 DEF LockVec, LockIdx
    <3>3. ASSUME NEW keep \in SUBSET nbrs[p], AllocLoc(p, keep)
          PROVE  at'[p] = "lockpage"
      BY <3>3 DEF AllocLoc
    <3>4. ASSUME NEW i \in Ids, Visit(p, i)
          PROVE  at'[p] = "reading"
      BY <3>4 DEF Visit
    <3> QED BY <1>2, <3>1, <3>2, <3>3, <3>4 DEF Step, Begin, BeginSearch, EndVisit,
          ReadPages, MoveIds, EraseAndSetLoc, UnlockVec, UnlockTarget, PushTask
  <2> QED BY ONLY TodoOK, <2>1, <2>2, <2>3, <2>4 DEF TodoOK, Pages, LT!Pages, LT!PageOf, LT!Locs
<1> QED BY <1>1, <1>2 DEF Next, BgPop, BgFinish, vars

-----------------------------------------------------------------------------
(* The page locks.                                                         *)

(* A task has pages, and no pages means no task.                           *)
TasksOK ==
  /\ bg_tasks \in Seq(SUBSET Pages)
  /\ \A k \in 1 .. Len(bg_tasks) : bg_tasks[k] # {}
  /\ bg_task \subseteq Pages

(* What one inserter's step does to the page locks and the tasks: nothing, *)
(* take one more lock, or hand all of them over.                           *)
LEMMA PageStepCases ==
  ASSUME Shape, TodoOK, NEW p \in Inserters, Begin(p) \/ Step(p)
  PROVE  /\ \A q \in Inserters \ {p} : LockedPages(q)' = LockedPages(q)
         /\ bg_task' = bg_task
         /\ \/ /\ LockedPages(p)' = LockedPages(p)
               /\ UNCHANGED <<page_locks, bg_tasks>>
            \/ \E g : /\ g \notin page_locks /\ page_locks' = page_locks \cup {g}
                      /\ LockedPages(p)' = LockedPages(p) \cup {g}
                      /\ UNCHANGED bg_tasks
            \/ /\ LockedPages(p)' = {} /\ at[p] = "push"
               /\ bg_tasks' = Append(bg_tasks, LockedPages(p))
               /\ UNCHANGED page_locks
<1>1. \A q \in Inserters \ {p} : LockedPages(q)' = LockedPages(q)
  <2>1. \A q \in Inserters \ {p} :
          at'[q] = at[q] /\ todo'[q] = todo[q] /\ WritePages(q)' = WritePages(q)
    BY OthersUnchanged DEF WritePages
  <2> QED BY ONLY <2>1 DEF LockedPages
<1>2. CASE LockPage(p)
  <2> DEFINE g == Least(todo[p])
  <2>1. at[p] = "lockpage" /\ todo[p] # {} /\ todo[p] \subseteq WritePages(p)
        /\ WritePages(p) \subseteq Nat
    <3>1. Pages \subseteq Nat
      BY DirectInsertAssumption DEF Pages, LT!Pages, LT!PageOf, LT!Locs
    <3> QED BY <1>2, <3>1 DEF LockPage, TodoOK, Writing
  <2>2. g \in todo[p]
    BY <2>1, LeastIn
  <2>3. WritePages(p)' = WritePages(p)
    BY <1>2 DEF LockPage, WritePages, locals
  <2> HIDE DEF g
  <2>4. LockedPages(p)' = LockedPages(p) \cup {g}
    <3>1. CASE todo[p] = {g}
      BY <1>2, <2>1, <2>2, <2>3, <3>1 DEF LockPage, LockedPages, Shape, g
    <3>2. CASE todo[p] # {g}
      BY <1>2, <2>1, <2>2, <2>3, <3>2 DEF LockPage, LockedPages, Shape, PerInserter, g
    <3> QED BY <3>1, <3>2
  <2> QED BY <1>1, <1>2, <2>4 DEF LockPage, g, bg
<1>3. CASE PushTask(p)
  <2>1. LockedPages(p) = WritePages(p) /\ at'[p] = "idle" /\ at[p] = "push"
    BY <1>3 DEF PushTask, LockedPages, Shape
  <2>2. LockedPages(p)' = {}
    BY <2>1 DEF LockedPages
  <2>3. bg_tasks' = Append(bg_tasks, LockedPages(p)) /\ UNCHANGED <<page_locks, bg_task>>
    BY <1>3, <2>1 DEF PushTask, locks
  <2> QED BY ONLY <1>1, <2>1, <2>2, <2>3
<1>4. ASSUME ~LockPage(p), ~PushTask(p)
      PROVE  LockedPages(p)' = LockedPages(p) /\ UNCHANGED <<page_locks, bg_tasks, bg_task>>
  <2> USE DEF Shape, PerInserter, locals, locks, bg
  <2>1. ASSUME NEW keep \in SUBSET nbrs[p], AllocLoc(p, keep)
        PROVE  LockedPages(p)' = LockedPages(p) /\ UNCHANGED <<page_locks, bg_tasks, bg_task>>
    <3>1. at[p] = "search" /\ at'[p] = "lockpage"
      BY <2>1 DEF AllocLoc
    <3>2. todo'[p] = WritePages(p)'
      BY <2>1, AllocLocPages
    <3>3. UNCHANGED <<page_locks, bg_tasks, bg_task>>
      BY <2>1 DEF AllocLoc
    <3> QED BY ONLY <3>1, <3>2, <3>3 DEF LockedPages
  <2>2. ASSUME \/ \E i \in Ids : Visit(p, i)
               \/ LockVec(p) \/ LockIdx(p) \/ ReadPages(p) \/ SetTarget(p) \/ MoveIds(p)
               \/ EraseAndSetLoc(p) \/ UnlockVec(p) \/ UnlockTarget(p)
               \/ Begin(p) \/ BeginSearch(p) \/ EndVisit(p)
        PROVE  LockedPages(p)' = LockedPages(p) /\ UNCHANGED <<page_locks, bg_tasks, bg_task>>
    <3>1. /\ locs'[p] = locs[p] /\ UNCHANGED <<page_locks, bg_tasks, bg_task>>
          /\ \/ at'[p] = at[p] /\ at[p] # "lockpage"
             \/ /\ at[p] \in {"idle", "begin", "search", "reading"}
                /\ at'[p] \in {"idle", "begin", "search", "reading"}
             \/ /\ at[p] \in Writing \ {"lockpage"}
                /\ at'[p] \in Writing \ {"lockpage"}
      BY <2>2 DEF Visit, LockVec, LockIdx, ReadPages, SetTarget, MoveIds, EraseAndSetLoc,
         UnlockVec, UnlockTarget, Begin, BeginSearch, EndVisit, Writing
    <3>2. WritePages(p)' = WritePages(p)
      BY <3>1 DEF WritePages
    <3> QED BY ONLY <3>1, <3>2 DEF LockedPages, Writing
  <2> QED BY <1>4, <2>1, <2>2 DEF Step
<1> QED BY ONLY <1>1, <1>2, <1>3, <1>4

(* The queue of tasks as a function, before and after an operation on it.  *)
LEMMA QueueStep ==
  ASSUME NEW S, NEW q \in Seq(S)
  PROVE  /\ Len(q) \in Nat /\ \A k \in 1 .. Len(q) : q[k] \in S
         /\ \A x \in S : /\ Append(q, x) \in Seq(S) /\ Len(Append(q, x)) = Len(q) + 1
                         /\ Append(q, x)[Len(q) + 1] = x
                         /\ \A k \in 1 .. Len(q) : Append(q, x)[k] = q[k]
         /\ q # <<>> => /\ Len(q) > 0 /\ Head(q) = q[1] /\ Tail(q) \in Seq(S)
                        /\ Len(Tail(q)) = Len(q) - 1
                        /\ \A k \in 1 .. Len(q) - 1 : Tail(q)[k] = q[k + 1]
  OBVIOUS

(* The queue of the background thread keeps its tasks apart: only PushTask *)
(* adds one, of the pages that its inserter has locked.                    *)
LEMMA TasksOKStep ==
  ASSUME Shape, TodoOK, TasksOK, [Next]_vars
  PROVE  TasksOK'
<1>0. Pages' = Pages
  BY DEF Pages, LT!Pages, LT!PageOf, LT!Locs
<1>1. ASSUME NEW p \in Inserters, Begin(p) \/ Step(p)
      PROVE  TasksOK'
  <2>1. at[p] = "push" => LockedPages(p) # {} /\ LockedPages(p) \in SUBSET Pages
    BY DEF TodoOK, LockedPages, Writing
  <2>2. CASE UNCHANGED <<bg_tasks, bg_task>>
    BY <1>0, <2>2 DEF TasksOK
  <2>3. CASE at[p] = "push" /\ bg_tasks' = Append(bg_tasks, LockedPages(p))
             /\ bg_task' = bg_task
    BY <1>0, <2>1, <2>3, QueueStep DEF TasksOK
  <2> QED BY <1>1, <2>2, <2>3, PageStepCases
<1>2. CASE BgPop
  BY <1>0, <1>2, QueueStep DEF BgPop, TasksOK
<1>3. CASE BgFinish \/ UNCHANGED vars
  BY <1>0, <1>3 DEF BgFinish, vars, bg, TasksOK
<1> QED BY <1>1, <1>2, <1>3 DEF Next

(* One more lock, taken when no inserter and no task has it.               *)
LEMMA PageLocked ==
  ASSUME PageWritesExclusive, NEW p \in Inserters, NEW g, g \notin page_locks,
         page_locks' = page_locks \cup {g}, UNCHANGED <<bg_tasks, bg_task>>,
         LockedPages(p)' = LockedPages(p) \cup {g},
         \A q \in Inserters \ {p} : LockedPages(q)' = LockedPages(q)
  PROVE  PageWritesExclusive'
<1>1. /\ \A q \in Inserters : g \notin LockedPages(q)
      /\ \A k \in 1 .. Len(bg_tasks) : g \notin bg_tasks[k]
      /\ g \notin bg_task
  BY DEF PageWritesExclusive
<1>2. \A q \in Inserters : LockedPages(q)' = IF q = p THEN LockedPages(q) \cup {g}
                                                     ELSE LockedPages(q)
  OBVIOUS
<1>3. page_locks' = (UNION {LockedPages(q)' : q \in Inserters})
                      \cup (UNION {bg_tasks'[k] : k \in 1 .. Len(bg_tasks')}) \cup bg_task'
  <2>1. UNION {LockedPages(q)' : q \in Inserters}
          = (UNION {LockedPages(q) : q \in Inserters}) \cup {g}
    BY <1>2
  <2> QED BY ONLY <2>1, PageWritesExclusive, UNCHANGED <<bg_tasks, bg_task>>,
                  page_locks' = page_locks \cup {g} DEF PageWritesExclusive
<1> QED BY <1>1, <1>2, <1>3 DEF PageWritesExclusive

(* The hand-over: the locks of an inserter become those of its task.       *)
LEMMA PagesHandedOver ==
  ASSUME PageWritesExclusive, TasksOK, NEW p \in Inserters, LockedPages(p) \in SUBSET Pages,
         bg_tasks' = Append(bg_tasks, LockedPages(p)), UNCHANGED <<page_locks, bg_task>>,
         LockedPages(p)' = {},
         \A q \in Inserters \ {p} : LockedPages(q)' = LockedPages(q)
  PROVE  PageWritesExclusive'
<1> DEFINE n == Len(bg_tasks)
<1>1. /\ n \in Nat /\ Len(bg_tasks') = n + 1 /\ bg_tasks'[n + 1] = LockedPages(p)
      /\ \A k \in 1 .. n : bg_tasks'[k] = bg_tasks[k]
  BY QueueStep DEF TasksOK
<1>2. \A q \in Inserters : LockedPages(q)' = IF q = p THEN {} ELSE LockedPages(q)
  OBVIOUS
<1>3. page_locks' = (UNION {LockedPages(q)' : q \in Inserters})
                      \cup (UNION {bg_tasks'[k] : k \in 1 .. Len(bg_tasks')}) \cup bg_task'
  <2>1. (UNION {LockedPages(q)' : q \in Inserters}) \cup LockedPages(p)
          = UNION {LockedPages(q) : q \in Inserters}
    BY <1>2
  <2>2. UNION {bg_tasks'[k] : k \in 1 .. Len(bg_tasks')}
          = (UNION {bg_tasks[k] : k \in 1 .. n}) \cup LockedPages(p)
    BY <1>1
  <2> QED BY ONLY <2>1, <2>2, PageWritesExclusive, UNCHANGED <<page_locks, bg_task>>
          DEF PageWritesExclusive
<1>4. \A k \in 1 .. n + 1 : k = n + 1 \/ k \in 1 .. n
  BY <1>1
<1> QED BY <1>1, <1>2, <1>3, <1>4 DEF PageWritesExclusive

(* A page is locked from the first lock_page to the end of the write, by   *)
(* one inserter or task.                                                   *)
LEMMA PagesStep ==
  ASSUME Shape, TodoOK, TasksOK, PageWritesExclusive, [Next]_vars
  PROVE  PageWritesExclusive'
<1>1. ASSUME NEW p \in Inserters, Begin(p) \/ Step(p)
      PROVE  PageWritesExclusive'
  <2>1. CASE LockedPages(p)' = LockedPages(p) /\ UNCHANGED <<page_locks, bg_tasks>>
    <3>1. \A q \in Inserters : LockedPages(q)' = LockedPages(q)
      BY <1>1, <2>1, PageStepCases
    <3>2. UNCHANGED <<page_locks, bg_tasks, bg_task>>
      BY <1>1, <2>1, PageStepCases
    <3> QED BY ONLY <3>1, <3>2, PageWritesExclusive DEF PageWritesExclusive
  <2>2. CASE \E g : /\ g \notin page_locks /\ page_locks' = page_locks \cup {g}
                    /\ LockedPages(p)' = LockedPages(p) \cup {g}
                    /\ UNCHANGED bg_tasks
    BY <1>1, <2>2, PageStepCases, PageLocked
  <2>3. CASE /\ LockedPages(p)' = {} /\ at[p] = "push"
             /\ bg_tasks' = Append(bg_tasks, LockedPages(p))
             /\ UNCHANGED page_locks
    <3>1. LockedPages(p) \in SUBSET Pages
      BY <2>3 DEF TodoOK, LockedPages, Writing
    <3> QED BY <1>1, <2>3, <3>1, PageStepCases, PagesHandedOver
  <2> QED BY <1>1, <2>1, <2>2, <2>3, PageStepCases
<1>2. ASSUME UNCHANGED <<at, todo, locs>>
      PROVE  \A q \in Inserters : LockedPages(q)' = LockedPages(q)
  BY <1>2 DEF LockedPages, WritePages
<1>3. CASE BgPop
  <2> DEFINE n == Len(bg_tasks)
  <2>1. /\ n \in Nat /\ n > 0 /\ Len(bg_tasks') = n - 1 /\ bg_task = {}
        /\ bg_task' = bg_tasks[1] /\ \A k \in 1 .. n - 1 : bg_tasks'[k] = bg_tasks[k + 1]
    BY <1>3, QueueStep DEF BgPop, TasksOK
  <2>2. (UNION {bg_tasks'[k] : k \in 1 .. Len(bg_tasks')}) \cup bg_task'
          = UNION {bg_tasks[k] : k \in 1 .. n}
    <3>1. \A k \in 1 .. n : k = 1 \/ (k - 1 \in 1 .. n - 1 /\ bg_tasks[k] = bg_tasks'[k - 1])
      BY ONLY <2>1
    <3>2. \A k \in 1 .. n - 1 : k + 1 \in 1 .. n /\ 1 \in 1 .. n
      BY ONLY <2>1
    <3>3. \A x \in (UNION {bg_tasks'[k] : k \in 1 .. n - 1}) \cup bg_task' :
            \E k \in 1 .. n : x \in bg_tasks[k]
      BY ONLY <2>1, <3>2
    <3>4. \A k \in 1 .. n : \A x \in bg_tasks[k] :
            x \in (UNION {bg_tasks'[j] : j \in 1 .. n - 1}) \cup bg_task'
      BY ONLY <2>1, <3>1
    <3> QED BY ONLY <2>1, <3>3, <3>4
  <2>3. \A q \in Inserters : LockedPages(q)' = LockedPages(q)
    BY <1>2, <1>3 DEF BgPop, locals
  <2>4. page_locks' = (UNION {LockedPages(q)' : q \in Inserters})
                       \cup (UNION {bg_tasks'[k] : k \in 1 .. Len(bg_tasks')}) \cup bg_task'
    <3>1. page_locks' = page_locks
      BY <1>3 DEF BgPop, locks
    <3>2. UNION {LockedPages(q)' : q \in Inserters} = UNION {LockedPages(q) : q \in Inserters}
      BY <2>3
    <3> QED BY ONLY <2>1, <2>2, <3>1, <3>2, PageWritesExclusive DEF PageWritesExclusive
  <2>5. \A k \in 1 .. n - 1 : k + 1 \in 1 .. n /\ k + 1 # 1 /\ 1 \in 1 .. n
    BY ONLY <2>1
  <2>6. \A j, k \in 1 .. n - 1 : j # k => bg_tasks'[j] \cap bg_tasks'[k] = {}
    <3>1. \A j, k \in 1 .. n - 1 : j # k => j + 1 # k + 1
      BY ONLY <2>1
    <3> QED BY ONLY <2>1, <2>5, <3>1, PageWritesExclusive DEF PageWritesExclusive
  <2> QED BY ONLY <2>1, <2>3, <2>4, <2>5, <2>6, PageWritesExclusive DEF PageWritesExclusive
<1>4. CASE BgFinish
  <2>1. \A q \in Inserters : LockedPages(q)' = LockedPages(q)
    BY <1>2, <1>4 DEF BgFinish, locals
  <2>2. page_locks' = page_locks \ bg_task /\ bg_task' = {} /\ bg_tasks' = bg_tasks
    BY <1>4 DEF BgFinish
  <2>3. page_locks' = (UNION {LockedPages(q)' : q \in Inserters})
                       \cup (UNION {bg_tasks'[k] : k \in 1 .. Len(bg_tasks')}) \cup bg_task'
    <3>1. UNION {LockedPages(q)' : q \in Inserters} = UNION {LockedPages(q) : q \in Inserters}
      BY <2>1
    <3>2. (UNION {LockedPages(q) : q \in Inserters}) \cap bg_task = {}
          /\ (UNION {bg_tasks[k] : k \in 1 .. Len(bg_tasks)}) \cap bg_task = {}
      BY DEF PageWritesExclusive
    <3> QED BY ONLY <2>2, <3>1, <3>2, PageWritesExclusive DEF PageWritesExclusive
  <2> QED BY ONLY <2>1, <2>2, <2>3, PageWritesExclusive DEF PageWritesExclusive
<1>5. CASE UNCHANGED vars
  <2>1. \A q \in Inserters : LockedPages(q)' = LockedPages(q)
    BY <1>2, <1>5 DEF vars, locals
  <2> QED BY ONLY <1>5, <2>1, PageWritesExclusive DEF PageWritesExclusive, vars, locks, bg
<1> QED BY <1>1, <1>3, <1>4, <1>5 DEF Next

-----------------------------------------------------------------------------
(* The readers.                                                            *)

(* An id that a search reads is one it may see, and nobody moves it.       *)
ReadersOK ==
  /\ PerInserter(reading)
  /\ \A p \in Inserters : reading[p] # -1 =>
       reading[p] \in LT!Visible /\ \A q \in Inserters : reading[p] \notin IdxHeld(q)

(* Write locks are only added key by key, when no reader has the key.      *)
LEMMA IdxHeldStep ==
  ASSUME Shape, NEW p \in Inserters, Begin(p) \/ Step(p)
  PROVE  /\ \A q \in Inserters \ {p} : IdxHeld(q)' = IdxHeld(q)
         /\ \/ IdxHeld(p)' \subseteq IdxHeld(p)
            \/ \E i : /\ IdxHeld(p)' \subseteq IdxHeld(p) \cup {i}
                      /\ reading' = reading /\ \A q \in Inserters : reading[q] # i
<1> USE DEF Shape, PerInserter, tables, locals, locks, bg
<1>1. \A q \in Inserters \ {p} : IdxHeld(q)' = IdxHeld(q)
  BY OthersUnchanged DEF IdxHeld, MyIds
<1>2. CASE LockIdx(p)
  BY <1>1, <1>2 DEF LockIdx, IdxHeld, MyIds
<1>3. ASSUME MoveIds(p) \/ SetTarget(p) \/ EraseAndSetLoc(p)
      PROVE  IdxHeld(p)' \subseteq IdxHeld(p)
  <2> USE DEF IdxHeld, MyIds
  <2>1. CASE MoveIds(p)
    BY <2>1 DEF MoveIds
  <2>2. CASE SetTarget(p)
    BY <2>2 DEF SetTarget
  <2>3. CASE EraseAndSetLoc(p)
    BY <2>3 DEF EraseAndSetLoc
  <2> QED BY <1>3, <2>1, <2>2, <2>3
<1>4. ASSUME ~LockIdx(p), ~MoveIds(p), ~SetTarget(p), ~EraseAndSetLoc(p)
      PROVE  IdxHeld(p)' = {}
  <2>1. CASE LockPage(p) \/ LockVec(p)
    BY <2>1 DEF LockPage, LockVec, IdxHeld
  <2> QED BY <1>4, <2>1 DEF Step, Begin, BeginSearch, EndVisit, Visit, AllocLoc,
        ReadPages, UnlockVec, UnlockTarget, PushTask, IdxHeld
<1> QED BY <1>1, <1>2, <1>3, <1>4

(* What a step does to the readers.                                        *)
LEMMA ReadingStep ==
  ASSUME Shape, PerInserter(reading), [Next]_vars
  PROVE  /\ PerInserter(reading)'
         /\ \A q \in Inserters :
              \/ reading'[q] = reading[q] \/ reading'[q] = -1
              \/ /\ reading'[q] \in LT!Visible /\ reading'[q] \notin idx_locks
                 /\ UNCHANGED idx_locks
<1> USE DEF PerInserter, locks
<1>1. ASSUME NEW p \in Inserters, NEW i \in Ids, Visit(p, i)
      PROVE  /\ reading' = [reading EXCEPT ![p] = i] /\ i \in LT!Visible
             /\ i \notin idx_locks /\ UNCHANGED idx_locks
  BY <1>1 DEF Visit
<1>2. ASSUME NEW p \in Inserters, EndVisit(p)
      PROVE  reading' = [reading EXCEPT ![p] = -1]
  BY <1>2 DEF EndVisit
<1>3. \/ UNCHANGED reading
      \/ \E p \in Inserters : EndVisit(p) \/ \E i \in Ids : Visit(p, i)
  BY DEF Next, Step, vars, Begin, BeginSearch, AllocLoc, LockPage, LockVec, ReadPages,
         SetTarget, LockIdx, MoveIds, EraseAndSetLoc, UnlockVec, UnlockTarget, PushTask,
         BgPop, BgFinish
<1> QED BY ONLY <1>1, <1>2, <1>3, PerInserter(reading) DEF PerInserter

(* A reader keeps its id: what a search may visit only grows, and no id is *)
(* locked exclusively while it is read.                                    *)
LEMMA ReadersOKStep ==
  ASSUME Shape, Owners, P!IInv, ReadersOK, [Next]_vars
  PROVE  ReadersOK'
<1>1. LT!Visible \subseteq LT!Visible'
  <2>1. [P!Next]_(P!vars)
    BY RefinementStep, SameNext
  <2>2. P!Visible \subseteq P!Visible'
    BY <2>1, DirectInsertAssumption, P!VisibleGrows
  <2>3. LT!Visible' = P!Visible'
    BY DEF LT!Visible, P!Visible, LT!Unlinked, P!Unlinked
  <2> QED BY <2>2, <2>3, SameVisible
<1>2. ASSUME NEW p \in Inserters, reading'[p] # -1, NEW q \in Inserters
      PROVE  reading'[p] \notin IdxHeld(q)'
  <2>1. CASE reading'[p] = reading[p]
    <3>1. reading[p] \notin IdxHeld(q)
      BY <1>2, <2>1 DEF ReadersOK
    <3>2. CASE UNCHANGED <<at, todo, target, nbrs>>
      BY <2>1, <3>1, <3>2 DEF IdxHeld, MyIds
    <3>3. ASSUME NEW r \in Inserters, Begin(r) \/ Step(r)
          PROVE  reading[p] \notin IdxHeld(q)'
      BY <3>1, <3>3, IdxHeldStep
    <3> QED BY <2>1, <3>2, <3>3 DEF Next, BgPop, BgFinish, vars, locals
  <2>2. CASE reading'[p] \notin idx_locks /\ UNCHANGED idx_locks
    BY <2>2, OwnersStep DEF Owners
  <2> QED BY <1>2, <2>1, <2>2, ReadingStep DEF ReadersOK
<1> QED BY <1>1, <1>2, ReadingStep DEF ReadersOK

(* A page that is read under the read lock of an id is still the id's.     *)
LEMMA ReadersSafe ==
  ASSUME Shape, Owners, P!IInv, ReadersOK
  PROVE  ReaderSeesItsRecord
<1> SUFFICES ASSUME NEW p \in Inserters, reading[p] # -1
             PROVE  loc2id[id2loc[reading[p]]] = reading[p]
  BY DEF ReaderSeesItsRecord
<1>1. reading[p] \in P!Visible
  BY SameVisible DEF ReadersOK
<1>2. ASSUME NEW q \in Inserters, PcBar[q] = "erase"
      PROVE  reading[p] \notin P!MyIds(q)
  <2>1. at[q] = "erase"
    BY <1>2, PcBarIs, PlaceBarValues DEF Shape, Stages
  <2>2. P!MyIds(q) = MyIds(q) /\ IdxHeld(q) = MyIds(q)
    BY <2>1 DEF P!MyIds, MyIds, Bar, Over, IdxHeld
  <2> QED BY <2>2 DEF ReadersOK
<1>3. reading[p] \in P!Settled
  BY <1>1, <1>2 DEF P!Settled
<1> QED BY <1>3 DEF P!IInv, P!MappingConsistent

-----------------------------------------------------------------------------
(* The vector and index locks.                                             *)

(* The ids whose lock in vec_lock_table an inserter has taken, until its   *)
(* first unlock.                                                           *)
VecHeld(p) ==
  IF at[p] = "lockvec" THEN MyIds(p) \ todo[p]
  ELSE IF at[p] \in {"read", "update", "lockidx", "move", "erase", "unlockvec"} THEN MyIds(p)
  ELSE {}

(* No lock without a holder.  (A holder may lose its lock in vec_lock_table*)
(* to the second unlock of another's target.)                              *)
LocksOwned ==
  /\ \A i \in vec_locks : i \in Ids /\ \E p \in Inserters : i \in VecHeld(p)
  /\ \A i \in idx_locks : i \in Ids /\ \E p \in Inserters : i \in IdxHeld(p)

(* The next key that an inserter waits for is one of its ids.              *)
LEMMA NextIdToLock ==
  ASSUME Shape, P!IInv, TodoOK, NEW p \in Inserters, at[p] \in {"lockvec", "lockidx"}
  PROVE  /\ Least(todo[p]) \in todo[p] /\ Least(todo[p]) \in MyIds(p)
         /\ Least(todo[p]) \in Ids /\ todo[p] \subseteq MyIds(p)
<1>1. MyIds(p) \subseteq Ids
  BY OwnIds DEF OwnIdsOK, Over
<1>2. Ids \subseteq Nat
  BY DirectInsertAssumption DEF Ids, LT!Ids
<1>3. todo[p] # {} /\ todo[p] \subseteq MyIds(p)
  BY DEF TodoOK
<1> QED BY <1>1, <1>2, <1>3, LeastIn

(* What one inserter's step does to the locks on vectors and ids.          *)
LEMMA LocksStep ==
  ASSUME Shape, P!IInv, TodoOK, NEW p \in Inserters, Begin(p) \/ Step(p)
  PROVE  /\ \A i \in vec_locks' : \/ i \in Ids /\ i \in VecHeld(p)'
                                  \/ i \in vec_locks /\ (i \in VecHeld(p) => i \in VecHeld(p)')
         /\ \A i \in idx_locks' : \/ i \in Ids /\ i \in IdxHeld(p)'
                                  \/ i \in idx_locks /\ (i \in IdxHeld(p) => i \in IdxHeld(p)')
<1> DEFINE VecOK == \A i \in vec_locks' :
                      \/ i \in Ids /\ i \in VecHeld(p)'
                      \/ i \in vec_locks /\ (i \in VecHeld(p) => i \in VecHeld(p)')
           IdxOK == \A i \in idx_locks' :
                      \/ i \in Ids /\ i \in IdxHeld(p)'
                      \/ i \in idx_locks /\ (i \in IdxHeld(p) => i \in IdxHeld(p)')
<1>0. /\ vec_locks' \subseteq vec_locks /\ VecHeld(p) \subseteq VecHeld(p)' => VecOK
      /\ vec_locks' \cap VecHeld(p) = {} /\ vec_locks' \subseteq vec_locks => VecOK
      /\ idx_locks' \subseteq idx_locks /\ IdxHeld(p) \subseteq IdxHeld(p)' => IdxOK
      /\ idx_locks' \cap IdxHeld(p) = {} /\ idx_locks' \subseteq idx_locks => IdxOK
      /\ \A i \in Ids : /\ i \in VecHeld(p)' /\ VecHeld(p) \subseteq VecHeld(p)'
                       /\ vec_locks' = vec_locks \cup {i} => VecOK
      /\ \A i \in Ids : /\ i \in IdxHeld(p)' /\ IdxHeld(p) \subseteq IdxHeld(p)'
                       /\ idx_locks' = idx_locks \cup {i} => IdxOK
  OBVIOUS
<1> SUFFICES VecOK /\ IdxOK
  OBVIOUS
<1> HIDE DEF VecOK, IdxOK
<1> USE DEF Shape, PerInserter
<1>1. CASE LockVec(p)
  <2> DEFINE i == Least(todo[p])
  <2>1. /\ i \in todo[p] /\ i \in MyIds(p) /\ i \in Ids /\ at[p] = "lockvec"
        /\ todo[p] \subseteq MyIds(p)
    BY <1>1, NextIdToLock DEF LockVec
  <2>2. /\ vec_locks' = vec_locks \cup {i} /\ idx_locks' = idx_locks
        /\ todo'[p] = todo[p] \ {i} /\ at'[p] \in {"lockvec", "read"}
        /\ MyIds(p)' = MyIds(p)
    BY <1>1, <2>1 DEF LockVec, locals, MyIds
  <2> HIDE DEF i
  <2>3. VecHeld(p) = MyIds(p) \ todo[p] /\ IdxHeld(p) = {}
    BY ONLY <2>1 DEF VecHeld, IdxHeld
  <2>4. VecHeld(p)' = MyIds(p) \/ VecHeld(p)' = MyIds(p) \ (todo[p] \ {i})
    BY ONLY <2>2 DEF VecHeld
  <2> QED BY ONLY <1>0, <2>1, <2>2, <2>3, <2>4 DEF VecOK, IdxOK
<1>2. CASE LockIdx(p)
  <2> DEFINE i == Least(todo[p])
  <2>1. /\ i \in todo[p] /\ i \in MyIds(p) /\ i \in Ids /\ at[p] = "lockidx"
        /\ todo[p] \subseteq MyIds(p)
    BY <1>2, NextIdToLock DEF LockIdx
  <2>2. /\ idx_locks' = idx_locks \cup {i} /\ vec_locks' = vec_locks
        /\ todo'[p] = todo[p] \ {i} /\ at'[p] \in {"lockidx", "move"}
        /\ MyIds(p)' = MyIds(p)
    BY <1>2, <2>1 DEF LockIdx, locals, MyIds
  <2> HIDE DEF i
  <2>3. IdxHeld(p) = MyIds(p) \ todo[p] /\ VecHeld(p) = MyIds(p)
    BY ONLY <2>1 DEF VecHeld, IdxHeld
  <2>4. IdxHeld(p)' = MyIds(p) \/ IdxHeld(p)' = MyIds(p) \ (todo[p] \ {i})
    BY ONLY <2>2 DEF IdxHeld
  <2>5. VecHeld(p)' = MyIds(p)
    BY ONLY <2>2 DEF VecHeld
  <2> QED BY ONLY <1>0, <2>1, <2>2, <2>3, <2>4, <2>5
<1>3. CASE SetTarget(p) \/ MoveIds(p) \/ ReadPages(p)
  <2>1. /\ UNCHANGED <<vec_locks, idx_locks>> /\ MyIds(p)' = MyIds(p)
        /\ \/ at[p] \in {"read", "update"} /\ at'[p] \in {"update", "lockidx"}
           \/ at[p] = "move" /\ at'[p] = "erase"
    BY <1>3 DEF SetTarget, MoveIds, ReadPages, locals, locks, MyIds
  <2>2. VecHeld(p)' = VecHeld(p)
    BY ONLY <2>1 DEF VecHeld
  <2>3. IdxHeld(p) \subseteq IdxHeld(p)'
    BY ONLY <2>1 DEF IdxHeld
  <2> QED BY ONLY <1>0, <2>1, <2>2, <2>3
<1>4. CASE EraseAndSetLoc(p)
  <2>1. /\ at[p] = "erase" /\ at'[p] = "unlockvec" /\ MyIds(p)' = MyIds(p)
        /\ vec_locks' = vec_locks /\ idx_locks' = idx_locks \ MyIds(p)
    BY <1>4 DEF EraseAndSetLoc, locals, MyIds
  <2>2. VecHeld(p)' = VecHeld(p) /\ IdxHeld(p) = MyIds(p)
    BY ONLY <2>1 DEF VecHeld, IdxHeld
  <2> QED BY ONLY <1>0, <2>1, <2>2
<1>5. CASE UnlockVec(p)
  <2>1. /\ at[p] = "unlockvec" /\ vec_locks' = vec_locks \ MyIds(p)
        /\ idx_locks' = idx_locks
    BY <1>5 DEF UnlockVec
  <2>2. VecHeld(p) = MyIds(p) /\ IdxHeld(p) = {}
    BY ONLY <2>1 DEF VecHeld, IdxHeld
  <2> QED BY ONLY <1>0, <2>1, <2>2
<1>6. CASE \/ Begin(p) \/ BeginSearch(p) \/ EndVisit(p) \/ PushTask(p) \/ UnlockTarget(p)
           \/ LockPage(p) \/ (\E i \in Ids : Visit(p, i))
           \/ (\E keep \in SUBSET nbrs[p] : AllocLoc(p, keep))
  <2>1. /\ at[p] \in {"idle", "begin", "search", "reading", "lockpage", "push", "unlocktarget"}
        /\ vec_locks' \subseteq vec_locks /\ UNCHANGED idx_locks
    BY <1>6 DEF Begin, BeginSearch, EndVisit, PushTask, UnlockTarget, LockPage, Visit,
                AllocLoc, locks
  <2>2. VecHeld(p) = {} /\ IdxHeld(p) = {}
    BY ONLY <2>1 DEF VecHeld, IdxHeld
  <2> QED BY ONLY <1>0, <2>1, <2>2
<1> QED
  BY ONLY Begin(p) \/ Step(p), <1>1, <1>2, <1>3, <1>4, <1>5, <1>6 DEF Step

(* Every lock keeps a holder.                                              *)
LEMMA LocksOwnedStep ==
  ASSUME Shape, P!IInv, TodoOK, LocksOwned, [Next]_vars
  PROVE  LocksOwned'
<1>0. Ids' = Ids
  BY DEF Ids, LT!Ids
<1>1. ASSUME NEW p \in Inserters, Begin(p) \/ Step(p)
      PROVE  LocksOwned'
  <2>1. \A q \in Inserters \ {p} : VecHeld(q)' = VecHeld(q) /\ IdxHeld(q)' = IdxHeld(q)
    BY <1>1, OthersUnchanged DEF VecHeld, IdxHeld, MyIds
  <2>2. \A i \in vec_locks' : i \in Ids /\ \E q \in Inserters : i \in VecHeld(q)'
    BY <1>1, <2>1, LocksStep DEF LocksOwned
  <2>3. \A i \in idx_locks' : i \in Ids /\ \E q \in Inserters : i \in IdxHeld(q)'
    BY <1>1, <2>1, LocksStep DEF LocksOwned
  <2> QED BY ONLY <1>0, <2>2, <2>3 DEF LocksOwned
<1>2. CASE UNCHANGED <<at, todo, locals, vec_locks, idx_locks>>
  <2>1. \A q \in Inserters : VecHeld(q)' = VecHeld(q) /\ IdxHeld(q)' = IdxHeld(q)
    BY <1>2 DEF VecHeld, IdxHeld, MyIds, locals
  <2> QED BY <1>0, <1>2, <2>1 DEF LocksOwned
<1> QED BY <1>1, <1>2 DEF Next, BgPop, BgFinish, vars, locks

-----------------------------------------------------------------------------
(* The query buffers.                                                      *)

(* Every insert has a buffer, which its task inherits, and every search    *)
(* a second one.                                                           *)
Inserting == {p \in Inserters : at[p] # "idle"}
Searching == {p \in Inserters : at[p] \in {"search", "reading"}}
Writes == Len(bg_tasks) + (IF bg_task = {} THEN 0 ELSE 1)

BuffersOK ==
  /\ IsFiniteSet(Inserting) /\ IsFiniteSet(Searching)
  /\ thread_data_queue \in Nat
  /\ thread_data_queue + Cardinality(Inserting) + Cardinality(Searching) + Writes = NBufs

(* No step loses or invents a buffer.                                      *)
LEMMA BuffersOKStep ==
  ASSUME Shape, TodoOK, TasksOK, BuffersOK, [Next]_vars
  PROVE  BuffersOK'
<1>0. /\ Len(bg_tasks) \in Nat /\ Writes \in Nat
      /\ Cardinality(Inserting) \in Nat /\ Cardinality(Searching) \in Nat
  BY QueueStep, FS_CardinalityType DEF TasksOK, Writes, BuffersOK
<1>1. ASSUME NEW p \in Inserters, Begin(p)
      PROVE  BuffersOK'
  <2>1. /\ at[p] = "idle" /\ at' = [at EXCEPT ![p] = "begin"] /\ UNCHANGED bg
        /\ thread_data_queue' = thread_data_queue - 1 /\ thread_data_queue > 0
    BY <1>1 DEF Begin
  <2>2. /\ Inserting' = Inserting \cup {p} /\ p \notin Inserting
        /\ Searching' = Searching \ {p} /\ p \notin Searching
    BY ONLY <2>1, Shape, p \in Inserters DEF Shape, Inserting, Searching
  <2>3. Searching' = Searching /\ Writes' = Writes
    BY <2>1, <2>2 DEF Writes, bg
  <2>4. IsFiniteSet(Inserting') /\ Cardinality(Inserting') = Cardinality(Inserting) + 1
    BY <2>2, FS_AddElement DEF BuffersOK
  <2> QED BY ONLY <1>0, <2>1, <2>3, <2>4, BuffersOK DEF BuffersOK
<1>2. ASSUME NEW p \in Inserters, BeginSearch(p)
      PROVE  BuffersOK'
  <2>1. /\ at[p] = "begin" /\ at' = [at EXCEPT ![p] = "search"] /\ UNCHANGED bg
        /\ thread_data_queue' = thread_data_queue - 1 /\ thread_data_queue > 0
    BY <1>2 DEF BeginSearch
  <2>2. /\ Searching' = Searching \cup {p} /\ p \notin Searching
        /\ Inserting' = Inserting \cup {p} /\ p \in Inserting
    BY ONLY <2>1, Shape, p \in Inserters DEF Shape, Inserting, Searching
  <2>3. Inserting' = Inserting /\ Writes' = Writes
    BY <2>1, <2>2 DEF Writes, bg
  <2>4. IsFiniteSet(Searching') /\ Cardinality(Searching') = Cardinality(Searching) + 1
    BY <2>2, FS_AddElement DEF BuffersOK
  <2> QED BY ONLY <1>0, <2>1, <2>3, <2>4, BuffersOK DEF BuffersOK
<1>3. ASSUME NEW p \in Inserters, NEW keep, AllocLoc(p, keep)
      PROVE  BuffersOK'
  <2>1. /\ at[p] = "search" /\ at' = [at EXCEPT ![p] = "lockpage"] /\ UNCHANGED bg
        /\ thread_data_queue' = thread_data_queue + 1
    BY <1>3 DEF AllocLoc
  <2>2. /\ Searching' = Searching \ {p} /\ p \in Searching
        /\ Inserting' = Inserting \cup {p} /\ p \in Inserting
    BY ONLY <2>1, Shape, p \in Inserters DEF Shape, Inserting, Searching
  <2>3. Inserting' = Inserting /\ Writes' = Writes
    BY <2>1, <2>2 DEF Writes, bg
  <2>4. IsFiniteSet(Searching') /\ Cardinality(Searching') = Cardinality(Searching) - 1
    BY <2>2, FS_RemoveElement DEF BuffersOK
  <2> QED BY ONLY <1>0, <2>1, <2>3, <2>4, BuffersOK DEF BuffersOK
<1>4. ASSUME NEW p \in Inserters, PushTask(p)
      PROVE  BuffersOK'
  <2>1. /\ at[p] = "push" /\ at' = [at EXCEPT ![p] = "idle"]
        /\ bg_tasks' = Append(bg_tasks, WritePages(p))
        /\ UNCHANGED <<bg_task, thread_data_queue>>
    BY <1>4 DEF PushTask
  <2>2. /\ Inserting' = Inserting \ {p} /\ p \in Inserting
        /\ Searching' = Searching \ {p} /\ p \notin Searching
    BY ONLY <2>1, Shape, p \in Inserters DEF Shape, Inserting, Searching
  <2>3. Searching' = Searching /\ Writes' = Writes + 1
    <3>1. WritePages(p) \in SUBSET Pages
      BY <2>1 DEF TodoOK, Writing
    <3>2. Len(bg_tasks') = Len(bg_tasks) + 1
      BY <2>1, <3>1, QueueStep DEF TasksOK
    <3> QED BY <1>0, <2>1, <2>2, <3>2 DEF Writes
  <2>4. IsFiniteSet(Inserting') /\ Cardinality(Inserting') = Cardinality(Inserting) - 1
    BY <2>2, FS_RemoveElement DEF BuffersOK
  <2>5. thread_data_queue' = thread_data_queue
    BY <2>1
  <2>6. IsFiniteSet(Searching') /\ Cardinality(Searching') = Cardinality(Searching)
    BY <2>3 DEF BuffersOK
  <2>7. \A t, i, j, w \in Nat : t + (i - 1) + j + (w + 1) = t + i + j + w
    OBVIOUS
  <2> QED BY ONLY <1>0, <2>3, <2>4, <2>5, <2>6, <2>7, BuffersOK DEF BuffersOK
<1>5. ASSUME NEW p \in Inserters, Step(p), ~BeginSearch(p), ~PushTask(p),
             \A keep \in SUBSET nbrs[p] : ~AllocLoc(p, keep)
      PROVE  BuffersOK'
  <2>1. /\ UNCHANGED <<bg_tasks, bg_task, thread_data_queue>>
        /\ \/ UNCHANGED at
           \/ \E x : /\ at' = [at EXCEPT ![p] = x] /\ at[p] # "idle" /\ x # "idle"
                     /\ at[p] \in {"search", "reading"} <=> x \in {"search", "reading"}
    <3>1. CASE LockPage(p) \/ LockVec(p) \/ LockIdx(p)
      BY <3>1 DEF LockPage, LockVec, LockIdx, bg
    <3>2. CASE (\E i \in Ids : Visit(p, i)) \/ EndVisit(p)
      BY <3>2 DEF Visit, EndVisit, bg
    <3>3. CASE ReadPages(p) \/ SetTarget(p) \/ MoveIds(p)
      BY <3>3 DEF ReadPages, SetTarget, MoveIds, bg
    <3>4. CASE EraseAndSetLoc(p) \/ UnlockVec(p) \/ UnlockTarget(p)
      BY <3>4 DEF EraseAndSetLoc, UnlockVec, UnlockTarget, bg
    <3> QED BY ONLY <1>5, <3>1, <3>2, <3>3, <3>4 DEF Step
  <2>2. Inserting' = Inserting /\ Searching' = Searching
    <3>1. CASE UNCHANGED at
      BY <3>1 DEF Inserting, Searching
    <3>2. ASSUME NEW x, at' = [at EXCEPT ![p] = x], at[p] # "idle", x # "idle",
                 at[p] \in {"search", "reading"} <=> x \in {"search", "reading"}
          PROVE  Inserting' = Inserting /\ Searching' = Searching
      BY ONLY <3>2, Shape, p \in Inserters DEF Shape, Inserting, Searching
    <3> QED BY <2>1, <3>1, <3>2
  <2>3. Writes' = Writes
    BY <2>1 DEF Writes
  <2> QED BY <2>1, <2>2, <2>3 DEF BuffersOK
<1>6. CASE BgPop \/ BgFinish \/ UNCHANGED vars
  <2>1. Inserting' = Inserting /\ Searching' = Searching
    BY <1>6 DEF BgPop, BgFinish, vars, Inserting, Searching
  <2>2. CASE BgPop
    <3>1. /\ bg_tasks \in Seq(SUBSET Pages) /\ bg_tasks # <<>>
          /\ \A k \in 1 .. Len(bg_tasks) : bg_tasks[k] # {}
          /\ bg_task = {} /\ bg_task' = Head(bg_tasks) /\ bg_tasks' = Tail(bg_tasks)
          /\ thread_data_queue' = thread_data_queue
      BY <2>2 DEF BgPop, TasksOK
    <3>2. bg_task' # {} /\ Len(bg_tasks') = Len(bg_tasks) - 1
      BY ONLY <3>1, QueueStep
    <3>3. bg_task = {} /\ Len(bg_tasks) \in Nat
      BY <1>0, <3>1
    <3>4. Writes' = Writes
      BY ONLY <3>2, <3>3 DEF Writes
    <3>5. thread_data_queue' = thread_data_queue
      BY <3>1
    <3> QED BY ONLY <2>1, <3>4, <3>5, BuffersOK DEF BuffersOK
  <2>3. CASE BgFinish
    <3>1. Writes' = Writes - 1
      BY <1>0, <2>3 DEF BgFinish, Writes
    <3> QED BY <1>0, <2>1, <2>3, <3>1 DEF BgFinish, BuffersOK
  <2>4. CASE UNCHANGED vars
    BY <2>1, <2>4 DEF vars, bg, Writes, BuffersOK
  <2> QED BY <1>6, <2>2, <2>3, <2>4
<1> QED BY <1>1, <1>2, <1>3, <1>4, <1>5, <1>6 DEF Next, Step

-----------------------------------------------------------------------------
(* The invariant of this module, and what follows from it.                 *)

TodoType == \A p \in Inserters : todo[p] \subseteq Ids \cup Pages

(* What is still to be locked stays among the ids and pages.               *)
LEMMA TodoTypeStep ==
  ASSUME Shape, P!IInv, (Shape /\ P!IInv)', TodoOK, TodoType, [Next]_vars
  PROVE  TodoType'
<1>0. Ids' = Ids /\ Pages' = Pages
  BY DEF Ids, LT!Ids, Pages, LT!Pages, LT!PageOf, LT!Locs
<1>1. ASSUME NEW p \in Inserters, Begin(p) \/ Step(p)
      PROVE  TodoType'
  <2>1. \A q \in Inserters \ {p} : todo'[q] = todo[q]
    BY <1>1, OthersUnchanged
  <2>2. todo'[p] \subseteq Ids \cup Pages
    <3> USE DEF Shape, PerInserter
    <3>1. ASSUME NEW keep \in SUBSET nbrs[p], AllocLoc(p, keep)
          PROVE  todo'[p] \subseteq Ids \cup Pages
      <4>1. todo'[p] = WritePages(p)' /\ at'[p] = "lockpage"
        BY <3>1, AllocLocPages DEF AllocLoc
      <4> QED BY <1>0, <4>1, OwnIdsNext DEF OwnIdsOK
    <3>2. CASE LockPage(p) \/ SetTarget(p)
      <4>1. todo'[p] = MyIds(p) \/ todo'[p] \subseteq todo[p]
        BY <3>2 DEF LockPage, SetTarget
      <4>2. MyIds(p) \subseteq Ids
        BY <3>2, OwnIds DEF OwnIdsOK, Over, LockPage, SetTarget
      <4> QED BY <4>1, <4>2 DEF TodoType
    <3>3. CASE LockVec(p) \/ LockIdx(p)
      BY <3>3 DEF LockVec, LockIdx, TodoType
    <3>4. ASSUME ~LockVec(p), ~LockIdx(p), ~LockPage(p), ~SetTarget(p),
                 \A keep \in SUBSET nbrs[p] : ~AllocLoc(p, keep)
          PROVE  UNCHANGED todo
      BY <1>1, <3>4 DEF Step, Begin, BeginSearch, EndVisit, Visit, ReadPages, MoveIds,
         EraseAndSetLoc, UnlockVec, UnlockTarget, PushTask
    <3> QED BY <3>1, <3>2, <3>3, <3>4 DEF TodoType
  <2> QED BY <1>0, <2>1, <2>2 DEF TodoType
<1> QED BY <1>0, <1>1 DEF Next, BgPop, BgFinish, vars, TodoType

(* The invariant: that of LocTable, seen through the refinement, with who  *)
(* owns each lock, page task and buffer.                                   *)
IInv ==
  /\ Shape /\ Owners
  /\ P!IInv
  /\ TodoOK /\ TodoType /\ TasksOK
  /\ PageWritesExclusive
  /\ ReadersOK
  /\ LocksOwned
  /\ BuffersOK

(* A loaded index: no insert has begun.                                    *)
LEMMA InitIInv == Init => TodoOK /\ TodoType /\ TasksOK /\ PageWritesExclusive
                          /\ ReadersOK /\ LocksOwned /\ BuffersOK
<1> SUFFICES ASSUME Init
             PROVE  TodoOK /\ TodoType /\ TasksOK /\ PageWritesExclusive
                    /\ ReadersOK /\ LocksOwned /\ BuffersOK
  OBVIOUS
<1> USE DEF Init
<1>1. TodoOK /\ TodoType /\ TasksOK
  BY DEF TodoOK, TodoType, TasksOK, Writing
<1>2. PageWritesExclusive
  <2>1. \A p \in Inserters : LockedPages(p) = {}
    BY DEF LockedPages
  <2> QED BY <2>1 DEF PageWritesExclusive
<1>3. ReadersOK /\ LocksOwned
  BY DEF ReadersOK, PerInserter, LocksOwned
<1>4. BuffersOK
  <2>1. Inserting = {} /\ Searching = {} /\ Writes = 0
    BY DEF Inserting, Searching, Writes
  <2> QED BY <2>1, FS_EmptySet, DirectInsertAssumption DEF BuffersOK
<1> QED BY <1>1, <1>2, <1>3, <1>4

(* The invariant holds at the start, and every step preserves it.          *)
LEMMA StepsInvariance == Steps => []IInv
<1> DEFINE J == /\ Shape /\ Owners /\ TodoOK /\ TodoType /\ TasksOK
                /\ PageWritesExclusive /\ ReadersOK /\ LocksOwned /\ BuffersOK
<1>1. Init => J
  BY RefInvInit, InitIInv
<1>2. J /\ P!IInv /\ P!IInv' /\ [Next]_vars => J'
  <2> SUFFICES ASSUME J, P!IInv, P!IInv', [Next]_vars PROVE J'
    OBVIOUS
  <2>1. Shape' /\ Owners'
    BY ShapeStep, OwnersStep
  <2>2. TodoOK' /\ TodoType'
    BY <2>1, TodoOKStep, TodoTypeStep
  <2>3. TasksOK' /\ PageWritesExclusive'
    BY TasksOKStep, PagesStep
  <2>4. ReadersOK' /\ LocksOwned' /\ BuffersOK'
    BY ReadersOKStep, LocksOwnedStep, BuffersOKStep
  <2> QED BY <2>1, <2>2, <2>3, <2>4
<1>3. J /\ P!IInv => IInv
  BY DEF IInv
<1> HIDE DEF J
<1> QED BY <1>1, <1>2, <1>3, TablesInvariant, PTL DEF Steps

(* The inductive invariant holds in every state, for any number of         *)
(* inserters and query buffers.                                            *)
THEOREM Invariance == Spec => []IInv
  BY StepsInvariance, PTL DEF Spec, Steps

(* Every variable keeps its type; in particular pop_query_buf() never      *)
(* hands out a buffer that does not exist.                                 *)
THEOREM TypeCorrect == Spec => []TypeOK
<1>1. IInv => TypeOK
  <2> SUFFICES ASSUME IInv PROVE TypeOK
    OBVIOUS
  <2>1. at \in [Inserters -> Stages] /\ todo \in [Inserters -> SUBSET (Ids \cup Pages)]
    BY DEF IInv, Shape, PerInserter, TodoType
  <2>2. reading \in [Inserters -> Ids \cup {-1}]
    <3>1. LT!Visible \subseteq Ids
      BY DirectInsertAssumption DEF IInv, P!IInv, P!TypeOK, LT!Visible, Ids, LT!Ids
    <3>2. \A p \in Inserters : reading[p] \in Ids \cup {-1}
      BY <3>1 DEF IInv, ReadersOK
    <3> QED BY <3>2 DEF IInv, ReadersOK, PerInserter
  <2>3. page_locks \subseteq Pages
    <3>1. \A p \in Inserters : LockedPages(p) \subseteq Pages
      BY DEF IInv, TodoOK, LockedPages, Writing
    <3>2. \A k \in 1 .. Len(bg_tasks) : bg_tasks[k] \subseteq Pages
      BY QueueStep DEF IInv, TasksOK
    <3>3. page_locks = (UNION {LockedPages(p) : p \in Inserters})
                         \cup (UNION {bg_tasks[k] : k \in 1 .. Len(bg_tasks)}) \cup bg_task
      BY DEF IInv, PageWritesExclusive
    <3>4. bg_task \subseteq Pages
      BY DEF IInv, TasksOK
    <3> QED BY ONLY <3>1, <3>2, <3>3, <3>4
  <2>4. vec_locks \subseteq Ids /\ idx_locks \subseteq Ids
    BY DEF IInv, LocksOwned
  <2>5. thread_data_queue \in 0 .. NBufs
    <3>1. /\ Cardinality(Inserting) \in Nat /\ Cardinality(Searching) \in Nat
          /\ Len(bg_tasks) \in Nat
      BY FS_CardinalityType, QueueStep DEF IInv, BuffersOK, TasksOK
    <3>2. Writes \in Nat
      BY <3>1 DEF Writes
    <3> QED BY <3>1, <3>2, DirectInsertAssumption DEF IInv, BuffersOK
  <2>6. bg_tasks \in Seq(SUBSET Pages) /\ bg_task \subseteq Pages
    BY DEF IInv, TasksOK
  <2> QED BY <2>1, <2>2, <2>3, <2>4, <2>5, <2>6 DEF TypeOK
<1> QED BY <1>1, Invariance, PTL

(* A page has one writer, from the first lock to the end of its write in   *)
(* the background thread, and every page worked on is locked.              *)
THEOREM PageWritesAlwaysExclusive == Spec => []PageWritesExclusive
<1>1. IInv => PageWritesExclusive
  BY DEF IInv
<1> QED BY <1>1, Invariance, PTL

(* A search that holds the read lock of an id reads the id's record.       *)
THEOREM ReadersAlwaysSafe == Spec => []ReaderSeesItsRecord
<1>1. IInv => ReaderSeesItsRecord
  BY ReadersSafe DEF IInv
<1> QED BY <1>1, Invariance, PTL

(* When all inserts have returned and their pages are written, no lock is  *)
(* left and every query buffer is free.                                    *)
THEOREM QuietAlwaysUnlocked == Spec => []QuietMeansUnlocked
<1>1. IInv => QuietMeansUnlocked
  <2> SUFFICES ASSUME IInv, \A p \in Inserters : at[p] = "idle", bg_tasks = <<>>, bg_task = {}
               PROVE  /\ page_locks = {} /\ vec_locks = {} /\ idx_locks = {}
                      /\ thread_data_queue = NBufs
    BY DEF QuietMeansUnlocked
  <2>1. \A p \in Inserters : LockedPages(p) = {} /\ VecHeld(p) = {} /\ IdxHeld(p) = {}
    BY DEF LockedPages, VecHeld, IdxHeld
  <2>2. page_locks = {}
    BY <2>1 DEF IInv, PageWritesExclusive
  <2>3. vec_locks = {} /\ idx_locks = {}
    BY <2>1 DEF IInv, LocksOwned
  <2>4. thread_data_queue = NBufs
    <3>1. Inserting = {} /\ Searching = {} /\ Writes = 0
      BY DEF Inserting, Searching, Writes
    <3> QED BY <3>1, FS_EmptySet, DirectInsertAssumption DEF IInv, BuffersOK
  <2> QED BY <2>2, <2>3, <2>4
<1> QED BY <1>1, Invariance, PTL

-----------------------------------------------------------------------------
(* The references to cached pages, of module InsertData.                   *)

(* Each q in S has h[q] of them.                                           *)
Tokens(S, h) == UNION {{q} \X (1 .. h[q]) : q \in S}

(* The first m numbers.                                                    *)
LEMMA IntervalSize ==
  ASSUME NEW m \in Nat
  PROVE  IsFiniteSet(1 .. m) /\ Cardinality(1 .. m) = m
<1>1. 1 \in Int /\ m \in Int
  OBVIOUS
<1>2. IsFiniteSet(1 .. m) /\ Cardinality(1 .. m) = IF 1 > m THEN 0 ELSE m - 1 + 1
  BY ONLY <1>1, FS_Interval
<1> QED BY <1>2

(* One owner's tokens make the difference.                                 *)
LEMMA TokensMoved ==
  ASSUME NEW S, NEW h, NEW k, NEW p \in S, h[p] \in Nat, k[p] \in Nat,
         \A q \in S \ {p} : k[q] = h[q], IsFiniteSet(Tokens(S, h))
  PROVE  /\ IsFiniteSet(Tokens(S, k))
         /\ Cardinality(Tokens(S, k)) = Cardinality(Tokens(S, h)) - h[p] + k[p]
<1> DEFINE Rest == Tokens(S \ {p}, h)
           Of(m) == {p} \X (1 .. m)
<1>1. ASSUME NEW m \in Nat
      PROVE  IsFiniteSet(Of(m)) /\ Cardinality(Of(m)) = m /\ Rest \cap Of(m) = {}
  <2>1. IsFiniteSet({p}) /\ Cardinality({p}) = 1
    BY FS_Singleton
  <2>2. IsFiniteSet(1 .. m) /\ Cardinality(1 .. m) = m
    BY IntervalSize
  <2>3. IsFiniteSet(Of(m)) /\ Cardinality(Of(m)) = Cardinality({p}) * Cardinality(1 .. m)
    BY ONLY <2>1, <2>2, FS_Product
  <2>4. Rest \cap Of(m) = {}
    BY DEF Tokens
  <2>5. Cardinality({p}) * Cardinality(1 .. m) = m
    BY <2>1, <2>2
  <2> HIDE DEF Rest, Of
  <2> QED BY <2>3, <2>4, <2>5
<1>2. Tokens(S, h) = Rest \cup Of(h[p])
  BY DEF Tokens
<1>3. Tokens(S, k) = Rest \cup Of(k[p])
  BY DEF Tokens
<1> HIDE DEF Rest, Of
<1>4. IsFiniteSet(Rest)
  BY <1>2, FS_Subset
<1>5. Cardinality(Rest) \in Nat
  BY <1>4, FS_CardinalityType
<1>6. ASSUME NEW m \in Nat
      PROVE  IsFiniteSet(Rest \cup Of(m)) /\ Cardinality(Rest \cup Of(m)) = Cardinality(Rest) + m
  <2>1. IsFiniteSet(Of(m)) /\ Cardinality(Of(m)) = m /\ Cardinality(Rest \cap Of(m)) = 0
    BY <1>1, FS_EmptySet
  <2>2. IsFiniteSet(Rest \cup Of(m))
        /\ Cardinality(Rest \cup Of(m)) = Cardinality(Rest) + Cardinality(Of(m))
                                            - Cardinality(Rest \cap Of(m))
    BY ONLY <1>4, <2>1, FS_Union
  <2> QED BY <1>5, <2>1, <2>2
<1>7. Cardinality(Tokens(S, h)) = Cardinality(Rest) + h[p]
  BY ONLY <1>2, <1>6, h[p] \in Nat
<1>8. IsFiniteSet(Tokens(S, k)) /\ Cardinality(Tokens(S, k)) = Cardinality(Rest) + k[p]
  BY ONLY <1>3, <1>6, k[p] \in Nat
<1> QED BY ONLY <1>5, <1>7, <1>8, h[p] \in Nat, k[p] \in Nat

(* The tasks of a queue that work on page g.                               *)
Queued(q, g) == {k \in 1 .. Len(q) : g \in q[k]}

(* There are finitely many.                                                *)
LEMMA QueuedFinite ==
  ASSUME NEW q \in Seq(SUBSET Pages), NEW g
  PROVE  IsFiniteSet(Queued(q, g)) /\ Cardinality(Queued(q, g)) \in Nat
<1>1. Len(q) \in Nat /\ Queued(q, g) \subseteq 1 .. Len(q)
  BY DEF Queued
<1>2. IsFiniteSet(1 .. Len(q))
  BY <1>1, IntervalSize
<1>3. IsFiniteSet(Queued(q, g))
  BY <1>1, <1>2, FS_Subset
<1> QED BY <1>3, FS_CardinalityType

(* One more when a task is pushed, ...                                     *)
LEMMA QueuedAppend ==
  ASSUME NEW q \in Seq(SUBSET Pages), NEW x \in SUBSET Pages, NEW g
  PROVE  Cardinality(Queued(Append(q, x), g)) =
           Cardinality(Queued(q, g)) + (IF g \in x THEN 1 ELSE 0)
<1> DEFINE n == Len(q) + 1
<1>1. /\ Len(q) \in Nat /\ Len(Append(q, x)) = n /\ Append(q, x)[n] = x
      /\ \A k \in 1 .. Len(q) : Append(q, x)[k] = q[k]
  BY QueueStep
<1>2. \A k : k \in 1 .. n <=> k \in 1 .. Len(q) \/ k = n
  BY <1>1
<1>3. n \notin Queued(q, g)
  BY <1>1 DEF Queued
<1> HIDE DEF n
<1>4. Queued(Append(q, x), g) = IF g \in x THEN Queued(q, g) \cup {n} ELSE Queued(q, g)
  BY <1>1, <1>2 DEF Queued
<1>5. IsFiniteSet(Queued(q, g)) /\ Cardinality(Queued(q, g)) \in Nat
  BY QueuedFinite
<1>6. Cardinality(Queued(q, g) \cup {n}) = Cardinality(Queued(q, g)) + 1
  BY ONLY <1>3, <1>5, FS_AddElement
<1> QED BY ONLY <1>4, <1>5, <1>6

(* ... and one less when it is popped.                                     *)
LEMMA QueuedTail ==
  ASSUME NEW q \in Seq(SUBSET Pages), q # <<>>, NEW g
  PROVE  Cardinality(Queued(Tail(q), g)) =
           Cardinality(Queued(q, g)) - (IF g \in Head(q) THEN 1 ELSE 0)
<1> DEFINE S == Queued(Tail(q), g)
           T == {k + 1 : k \in S}
           f == [k \in S |-> k + 1]
<1>1. /\ Len(q) \in Nat /\ Len(q) > 0 /\ Head(q) = q[1] /\ Tail(q) \in Seq(SUBSET Pages)
      /\ Len(Tail(q)) = Len(q) - 1
      /\ \A k \in 1 .. Len(q) - 1 : Tail(q)[k] = q[k + 1]
  BY QueueStep
<1>2. S \subseteq Nat \ {0}
  BY <1>1 DEF Queued
<1>3. IsFiniteSet(S) /\ Cardinality(S) \in Nat
  BY <1>1, QueuedFinite
<1>4. IsFiniteSet(T) /\ Cardinality(T) = Cardinality(S)
  <2> HIDE DEF S
  <2>1. f \in [S -> T]
    OBVIOUS
  <2>2. \A a, b \in S : f[a] = f[b] => a = b
    BY <1>2
  <2>3. \A t \in T : \E a \in S : f[a] = t
    OBVIOUS
  <2>4. f \in Bijection(S, T)
    <3>1. DOMAIN f = S
      OBVIOUS
    <3> HIDE DEF f, T
    <3> QED BY <2>1, <2>2, <2>3, <3>1 DEF Bijection, Injection, Surjection, IsInjective
  <2>5. ExistsBijection(S, T)
    BY <2>4 DEF ExistsBijection
  <2> QED BY <1>3, <2>5, FS_Bijection
<1>5. 1 \notin T
  BY <1>2
<1>6. Queued(q, g) = IF g \in Head(q) THEN T \cup {1} ELSE T
  <2>1. ASSUME NEW k \in Queued(q, g), k # 1
        PROVE  k \in T
    <3>1. k - 1 \in 1 .. Len(q) - 1 /\ k = (k - 1) + 1
      BY <1>1, <2>1 DEF Queued
    <3>2. k - 1 \in S
      BY <1>1, <2>1, <3>1 DEF Queued
    <3> QED BY <3>1, <3>2
  <2>2. ASSUME NEW k \in S
        PROVE  k + 1 \in Queued(q, g)
    BY <1>1 DEF Queued
  <2>3. 1 \in Queued(q, g) <=> g \in Head(q)
    BY <1>1 DEF Queued
  <2> QED BY <1>5, <2>1, <2>2, <2>3
<1> HIDE DEF S, T
<1>7. Cardinality(T \cup {1}) = Cardinality(T) + 1
  BY <1>4, <1>5, FS_AddElement
<1> QED BY <1>3, <1>4, <1>6, <1>7 DEF S

(* The references and the pages that each insert asks for.                 *)
DataShape ==
  /\ refs = [g \in Pages |-> refs[g]]
  /\ page_ref \in [Inserters -> [Pages -> Nat]]
  /\ need_read \in [Inserters -> SUBSET Pages]
  /\ PerInserter(missing) /\ PerInserter(found) /\ PerInserter(buf)

(* An insert waits for pages only in read_alloc(), and for no more of its  *)
(* references than page_ref counts.                                        *)
MissesOK ==
  \A p \in Inserters :
    /\ DOMAIN missing[p] \subseteq Pages
    /\ DOMAIN missing[p] # {} => at[p] \in {"reading", "update"}
    /\ \A g \in DOMAIN missing[p] : missing[p][g] \in 0 .. page_ref[p][g]

RefsInv ==
  /\ DataShape /\ MissesOK
  /\ \A g \in Pages : IsFiniteSet(HeldRefs(g))
  /\ RefsAccounted

(* No insert has less than no reference.                                   *)
LEMMA HeldNat ==
  ASSUME DataShape, MissesOK, NEW p \in Inserters, NEW g \in Pages
  PROVE  Held(p, g) \in Nat
<1>1. page_ref[p][g] \in Nat
  BY DEF DataShape
<1>2. g \in DOMAIN missing[p] => missing[p][g] \in 0 .. page_ref[p][g]
  BY DEF MissesOK
<1> QED BY <1>1, <1>2 DEF Held

(* The same after a step.                                                  *)
LEMMA HeldNatNext ==
  (DataShape /\ MissesOK)' => \A p \in Inserters, g \in Pages : Held(p, g)' \in Nat
<1>1. DataShape /\ MissesOK => \A p \in Inserters, g \in Pages : Held(p, g) \in Nat
  BY HeldNat
<1>2. (DataShape /\ MissesOK => \A p \in Inserters, g \in Pages : Held(p, g) \in Nat)'
  BY <1>1, PTL
<1> QED BY <1>2 DEF Pages, LT!Pages, LT!PageOf, LT!Locs

(* The references that the inserts hold, when those of one have changed.   *)
LEMMA HeldMoved ==
  ASSUME RefsInv, (DataShape /\ MissesOK)', NEW p \in Inserters, NEW g \in Pages,
         \A q \in Inserters \ {p} : Held(q, g)' = Held(q, g)
  PROVE  /\ Held(p, g) \in Nat /\ Held(p, g)' \in Nat
         /\ Cardinality(HeldRefs(g)) \in Nat /\ IsFiniteSet(HeldRefs(g)')
         /\ Cardinality(HeldRefs(g)') = Cardinality(HeldRefs(g)) - Held(p, g) + Held(p, g)'
<1> DEFINE h == [q \in Inserters |-> Held(q, g)]
           k == [q \in Inserters |-> Held(q, g)']
<1>1. h[p] = Held(p, g) /\ k[p] = Held(p, g)' /\ \A q \in Inserters \ {p} : k[q] = h[q]
  OBVIOUS
<1>2. h[p] \in Nat
  BY <1>1, HeldNat DEF RefsInv
<1>3. k[p] \in Nat
  BY <1>1, HeldNatNext
<1>4. HeldRefs(g) = Tokens(Inserters, h)
  BY DEF HeldRefs, Tokens
<1>5. HeldRefs(g)' = Tokens(Inserters, k)
  BY DEF HeldRefs, Tokens
<1>6. IsFiniteSet(HeldRefs(g))
  BY DEF RefsInv
<1> HIDE DEF h, k
<1>7. /\ IsFiniteSet(Tokens(Inserters, k))
      /\ Cardinality(Tokens(Inserters, k)) = Cardinality(Tokens(Inserters, h)) - h[p] + k[p]
  BY ONLY <1>1, <1>2, <1>3, <1>4, <1>6, p \in Inserters, TokensMoved
<1>8. Cardinality(HeldRefs(g)) \in Nat
  BY <1>6, FS_CardinalityType
<1> QED BY ONLY <1>1, <1>2, <1>3, <1>4, <1>5, <1>7, <1>8

(* The queued references are finitely many.                                *)
LEMMA QueuedCount ==
  ASSUME TasksOK, NEW g
  PROVE  Cardinality(QueuedRefs(g)) \in Nat
<1>1. QueuedRefs(g) = Queued(bg_tasks, g)
  BY DEF QueuedRefs, Queued
<1>2. bg_tasks \in Seq(SUBSET Pages)
  BY DEF TasksOK
<1> QED BY <1>1, <1>2, QueuedFinite

(* What a step of one insert has to do with the references: what it adds   *)
(* to the cache it holds.                                                  *)
LEMMA RefsStep ==
  ASSUME RefsInv, TasksOK, (DataShape /\ MissesOK)', NEW p \in Inserters, UNCHANGED bg,
         \A q \in Inserters \ {p} : \A g \in Pages : Held(q, g)' = Held(q, g),
         \A g \in Pages : refs'[g] = refs[g] + (Held(p, g)' - Held(p, g))
  PROVE  RefsInv'
<1>0. Pages' = Pages
  BY DEF Pages, LT!Pages, LT!PageOf, LT!Locs
<1>1. ASSUME NEW g \in Pages
      PROVE  /\ IsFiniteSet(HeldRefs(g)')
             /\ refs'[g] = Cardinality(HeldRefs(g)') + Cardinality(QueuedRefs(g))
                             + (IF g \in bg_task THEN 1 ELSE 0)
  <2>1. /\ Held(p, g) \in Nat /\ Held(p, g)' \in Nat
        /\ Cardinality(HeldRefs(g)) \in Nat /\ IsFiniteSet(HeldRefs(g)')
        /\ Cardinality(HeldRefs(g)') = Cardinality(HeldRefs(g)) - Held(p, g) + Held(p, g)'
    BY HeldMoved
  <2>2. refs'[g] = refs[g] + (Held(p, g)' - Held(p, g))
    OBVIOUS
  <2>3. refs[g] = Cardinality(HeldRefs(g)) + Cardinality(QueuedRefs(g))
                    + (IF g \in bg_task THEN 1 ELSE 0)
    BY DEF RefsInv, RefsAccounted
  <2>4. Cardinality(QueuedRefs(g)) \in Nat
    BY QueuedCount
  <2> QED BY ONLY <2>1, <2>2, <2>3, <2>4
<1>2. \A g \in Pages : QueuedRefs(g)' = QueuedRefs(g) /\ bg_task' = bg_task
  BY DEF QueuedRefs, bg
<1> QED BY <1>0, <1>1, <1>2 DEF RefsInv, RefsAccounted

(* The records that a search or an insert may ask for are in pages.        *)
LEMMA LinkedLocs ==
  ASSUME Shape, P!IInv
  PROVE  /\ \A i \in LT!Visible : id2loc[i] \in Locs /\ PageOf(id2loc[i]) \in Pages
         /\ \A p \in Inserters : ~Over(p) => nbrs[p] \subseteq LT!Visible
         /\ \A p \in Inserters : hints[p] \in Seq(Pages)
<1>1. Locs = P!Locs /\ Pages = P!Pages /\ \A l \in Locs : PageOf(l) \in Pages
  BY DEF Locs, LT!Locs, P!Locs, Pages, LT!Pages, P!Pages, PageOf, LT!PageOf, P!PageOf
<1>2. ASSUME NEW i \in P!Visible
      PROVE  id2loc[i] \in Locs
  <2>1. CASE i \in P!Settled
    <3>1. id2loc[i] \in 0 .. cur_loc - 1 /\ cur_loc \in 0 .. MaxLoc
      BY <2>1 DEF P!IInv, P!MappingConsistent, P!TypeOK
    <3> QED BY <3>1, DirectInsertAssumption DEF Locs, LT!Locs
  <2>2. CASE i \notin P!Settled
    <3>1. PICK q \in Inserters : PcBar[q] = "erase" /\ i \in P!MyIds(q)
      BY <1>2, <2>2 DEF P!Settled
    <3>2. Bar(locs, None)[q] \in [P!MyIds(q) -> P!Locs]
      BY <3>1 DEF P!IInv, P!LocalsOK, P!Owner
    <3>3. id2loc[i] = Bar(locs, None)[q][i]
      <4>1. CASE i \in Bar(nbrs, {})[q]
        BY <3>1, <4>1 DEF P!IInv, P!Moving
      <4>2. CASE i = Bar(target, -1)[q]
        BY <3>1, <4>2 DEF P!IInv, P!LocalsOK
      <4> QED BY <3>1, <4>1, <4>2 DEF P!MyIds
    <3> QED BY <1>1, <3>1, <3>2, <3>3
  <2> QED BY <2>1, <2>2
<1>3. ASSUME NEW p \in Inserters, ~Over(p)
      PROVE  nbrs[p] \subseteq P!Visible
  BY <1>3 DEF P!IInv, P!LocalsOK, Bar
<1>4. \A p \in Inserters : hints[p] \in Seq(Pages)
  BY <1>1 DEF P!IInv, P!TypeOK
<1> QED BY <1>1, <1>2, <1>3, <1>4, SameVisible

(* A record is asked for by one of its ids at most once: what read_alloc() *)
(* adds to the cache and what is still missing make what it asks for.      *)
LEMMA RequestRefs ==
  ASSUME RefsInv, NEW p \in Inserters, NEW reqs, Request(p, reqs),
         DOMAIN reqs \subseteq Pages, \A g \in DOMAIN reqs : reqs[g] \in Nat,
         DOMAIN missing[p] = {}, ~HasWritten(p), ~HasWritten(p)',
         need_read' = need_read, PerInserter(buf)',
         \A q \in Inserters \ {p} : at'[q] = at[q],
         at'[p] \in {"reading", "update"}
  PROVE  /\ (DataShape /\ MissesOK)'
         /\ \A g \in Pages : refs'[g] = refs[g] + (Held(p, g)' - Held(p, g))
         /\ \A q \in Inserters \ {p} : page_ref'[q] = page_ref[q] /\ missing'[q] = missing[q]
<1> DEFINE miss == {g \in DOMAIN reqs : refs[g] = 0}
           more(g) == IF g \in DOMAIN reqs THEN reqs[g] ELSE 0
<1>0. Pages' = Pages
  BY DEF Pages, LT!Pages, LT!PageOf, LT!Locs
<1>1. /\ refs' = [g \in Pages |-> refs[g] +
                    (IF g \in DOMAIN reqs \ miss THEN reqs[g] ELSE 0)]
      /\ missing' = [missing EXCEPT ![p] = [g \in miss |-> reqs[g]]]
      /\ PerInserter(found)'
      /\ page_ref' = [page_ref EXCEPT ![p] = [g \in Pages |-> @[g] + more(g)]]
  BY DEF Request, AddRefs, RefsInv, DataShape, PerInserter
<1>2. /\ missing'[p] = [g \in miss |-> reqs[g]] /\ DOMAIN missing'[p] = miss
      /\ page_ref'[p] = [g \in Pages |-> page_ref[p][g] + more(g)]
      /\ \A q \in Inserters \ {p} : page_ref'[q] = page_ref[q] /\ missing'[q] = missing[q]
  BY <1>1 DEF RefsInv, DataShape, PerInserter
<1>3. \A g \in Pages : more(g) \in Nat /\ page_ref[p][g] \in Nat
                       /\ page_ref'[p][g] = page_ref[p][g] + more(g)
  BY <1>2 DEF RefsInv, DataShape
<1>4. DataShape'
  <2>1. page_ref' \in [Inserters -> [Pages -> Nat]]
    BY <1>1, <1>3 DEF RefsInv, DataShape
  <2>2. PerInserter(missing)'
    BY <1>1 DEF RefsInv, DataShape, PerInserter
  <2>3. refs' = [g \in Pages |-> refs'[g]]
    BY <1>1
  <2>4. need_read' \in [Inserters -> SUBSET Pages]
    BY DEF RefsInv, DataShape
  <2> QED BY <1>0, <1>1, <2>1, <2>2, <2>3, <2>4 DEF DataShape
<1>5. MissesOK'
  <2>1. \A g \in miss : missing'[p][g] \in 0 .. page_ref'[p][g] /\ g \in Pages
    BY <1>2, <1>3
  <2>2. \A q \in Inserters \ {p} :
          /\ DOMAIN missing'[q] \subseteq Pages
          /\ DOMAIN missing'[q] # {} => at'[q] \in {"reading", "update"}
          /\ \A g \in DOMAIN missing'[q] : missing'[q][g] \in 0 .. page_ref'[q][g]
    BY <1>2 DEF RefsInv, MissesOK
  <2> HIDE DEF miss
  <2> QED BY <1>0, <1>2, <2>1, <2>2 DEF MissesOK
<1>6. ASSUME NEW g \in Pages
      PROVE  refs'[g] = refs[g] + (Held(p, g)' - Held(p, g))
  <2>1. Held(p, g) = page_ref[p][g] - 0 + 0
    BY DEF Held
  <2>2. Held(p, g)' = page_ref'[p][g] - (IF g \in miss THEN reqs[g] ELSE 0) + 0
    BY <1>2 DEF Held
  <2>3. refs'[g] = refs[g] + (IF g \in DOMAIN reqs \ miss THEN reqs[g] ELSE 0)
    BY <1>1
  <2>4. g \in miss => g \in DOMAIN reqs
    OBVIOUS
  <2> HIDE DEF miss
  <2> QED BY <1>3, <2>1, <2>2, <2>3, <2>4
<1> QED BY <1>2, <1>4, <1>5, <1>6

(* At the end of read_alloc() the rest is added.                           *)
LEMMA PutMissesRefs ==
  ASSUME RefsInv, NEW p \in Inserters, PutMisses(p), at[p] \in {"reading", "update"},
         page_ref' = page_ref, need_read' = need_read, buf' = buf,
         ~HasWritten(p), ~HasWritten(p)',
         \A q \in Inserters \ {p} : at'[q] = at[q]
  PROVE  /\ (DataShape /\ MissesOK)'
         /\ \A g \in Pages : refs'[g] = refs[g] + (Held(p, g)' - Held(p, g))
         /\ \A q \in Inserters \ {p} : page_ref'[q] = page_ref[q] /\ missing'[q] = missing[q]
<1>0. Pages' = Pages
  BY DEF Pages, LT!Pages, LT!PageOf, LT!Locs
<1>1. /\ refs' = [g \in Pages |-> refs[g] +
                    (IF g \in DOMAIN missing[p] THEN missing[p][g] ELSE 0)]
      /\ missing' = [missing EXCEPT ![p] = NoPages]
      /\ PerInserter(found)'
  BY DEF PutMisses, AddRefs, RefsInv, DataShape, PerInserter
<1>2. /\ DOMAIN missing'[p] = {} /\ PerInserter(missing)'
      /\ \A q \in Inserters \ {p} : missing'[q] = missing[q]
  BY <1>1 DEF RefsInv, DataShape, PerInserter, NoPages
<1>3. DataShape'
  <2>1. refs' = [g \in Pages |-> refs'[g]]
    BY <1>1
  <2> QED BY <1>0, <1>1, <1>2, <2>1 DEF RefsInv, DataShape, PerInserter
<1>4. MissesOK'
  BY <1>0, <1>2 DEF RefsInv, MissesOK
<1>5. ASSUME NEW g \in Pages
      PROVE  refs'[g] = refs[g] + (Held(p, g)' - Held(p, g))
  <2>1. page_ref[p][g] \in Nat
    BY DEF RefsInv, DataShape
  <2>2. g \in DOMAIN missing[p] => missing[p][g] \in Nat
    BY <2>1 DEF RefsInv, MissesOK
  <2>3. Held(p, g) = page_ref[p][g] - (IF g \in DOMAIN missing[p] THEN missing[p][g] ELSE 0) + 0
    BY DEF Held
  <2>4. Held(p, g)' = page_ref[p][g] - 0 + 0
    BY <1>2 DEF Held
  <2>5. refs'[g] = refs[g] + (IF g \in DOMAIN missing[p] THEN missing[p][g] ELSE 0)
    BY <1>1
  <2> QED BY ONLY <2>1, <2>2, <2>3, <2>4, <2>5
<1> QED BY <1>2, <1>3, <1>4, <1>5

(* A step of one insert leaves the others' references alone.               *)
LEMMA OthersHeld ==
  ASSUME Shape, NEW p \in Inserters, Begin(p) \/ Step(p),
         \A q \in Inserters \ {p} : page_ref'[q] = page_ref[q] /\ missing'[q] = missing[q]
  PROVE  \A q \in Inserters \ {p} : \A g \in Pages : Held(q, g)' = Held(q, g)
<1>1. \A q \in Inserters \ {p} : HasWritten(q)' = HasWritten(q) /\ WritePages(q)' = WritePages(q)
  BY OthersUnchanged DEF HasWritten, WritePages
<1> QED BY ONLY <1>1, \A q \in Inserters \ {p} : page_ref'[q] = page_ref[q] /\ missing'[q] = missing[q]
     DEF Held

(* The cache never counts less than no reference.                          *)
LEMMA RefsNat ==
  ASSUME RefsInv, TasksOK
  PROVE  \A g \in Pages : refs[g] \in Nat
<1> SUFFICES ASSUME NEW g \in Pages PROVE refs[g] \in Nat
  OBVIOUS
<1>1. Cardinality(HeldRefs(g)) \in Nat /\ Cardinality(QueuedRefs(g)) \in Nat
  BY FS_CardinalityType, QueuedCount DEF RefsInv
<1>2. refs[g] = Cardinality(HeldRefs(g)) + Cardinality(QueuedRefs(g))
                  + (IF g \in bg_task THEN 1 ELSE 0)
  BY DEF RefsInv, RefsAccounted
<1> QED BY <1>1, <1>2

(* The steps that are not about pages.                                     *)
LEMMA SameRefs ==
  ASSUME Shape, TasksOK, RefsInv, NEW p \in Inserters, UNCHANGED dataVars,
         \/ Begin(p) \/ BeginSearch(p) \/ LockPage(p) \/ LockVec(p) \/ LockIdx(p)
         \/ MoveIds(p) \/ EraseAndSetLoc(p) \/ UnlockVec(p) \/ UnlockTarget(p)
  PROVE  RefsInv'
<1>0. Pages' = Pages
  BY DEF Pages, LT!Pages, LT!PageOf, LT!Locs
<1>1. UNCHANGED bg /\ UNCHANGED <<refs, page_ref, missing, found, buf, need_read>>
  <2>1. UNCHANGED bg
    BY DEF Begin, BeginSearch, LockPage, LockVec, LockIdx, MoveIds, EraseAndSetLoc,
           UnlockVec, UnlockTarget
  <2> QED BY <2>1 DEF dataVars
<1>2. /\ at[p] \notin {"reading", "update"} /\ locs'[p] = locs[p]
      /\ HasWritten(p)' = HasWritten(p)
  BY DEF Begin, BeginSearch, LockPage, LockVec, LockIdx, MoveIds, EraseAndSetLoc,
         UnlockVec, UnlockTarget, Shape, HasWritten, locals
<1>3. \A q \in Inserters \ {p} : at'[q] = at[q]
  BY OthersUnchanged DEF Step
<1>4. DataShape'
  BY <1>0, <1>1 DEF RefsInv, DataShape, PerInserter
<1>5. MissesOK'
  <2>1. \A q \in Inserters : DOMAIN missing[q] # {} => at'[q] \in {"reading", "update"}
    BY <1>2, <1>3 DEF RefsInv, MissesOK
  <2> QED BY <1>0, <1>1, <2>1 DEF RefsInv, MissesOK
<1>6. \A g \in Pages : Held(p, g)' = Held(p, g)
  BY <1>1, <1>2 DEF Held, WritePages
<1>7. \A q \in Inserters \ {p} : \A g \in Pages : Held(q, g)' = Held(q, g)
  BY <1>1, OthersHeld DEF Step
<1>8. \A g \in Pages : refs[g] \in Nat /\ Held(p, g) \in Nat
  BY RefsNat, HeldNat DEF RefsInv
<1>9. \A g \in Pages : refs'[g] = refs[g] + (Held(p, g)' - Held(p, g))
  BY <1>1, <1>6, <1>8
<1> QED BY <1>1, <1>4, <1>5, <1>7, <1>9, RefsStep

(* A search asks for the page of the id it visits.                         *)
LEMMA VisitRefs ==
  ASSUME Shape, P!IInv, TasksOK, RefsInv, NEW p \in Inserters, NEW i \in Ids, DataVisit(p, i)
  PROVE  RefsInv'
<1> DEFINE reqs == [g \in {PageOf(id2loc[i])} |-> 1]
<1>1. /\ Visit(p, i) /\ Request(p, reqs) /\ UNCHANGED <<need_read, buf>>
      /\ at[p] = "search" /\ i \in LT!Visible /\ UNCHANGED bg
      /\ at' = [at EXCEPT ![p] = "reading"]
  BY DEF DataVisit, Visit
<1>2. DOMAIN reqs \subseteq Pages /\ \A g \in DOMAIN reqs : reqs[g] \in Nat
  BY <1>1, LinkedLocs
<1>3. at'[p] = "reading" /\ \A q \in Inserters \ {p} : at'[q] = at[q]
  BY <1>1 DEF Shape
<1>4. DOMAIN missing[p] = {} /\ ~HasWritten(p) /\ ~HasWritten(p)'
  BY <1>1, <1>3 DEF RefsInv, MissesOK, HasWritten
<1>5. PerInserter(buf)'
  BY <1>1 DEF RefsInv, DataShape, PerInserter
<1> HIDE DEF reqs
<1>6. /\ (DataShape /\ MissesOK)'
      /\ \A g \in Pages : refs'[g] = refs[g] + (Held(p, g)' - Held(p, g))
      /\ \A q \in Inserters \ {p} : page_ref'[q] = page_ref[q] /\ missing'[q] = missing[q]
  BY <1>1, <1>2, <1>3, <1>4, <1>5, RequestRefs
<1>7. \A q \in Inserters \ {p} : \A g \in Pages : Held(q, g)' = Held(q, g)
  BY <1>1, <1>6, OthersHeld DEF Step
<1> QED BY <1>1, <1>6, <1>7, RefsStep

(* The end of a read_alloc(), in a search or in the insert itself.         *)
LEMMA ReadEndRefs ==
  ASSUME Shape, TasksOK, RefsInv, NEW p \in Inserters, DataEndVisit(p) \/ FillCache(p)
  PROVE  RefsInv'
<1>1. /\ PutMisses(p) /\ UNCHANGED <<page_ref, need_read, buf>> /\ UNCHANGED bg
      /\ at[p] \in {"reading", "update"}
      /\ at' = [at EXCEPT ![p] = "search"] \/ at' = at
  BY DEF DataEndVisit, FillCache, EndVisit, vars
<1>2. ~HasWritten(p) /\ ~HasWritten(p)' /\ \A q \in Inserters \ {p} : at'[q] = at[q]
  BY <1>1 DEF Shape, HasWritten
<1>3. /\ (DataShape /\ MissesOK)'
      /\ \A g \in Pages : refs'[g] = refs[g] + (Held(p, g)' - Held(p, g))
      /\ \A q \in Inserters \ {p} : page_ref'[q] = page_ref[q] /\ missing'[q] = missing[q]
  BY <1>1, <1>2, PutMissesRefs
<1>4. \A q \in Inserters \ {p} : \A g \in Pages : Held(q, g)' = Held(q, g)
  <2>1. CASE DataEndVisit(p)
    BY <1>3, <2>1, OthersHeld DEF DataEndVisit, Step
  <2>2. CASE FillCache(p)
    BY <1>3, <2>2 DEF FillCache, vars, locals, Held, HasWritten, WritePages
  <2> QED BY <2>1, <2>2
<1> QED BY <1>1, <1>3, <1>4, RefsStep

(* alloc_loc() says which pages are to be read.                            *)
LEMMA AllocRefs ==
  ASSUME Shape, P!IInv, TasksOK, RefsInv, NEW p \in Inserters, NEW keep \in SUBSET nbrs[p],
         DataAllocLoc(p, keep)
  PROVE  RefsInv'
<1> DEFINE n == Cardinality(keep) + 1
           S == LT!PagesToRead(n, hints[p], LT!AllocSlots(n, hints[p]))
<1>0. Pages' = Pages
  BY DEF Pages, LT!Pages, LT!PageOf, LT!Locs
<1>1. /\ AllocLoc(p, keep) /\ need_read' = [need_read EXCEPT ![p] = S]
      /\ UNCHANGED <<refs, page_ref, buf, missing, found>> /\ UNCHANGED bg
      /\ at[p] = "search" /\ at' = [at EXCEPT ![p] = "lockpage"]
  BY DEF DataAllocLoc, AllocLoc
<1>2. S \subseteq Pages
  <2>1. hints[p] \in Seq(Pages)
    BY LinkedLocs
  <2>2. S \subseteq LT!ToSet(hints[p])
    BY DEF LT!PagesToRead, LT!Usable
  <2>3. LT!ToSet(hints[p]) \subseteq Pages
    BY <2>1 DEF LT!ToSet
  <2> QED BY <2>2, <2>3
<1> HIDE DEF S, n
<1>3. at'[p] = "lockpage" /\ \A q \in Inserters \ {p} : at'[q] = at[q]
  BY <1>1 DEF Shape
<1>4. DataShape'
  BY <1>0, <1>1, <1>2 DEF RefsInv, DataShape, PerInserter
<1>5. MissesOK'
  BY <1>0, <1>1, <1>3 DEF RefsInv, MissesOK
<1>6. \A g \in Pages : Held(p, g)' = Held(p, g)
  BY <1>1, <1>3 DEF Held, HasWritten
<1>7. \A q \in Inserters \ {p} : \A g \in Pages : Held(q, g)' = Held(q, g)
  BY <1>1, OthersHeld DEF Step
<1>8. \A g \in Pages : refs'[g] = refs[g] + (Held(p, g)' - Held(p, g))
  BY <1>1, <1>6, RefsNat, HeldNat DEF RefsInv
<1> QED BY <1>1, <1>4, <1>5, <1>7, <1>8, RefsStep

(* The pages of the neighbours and those to be refilled, ...               *)
LEMMA ReadPagesAsks ==
  ASSUME Shape, P!IInv, RefsInv, NEW p \in Inserters, DataReadPages(p)
  PROVE  \E reqs : /\ Request(p, reqs) /\ DOMAIN reqs \subseteq Pages
                   /\ \A g \in DOMAIN reqs : reqs[g] \in Nat
<1> DEFINE nbrPages == {PageOf(id2loc[i]) : i \in nbrs[p]}
           reqs == [g \in nbrPages \cup need_read[p] |->
                      Cardinality({i \in nbrs[p] : PageOf(id2loc[i]) = g})
                        + (IF g \in need_read[p] THEN 1 ELSE 0)]
<1>1. nbrs[p] \subseteq LT!Visible /\ nbrs[p] \subseteq Ids
  BY LinkedLocs, OwnIds DEF DataReadPages, ReadPages, Over, OwnIdsOK, MyIds
<1>2. nbrPages \subseteq Pages /\ need_read[p] \subseteq Pages
  BY <1>1, LinkedLocs DEF RefsInv, DataShape
<1>3. IsFiniteSet(nbrs[p])
  <2>1. MaxId - 1 \in Int /\ Ids = 0 .. MaxId - 1
    BY DirectInsertAssumption DEF Ids, LT!Ids
  <2>2. IsFiniteSet(Ids)
    BY ONLY <2>1, FS_Interval
  <2> QED BY <1>1, <2>2, FS_Subset
<1>4. \A g : Cardinality({i \in nbrs[p] : PageOf(id2loc[i]) = g}) \in Nat
  <2>1. ASSUME NEW g
        PROVE  IsFiniteSet({i \in nbrs[p] : PageOf(id2loc[i]) = g})
    <3>1. {i \in nbrs[p] : PageOf(id2loc[i]) = g} \subseteq nbrs[p]
      OBVIOUS
    <3> QED BY ONLY <1>3, <3>1, FS_Subset
  <2> QED BY <2>1, FS_CardinalityType
<1> DEFINE asked(g) == Cardinality({i \in nbrs[p] : PageOf(id2loc[i]) = g})
<1>5. /\ DOMAIN reqs = nbrPages \cup need_read[p]
      /\ \A g \in DOMAIN reqs : reqs[g] = asked(g) + (IF g \in need_read[p] THEN 1 ELSE 0)
  OBVIOUS
<1>6. \A g : asked(g) \in Nat
  BY <1>4
<1> HIDE DEF nbrPages, asked, reqs
<1>7. DOMAIN reqs \subseteq Pages /\ \A g \in DOMAIN reqs : reqs[g] \in Nat
  BY ONLY <1>2, <1>5, <1>6
<1>8. Request(p, reqs)
  BY DEF DataReadPages, reqs, nbrPages
<1> QED BY <1>7, <1>8

(* ... one reference for each.                                             *)
LEMMA ReadPagesRefs ==
  ASSUME Shape, P!IInv, TasksOK, RefsInv, NEW p \in Inserters, DataReadPages(p)
  PROVE  RefsInv'
<1>1. /\ ReadPages(p) /\ UNCHANGED need_read
      /\ at[p] = "read" /\ UNCHANGED bg /\ at' = [at EXCEPT ![p] = "update"]
  BY DEF DataReadPages, ReadPages
<1>2. PICK reqs : /\ Request(p, reqs) /\ DOMAIN reqs \subseteq Pages
                  /\ \A g \in DOMAIN reqs : reqs[g] \in Nat
  BY ReadPagesAsks
<1>3. at'[p] = "update" /\ \A q \in Inserters \ {p} : at'[q] = at[q]
  BY <1>1 DEF Shape
<1>4. DOMAIN missing[p] = {} /\ ~HasWritten(p) /\ ~HasWritten(p)'
  BY <1>1, <1>3 DEF RefsInv, MissesOK, HasWritten
<1>5. PerInserter(buf)'
  BY DEF DataReadPages, RefsInv, DataShape, PerInserter
<1>6. /\ (DataShape /\ MissesOK)'
      /\ \A g \in Pages : refs'[g] = refs[g] + (Held(p, g)' - Held(p, g))
      /\ \A q \in Inserters \ {p} : page_ref'[q] = page_ref[q] /\ missing'[q] = missing[q]
  BY <1>1, <1>2, <1>3, <1>4, <1>5, RequestRefs
<1>7. \A q \in Inserters \ {p} : \A g \in Pages : Held(q, g)' = Held(q, g)
  BY <1>1, <1>6, OthersHeld DEF Step
<1> QED BY <1>1, <1>6, <1>7, RefsStep

(* wbc_write() takes a reference to each page that it puts in the cache.   *)
LEMMA SetTargetRefs ==
  ASSUME Shape, TasksOK, RefsInv, NEW p \in Inserters, DataSetTarget(p)
  PROVE  RefsInv'
<1>0. Pages' = Pages
  BY DEF Pages, LT!Pages, LT!PageOf, LT!Locs
<1>1. /\ SetTarget(p) /\ UNCHANGED bg /\ locs' = locs
      /\ UNCHANGED <<page_ref, need_read, missing, found>>
      /\ at[p] = "update" /\ at' = [at EXCEPT ![p] = "lockidx"]
      /\ DOMAIN missing[p] = {}
      /\ buf' = [buf EXCEPT ![p] = NewRecords(p)]
      /\ refs' = [g \in Pages |-> refs[g] + (IF g \in WritePages(p) THEN 1 ELSE 0)]
  <2>1. SetTarget(p) /\ AddRefs([g \in WritePages(p) |-> 1], NewRecords(p))
        /\ missing[p] = NoPages
    BY DEF DataSetTarget
  <2>2. refs' = [g \in Pages |-> refs[g] + (IF g \in WritePages(p) THEN 1 ELSE 0)]
    BY <2>1 DEF AddRefs
  <2> QED BY <2>1, <2>2 DEF DataSetTarget, SetTarget, locals, NoPages
<1>2. at'[p] = "lockidx" /\ \A q \in Inserters \ {p} : at'[q] = at[q]
  BY <1>1 DEF Shape
<1>3. DataShape'
  <2>1. PerInserter(buf)'
    BY <1>1 DEF RefsInv, DataShape, PerInserter
  <2>2. refs' = [g \in Pages |-> refs'[g]]
    BY <1>1
  <2> QED BY <1>0, <1>1, <2>1, <2>2 DEF RefsInv, DataShape, PerInserter
<1>4. MissesOK'
  BY <1>0, <1>1, <1>2 DEF RefsInv, MissesOK
<1>5. ASSUME NEW g \in Pages
      PROVE  refs'[g] = refs[g] + (Held(p, g)' - Held(p, g))
  <2>1. page_ref[p][g] \in Nat /\ refs[g] \in Nat
    BY RefsNat DEF RefsInv, DataShape
  <2>2. Held(p, g) = page_ref[p][g] - 0 + 0
    BY <1>1 DEF Held, HasWritten
  <2>3. Held(p, g)' = page_ref[p][g] - 0 + (IF g \in WritePages(p) THEN 1 ELSE 0)
    BY <1>1, <1>2 DEF Held, HasWritten, WritePages
  <2>4. refs'[g] = refs[g] + (IF g \in WritePages(p) THEN 1 ELSE 0)
    BY <1>1
  <2> QED BY ONLY <2>1, <2>2, <2>3, <2>4
<1>6. \A q \in Inserters \ {p} : \A g \in Pages : Held(q, g)' = Held(q, g)
  BY <1>1, OthersHeld DEF Step
<1> QED BY <1>1, <1>3, <1>4, <1>5, <1>6, RefsStep

(* The references of a task: the queue, the task in work and what the      *)
(* insert that pushes it held make the same number as before.              *)
LEMMA PushTaskRefs ==
  ASSUME Shape, TodoOK, TasksOK, RefsInv, NEW p \in Inserters, DataPushTask(p)
  PROVE  RefsInv'
<1> DEFINE W == WritePages(p)
<1>0. Pages' = Pages
  BY DEF Pages, LT!Pages, LT!PageOf, LT!Locs
<1>1. /\ PushTask(p) /\ at[p] = "push" /\ at' = [at EXCEPT ![p] = "idle"]
      /\ bg_tasks' = Append(bg_tasks, W) /\ bg_task' = bg_task
      /\ page_ref' = [page_ref EXCEPT ![p] = Zero]
      /\ buf' = [buf EXCEPT ![p] = NoRecords]
      /\ need_read' = [need_read EXCEPT ![p] = {}]
      /\ UNCHANGED <<missing, found>>
      /\ refs' = [g \in Pages |-> refs[g] - (IF g \in DOMAIN page_ref[p] THEN page_ref[p][g] ELSE 0)]
  BY DEF DataPushTask, PushTask, DropRefs
<1>2. at'[p] = "idle" /\ \A q \in Inserters \ {p} : at'[q] = at[q]
  BY <1>1 DEF Shape
<1>3. /\ page_ref'[p] = Zero /\ \A q \in Inserters \ {p} : page_ref'[q] = page_ref[q]
      /\ \A q \in Inserters \ {p} : missing'[q] = missing[q]
  BY <1>1 DEF RefsInv, DataShape
<1>4. DataShape'
  <2>1. Zero \in [Pages -> Nat]
    BY DEF Zero
  <2>2. page_ref' \in [Inserters -> [Pages -> Nat]]
    BY <1>1, <2>1 DEF RefsInv, DataShape
  <2>3. need_read' \in [Inserters -> SUBSET Pages]
    BY <1>1 DEF RefsInv, DataShape
  <2>4. PerInserter(missing)' /\ PerInserter(found)' /\ PerInserter(buf)'
    BY <1>1 DEF RefsInv, DataShape, PerInserter
  <2>5. refs' = [g \in Pages |-> refs'[g]]
    BY <1>1
  <2> QED BY <1>0, <2>2, <2>3, <2>4, <2>5 DEF DataShape
<1>5. DOMAIN missing[p] = {}
  BY <1>1 DEF RefsInv, MissesOK
<1>6. MissesOK'
  BY <1>0, <1>1, <1>2, <1>3, <1>5 DEF RefsInv, MissesOK
<1>7. W \in SUBSET Pages /\ bg_tasks \in Seq(SUBSET Pages)
  BY <1>1 DEF TodoOK, TasksOK, Writing
<1>8. \A q \in Inserters \ {p} : \A g \in Pages : Held(q, g)' = Held(q, g)
  BY <1>1, <1>3, OthersHeld DEF Step
<1>9. ASSUME NEW g \in Pages
      PROVE  /\ IsFiniteSet(HeldRefs(g)')
             /\ refs'[g] = Cardinality(HeldRefs(g)') + Cardinality(QueuedRefs(g)')
                             + (IF g \in bg_task THEN 1 ELSE 0)
  <2>1. /\ Held(p, g) \in Nat /\ Held(p, g)' \in Nat
        /\ Cardinality(HeldRefs(g)) \in Nat /\ IsFiniteSet(HeldRefs(g)')
        /\ Cardinality(HeldRefs(g)') = Cardinality(HeldRefs(g)) - Held(p, g) + Held(p, g)'
    BY <1>4, <1>6, <1>8, HeldMoved
  <2>2. page_ref[p][g] \in Nat /\ DOMAIN page_ref[p] = Pages
    BY DEF RefsInv, DataShape
  <2>3. Held(p, g) = page_ref[p][g] - 0 + (IF g \in W THEN 1 ELSE 0)
    BY <1>1, <1>5 DEF Held, HasWritten
  <2>4. Held(p, g)' = 0 - 0 + 0
    <3>1. ~HasWritten(p)' /\ page_ref'[p][g] = 0 /\ DOMAIN missing'[p] = {}
      BY <1>1, <1>2, <1>3, <1>5 DEF HasWritten, Zero
    <3> QED BY ONLY <3>1 DEF Held
  <2>5. refs'[g] = refs[g] - page_ref[p][g]
    BY <1>1, <2>2
  <2>6. refs[g] = Cardinality(HeldRefs(g)) + Cardinality(QueuedRefs(g))
                    + (IF g \in bg_task THEN 1 ELSE 0)
    BY DEF RefsInv, RefsAccounted
  <2>7. Cardinality(QueuedRefs(g)) \in Nat
    BY QueuedCount
  <2>8. QueuedRefs(g) = Queued(bg_tasks, g) /\ QueuedRefs(g)' = Queued(Append(bg_tasks, W), g)
    BY <1>1 DEF QueuedRefs, Queued
  <2>9. Cardinality(QueuedRefs(g)') = Cardinality(QueuedRefs(g)) + (IF g \in W THEN 1 ELSE 0)
    <3>1. Cardinality(Queued(Append(bg_tasks, W), g)) =
            Cardinality(Queued(bg_tasks, g)) + (IF g \in W THEN 1 ELSE 0)
      BY ONLY <1>7, QueuedAppend
    <3> QED BY ONLY <2>8, <3>1
  <2> HIDE DEF W
  <2> QED BY ONLY <2>1, <2>2, <2>3, <2>4, <2>5, <2>6, <2>7, <2>9
<1> QED BY <1>0, <1>1, <1>4, <1>6, <1>9 DEF RefsInv, RefsAccounted

(* The background thread: a task goes from the queue to the work, and its  *)
(* references with it; when it is written, they are dropped.               *)
LEMMA BgRefs ==
  ASSUME TasksOK, RefsInv, DataBgPop \/ DataBgFinish
  PROVE  RefsInv'
<1>0. Pages' = Pages
  BY DEF Pages, LT!Pages, LT!PageOf, LT!Locs
<1>1. UNCHANGED <<page_ref, need_read, buf, missing, found>> /\ UNCHANGED <<at, locs>>
  BY DEF DataBgPop, DataBgFinish, BgPop, BgFinish, locals
<1>2. refs' = [g \in Pages |-> refs'[g]]
  BY DEF DataBgPop, DataBgFinish, DropRefs, RefsInv, DataShape
<1>3. DataShape' /\ MissesOK'
  BY <1>0, <1>1, <1>2 DEF RefsInv, DataShape, MissesOK, PerInserter
<1>4. \A g \in Pages : HeldRefs(g)' = HeldRefs(g)
  BY <1>1 DEF HeldRefs, Held, HasWritten, WritePages
<1>5. ASSUME NEW g \in Pages
      PROVE  refs'[g] = Cardinality(HeldRefs(g)) + Cardinality(QueuedRefs(g)')
                          + (IF g \in bg_task' THEN 1 ELSE 0)
  <2>1. refs[g] = Cardinality(HeldRefs(g)) + Cardinality(QueuedRefs(g))
                    + (IF g \in bg_task THEN 1 ELSE 0)
    BY DEF RefsInv, RefsAccounted
  <2>2. Cardinality(HeldRefs(g)) \in Nat /\ Cardinality(QueuedRefs(g)) \in Nat
    BY FS_CardinalityType, QueuedCount DEF RefsInv
  <2>3. CASE DataBgPop
    <3>1. /\ bg_tasks # <<>> /\ bg_task = {} /\ bg_tasks' = Tail(bg_tasks)
          /\ bg_task' = Head(bg_tasks) /\ refs' = refs
      BY <2>3 DEF DataBgPop, BgPop
    <3>2. QueuedRefs(g) = Queued(bg_tasks, g) /\ QueuedRefs(g)' = Queued(Tail(bg_tasks), g)
      BY <3>1 DEF QueuedRefs, Queued
    <3>3. bg_tasks \in Seq(SUBSET Pages)
      BY DEF TasksOK
    <3>4. Cardinality(Queued(Tail(bg_tasks), g)) =
            Cardinality(Queued(bg_tasks, g)) - (IF g \in Head(bg_tasks) THEN 1 ELSE 0)
      BY ONLY <3>1, <3>3, QueuedTail
    <3>5. g \notin bg_task
      BY <3>1
    <3> QED BY ONLY <2>1, <2>2, <3>1, <3>2, <3>4, <3>5
  <2>4. CASE DataBgFinish
    <3>1. /\ bg_task' = {} /\ bg_tasks' = bg_tasks
          /\ refs' = [h \in Pages |-> refs[h] -
                        (IF h \in DOMAIN [x \in bg_task |-> 1] THEN [x \in bg_task |-> 1][h] ELSE 0)]
      BY <2>4 DEF DataBgFinish, BgFinish, DropRefs
    <3>2. refs'[g] = refs[g] - (IF g \in bg_task THEN 1 ELSE 0)
      BY <3>1
    <3>3. QueuedRefs(g)' = QueuedRefs(g) /\ g \notin bg_task'
      BY <3>1 DEF QueuedRefs
    <3> QED BY ONLY <2>1, <2>2, <3>2, <3>3
  <2> QED BY <2>3, <2>4
<1>6. \A g \in Pages : IsFiniteSet(HeldRefs(g)')
  BY <1>4 DEF RefsInv
<1> QED BY <1>0, <1>3, <1>4, <1>5, <1>6 DEF RefsInv, RefsAccounted

(* At the start nothing is cached.                                         *)
LEMMA RefsInit == DataInit => RefsInv
<1> SUFFICES ASSUME DataInit PROVE RefsInv
  OBVIOUS
<1>1. DataShape
  BY DEF DataInit, DataShape, PerInserter, Zero
<1>2. MissesOK
  BY DEF DataInit, MissesOK, NoPages
<1>3. ASSUME NEW g \in Pages
      PROVE  HeldRefs(g) = {} /\ QueuedRefs(g) = {} /\ refs[g] = 0 /\ g \notin bg_task
  <2>1. \A p \in Inserters : Held(p, g) = 0 - 0 + 0
    <3>1. \A p \in Inserters : ~HasWritten(p) /\ page_ref[p][g] = 0 /\ DOMAIN missing[p] = {}
      BY DEF DataInit, Init, HasWritten, Zero, NoPages
    <3> QED BY ONLY <3>1 DEF Held
  <2>2. HeldRefs(g) = {}
    BY <2>1 DEF HeldRefs
  <2>3. QueuedRefs(g) = {}
    BY DEF DataInit, Init, QueuedRefs
  <2> QED BY <2>2, <2>3 DEF DataInit, Init, Zero
<1>4. IsFiniteSet({}) /\ Cardinality({}) = 0
  BY FS_EmptySet
<1>5. \A g \in Pages : IsFiniteSet(HeldRefs(g))
  BY <1>3, <1>4
<1>6. RefsAccounted
  BY <1>3, <1>4 DEF RefsAccounted
<1> QED BY <1>1, <1>2, <1>5, <1>6 DEF RefsInv

(* Every step keeps the account.                                           *)
LEMMA RefsNext == IInv /\ RefsInv /\ [DataNext]_allVars => RefsInv'
<1> SUFFICES ASSUME IInv, RefsInv, [DataNext]_allVars
             PROVE  RefsInv'
  OBVIOUS
<1>1. Shape /\ P!IInv /\ TodoOK /\ TasksOK
  BY DEF IInv
<1>2. ASSUME NEW p \in Inserters, NEW i \in Ids, DataVisit(p, i) PROVE RefsInv'
  BY <1>1, <1>2, VisitRefs
<1>3. ASSUME NEW p \in Inserters, DataEndVisit(p) \/ FillCache(p) PROVE RefsInv'
  BY <1>1, <1>3, ReadEndRefs
<1>4. ASSUME NEW p \in Inserters, NEW keep \in SUBSET nbrs[p], DataAllocLoc(p, keep)
      PROVE  RefsInv'
  BY <1>1, <1>4, AllocRefs
<1>5. ASSUME NEW p \in Inserters, DataReadPages(p) PROVE RefsInv'
  BY <1>1, <1>5, ReadPagesRefs
<1>6. ASSUME NEW p \in Inserters, DataSetTarget(p) PROVE RefsInv'
  BY <1>1, <1>6, SetTargetRefs
<1>7. ASSUME NEW p \in Inserters, DataPushTask(p) PROVE RefsInv'
  BY <1>1, <1>7, PushTaskRefs
<1>8. ASSUME NEW p \in Inserters, UNCHANGED dataVars,
             \/ Begin(p) \/ BeginSearch(p) \/ LockPage(p) \/ LockVec(p) \/ LockIdx(p)
             \/ MoveIds(p) \/ EraseAndSetLoc(p) \/ UnlockVec(p) \/ UnlockTarget(p)
      PROVE  RefsInv'
  BY <1>1, <1>8, SameRefs
<1>9. CASE DataBgPop \/ DataBgFinish
  BY <1>1, <1>9, BgRefs
<1>10. CASE UNCHANGED allVars
  <2>1. UNCHANGED <<refs, page_ref, need_read, missing, found, buf>>
        /\ UNCHANGED <<at, locs, bg_tasks, bg_task>>
    BY <1>10 DEF allVars, dataVars, vars, locals, bg
  <2>2. Pages' = Pages
    BY DEF Pages, LT!Pages, LT!PageOf, LT!Locs
  <2>3. \A g : HeldRefs(g)' = HeldRefs(g) /\ QueuedRefs(g)' = QueuedRefs(g)
    BY <2>1 DEF HeldRefs, QueuedRefs, Held, HasWritten, WritePages
  <2>4. DataShape' /\ MissesOK'
    BY <2>1, <2>2 DEF RefsInv, DataShape, MissesOK, PerInserter
  <2> QED BY <2>1, <2>2, <2>3, <2>4 DEF RefsInv, RefsAccounted
<1> QED BY <1>2, <1>3, <1>4, <1>5, <1>6, <1>7, <1>8, <1>9, <1>10 DEF DataNext

(* With the contents of pages each step is one of DirectInsert, or, when   *)
(* a read_alloc() ends, none.                                              *)
LEMMA DataSteps == DataSpec => Steps
<1>1. DataInit => Init
  BY DEF DataInit
<1>2. [DataNext]_allVars => [Next]_vars
  <2> SUFFICES ASSUME [DataNext]_allVars PROVE [Next]_vars
    OBVIOUS
  <2>1. ASSUME NEW p \in Inserters, NEW i \in Ids, DataVisit(p, i) PROVE Next
    BY <2>1 DEF DataVisit, Next, Step
  <2>2. ASSUME NEW p \in Inserters, NEW keep \in SUBSET nbrs[p], DataAllocLoc(p, keep)
        PROVE  Next
    BY <2>2 DEF DataAllocLoc, Next, Step
  <2>3. ASSUME NEW p \in Inserters,
               \/ DataEndVisit(p) \/ DataReadPages(p) \/ DataSetTarget(p) \/ DataPushTask(p)
        PROVE  Next
    <3>1. EndVisit(p) \/ ReadPages(p) \/ SetTarget(p) \/ PushTask(p)
      BY <2>3 DEF DataEndVisit, DataReadPages, DataSetTarget, DataPushTask
    <3> QED BY <3>1 DEF Next, Step
  <2>4. ASSUME NEW p \in Inserters, FillCache(p) PROVE UNCHANGED vars
    BY <2>4 DEF FillCache
  <2>5. ASSUME NEW p \in Inserters,
               \/ Begin(p) \/ BeginSearch(p) \/ LockPage(p) \/ LockVec(p) \/ LockIdx(p)
               \/ MoveIds(p) \/ EraseAndSetLoc(p) \/ UnlockVec(p) \/ UnlockTarget(p)
        PROVE  Next
    BY <2>5 DEF Next, Step
  <2>6. CASE DataBgPop \/ DataBgFinish
    BY <2>6 DEF DataBgPop, DataBgFinish, Next
  <2>7. CASE UNCHANGED allVars
    BY <2>7 DEF allVars
  <2> QED BY <2>1, <2>2, <2>3, <2>4, <2>5, <2>6, <2>7 DEF DataNext
<1> QED BY <1>1, <1>2, PTL DEF DataSpec, Steps

(* Every reference to a cached page is accounted for, by an insert or by a *)
(* task, whatever the number of inserters: no deref() drops more than was  *)
(* taken, and no page stays in the cache that nobody uses.                 *)
THEOREM RefsAlwaysAccounted == DataSpec => []RefsAccounted
<1>1. RefsInv => RefsAccounted
  BY DEF RefsInv
<1> QED BY <1>1, RefsInit, RefsNext, DataSteps, StepsInvariance, PTL DEF DataSpec

-----------------------------------------------------------------------------
(* The records in the cache, in the buffers and with the tasks.            *)

(* What a task writes: the records of some pages.                          *)
Pieces == UNION {[PageLocs(S) -> Records] : S \in SUBSET Pages}

DiskTyped == disk \in [Locs -> Records] /\ cached \in [Locs -> Records]

(* A read that has gone to disk has found all records of the missing pages.*)
FoundTyped == \A p \in Inserters : found[p] \in [PageLocs(DOMAIN missing[p]) -> Records]

(* The pages an insert is to write are in its buffers from its read_alloc()*)
(* on, and from wbc_write() on it has no others.                           *)
BufTyped ==
  \A p \in Inserters :
    /\ buf[p] \in [DOMAIN buf[p] -> Records]
    /\ at[p] = "update" => PageLocs(WritePages(p)) \subseteq DOMAIN buf[p]
    /\ HasWritten(p) => DOMAIN buf[p] = PageLocs(WritePages(p))

(* Each task has the records of its pages.                                 *)
TaskTyped ==
  /\ bg_bufs \in Seq(Pieces) /\ Len(bg_bufs) = Len(bg_tasks)
  /\ \A k \in 1 .. Len(bg_tasks) : DOMAIN bg_bufs[k] = PageLocs(bg_tasks[k])
  /\ bg_buf \in [PageLocs(bg_task) -> Records]

BufsInv == DiskTyped /\ FoundTyped /\ BufTyped /\ TaskTyped

(* The locations do not change.                                            *)
LEMMA SamePages == Pages' = Pages /\ Locs' = Locs /\ Records' = Records /\ Pieces' = Pieces
  BY DEF Pages, LT!Pages, LT!PageOf, Locs, LT!Locs, Records, Ids, LT!Ids, Pieces, PageLocs, PageOf

(* Records of a page and a location read for it.                           *)
LEMMA ContentsTyped ==
  ASSUME DiskTyped, NEW l \in Locs
  PROVE  Contents(l) \in Records
  BY DEF DiskTyped, Contents

(* Where an insert is in its use of buffers changes in four steps only.    *)
LEMMA PlacesKept ==
  ASSUME Shape, NEW p \in Inserters,
         \/ Begin(p) \/ BeginSearch(p) \/ LockPage(p) \/ LockVec(p) \/ LockIdx(p)
         \/ MoveIds(p) \/ EraseAndSetLoc(p) \/ UnlockVec(p) \/ UnlockTarget(p)
         \/ EndVisit(p) \/ (\E i \in Ids : Visit(p, i))
         \/ (\E keep \in SUBSET nbrs[p] : AllocLoc(p, keep))
  PROVE  \A q \in Inserters :
           /\ at'[q] = "update" <=> at[q] = "update"
           /\ HasWritten(q)' <=> HasWritten(q)
           /\ at[q] = "update" \/ HasWritten(q) => WritePages(q)' = WritePages(q)
<1>1. \A q \in Inserters \ {p} : at'[q] = at[q] /\ WritePages(q)' = WritePages(q)
  BY OthersUnchanged DEF Step, WritePages
<1>2. \A q \in Inserters \ {p} : HasWritten(q)' <=> HasWritten(q)
  BY <1>1 DEF HasWritten
<1>3. /\ at[p] # "update" /\ at'[p] # "update"
      /\ HasWritten(p)' <=> HasWritten(p)
      /\ HasWritten(p) => WritePages(p)' = WritePages(p)
  BY DEF Begin, BeginSearch, LockPage, LockVec, LockIdx, MoveIds, EraseAndSetLoc, UnlockVec,
         UnlockTarget, EndVisit, Visit, AllocLoc, Shape, HasWritten, WritePages, locals
<1> QED BY <1>1, <1>2, <1>3

(* The steps that leave the buffers alone.                                 *)
LEMMA BufTypedKept ==
  ASSUME Shape, BufTyped, buf' = buf, NEW p \in Inserters,
         \/ Begin(p) \/ BeginSearch(p) \/ LockPage(p) \/ LockVec(p) \/ LockIdx(p)
         \/ MoveIds(p) \/ EraseAndSetLoc(p) \/ UnlockVec(p) \/ UnlockTarget(p)
         \/ EndVisit(p) \/ (\E i \in Ids : Visit(p, i))
         \/ (\E keep \in SUBSET nbrs[p] : AllocLoc(p, keep))
  PROVE  BufTyped'
<1>1. \A q \in Inserters :
           /\ at'[q] = "update" <=> at[q] = "update"
           /\ HasWritten(q)' <=> HasWritten(q)
           /\ at[q] = "update" \/ HasWritten(q) => WritePages(q)' = WritePages(q)
  BY PlacesKept
<1>2. \A S : PageLocs(S)' = PageLocs(S)
  BY DEF PageLocs, Locs, LT!Locs, PageOf, LT!PageOf
<1>3. Records' = Records
  BY SamePages
<1> QED BY <1>1, <1>2, <1>3 DEF BufTyped

(* read_alloc() goes to disk for what is not cached.                       *)
LEMMA RequestBufs ==
  ASSUME RefsInv, DiskTyped, FoundTyped, NEW p \in Inserters, NEW reqs, Request(p, reqs),
         disk' = disk
  PROVE  DiskTyped' /\ FoundTyped'
<1> DEFINE miss == {g \in DOMAIN reqs : refs[g] = 0}
<1>1. /\ missing' = [missing EXCEPT ![p] = [g \in miss |-> reqs[g]]]
      /\ found' = [found EXCEPT ![p] = [l \in PageLocs(miss) |-> disk[l]]]
      /\ cached' = [l \in Locs |-> IF l \in DOMAIN NoRecords THEN NoRecords[l] ELSE cached[l]]
  BY DEF Request, AddRefs
<1>2. cached' = cached
  BY <1>1 DEF NoRecords, DiskTyped
<1>3. /\ DOMAIN missing'[p] = miss /\ found'[p] = [l \in PageLocs(miss) |-> disk[l]]
      /\ \A q \in Inserters \ {p} : missing'[q] = missing[q] /\ found'[q] = found[q]
  BY <1>1 DEF RefsInv, DataShape, PerInserter
<1> HIDE DEF miss
<1>4. found'[p] \in [PageLocs(DOMAIN missing'[p]) -> Records]
  BY <1>3 DEF DiskTyped, PageLocs
<1>5. \A S : PageLocs(S)' = PageLocs(S)
  BY DEF PageLocs, Locs, LT!Locs, PageOf, LT!PageOf
<1> QED BY <1>2, <1>3, <1>4, <1>5, SamePages DEF DiskTyped, FoundTyped

(* What it has found it puts into the cache.                               *)
LEMMA PutMissesBufs ==
  ASSUME RefsInv, DiskTyped, FoundTyped, NEW p \in Inserters, PutMisses(p), disk' = disk
  PROVE  DiskTyped' /\ FoundTyped'
<1>1. /\ missing' = [missing EXCEPT ![p] = NoPages]
      /\ found' = [found EXCEPT ![p] = NoRecords]
      /\ cached' = [l \in Locs |-> IF l \in DOMAIN found[p] THEN found[p][l] ELSE cached[l]]
  BY DEF PutMisses, AddRefs
<1>2. cached' \in [Locs -> Records]
  BY <1>1 DEF DiskTyped, FoundTyped
<1>3. /\ missing'[p] = NoPages /\ found'[p] = NoRecords
      /\ \A q \in Inserters \ {p} : missing'[q] = missing[q] /\ found'[q] = found[q]
  BY <1>1 DEF RefsInv, DataShape, PerInserter
<1>4. found'[p] \in [PageLocs(DOMAIN missing'[p]) -> Records]
  <2>1. PageLocs({}) = {} /\ DOMAIN NoPages = {}
    BY DEF PageLocs, NoPages
  <2>2. NoRecords \in [{} -> Records]
    BY DEF NoRecords
  <2> QED BY ONLY <1>3, <2>1, <2>2
<1>5. \A S : PageLocs(S)' = PageLocs(S)
  BY DEF PageLocs, Locs, LT!Locs, PageOf, LT!PageOf
<1> QED BY <1>2, <1>3, <1>4, <1>5, SamePages DEF DiskTyped, FoundTyped

(* deref() clears what it drops.                                           *)
LEMMA DropRefsTyped ==
  ASSUME cached \in [Locs -> Records], NEW reqs, DropRefs(reqs)
  PROVE  cached' \in [Locs -> Records]
<1>1. Blank \in Records
  BY DEF Blank, Records
<1>2. PICK kept \in [Locs -> BOOLEAN] :
        cached' = [l \in Locs |-> IF kept[l] THEN cached[l] ELSE Blank]
  <2> DEFINE left(g) == refs[g] - (IF g \in DOMAIN reqs THEN reqs[g] ELSE 0)
             kept == [l \in Locs |-> left(PageOf(l)) > 0]
  <2>1. cached' = [l \in Locs |-> IF left(PageOf(l)) > 0 THEN cached[l] ELSE Blank]
    BY DEF DropRefs
  <2> HIDE DEF left
  <2>2. kept \in [Locs -> BOOLEAN]
    OBVIOUS
  <2>3. cached' = [l \in Locs |-> IF kept[l] THEN cached[l] ELSE Blank]
    BY <2>1
  <2> QED BY <2>2, <2>3
<1> QED BY <1>1, <1>2

(* The records of an insert are records, and those of its pages.           *)
LEMMA NewRecordsTyped ==
  ASSUME Shape, P!IInv, BufTyped, NEW p \in Inserters, DataSetTarget(p)
  PROVE  NewRecords(p) \in [PageLocs(WritePages(p)) -> Records]
<1>1. target[p] \in Ids /\ nbrs[p] \subseteq Ids /\ at[p] = "update"
  BY OwnIds DEF DataSetTarget, SetTarget, OwnIdsOK, MyIds, Over
<1>2. \A i \in nbrs[p] : buf[p][id2loc[i]] \in Records
  BY DEF DataSetTarget, BufTyped
<1>3. \A l \in PageLocs(WritePages(p)) : buf[p][l] \in Records
  BY <1>1 DEF BufTyped
<1>4. \A r \in Records : [r EXCEPT !.nbrs = @ \cup {target[p]}] \in Records
  BY <1>1 DEF Records
<1>5. [id |-> target[p], nbrs |-> nbrs[p]] \in Records
  BY <1>1 DEF Records
<1>6. ASSUME NEW l \in PageLocs(WritePages(p))
      PROVE  NewRecords(p)[l] \in Records
  <2>1. CASE l = locs[p][target[p]]
    BY <1>5, <2>1 DEF NewRecords
  <2>2. CASE l # locs[p][target[p]] /\ \E i \in nbrs[p] : locs[p][i] = l
    <3> DEFINE i == CHOOSE i \in nbrs[p] : locs[p][i] = l
    <3>1. i \in nbrs[p]
      BY <2>2
    <3>2. NewRecords(p)[l] = [buf[p][id2loc[i]] EXCEPT !.nbrs = @ \cup {target[p]}]
      BY <2>2 DEF NewRecords
    <3> HIDE DEF i
    <3> QED BY <1>2, <1>4, <3>1, <3>2
  <2>3. CASE l # locs[p][target[p]] /\ ~\E i \in nbrs[p] : locs[p][i] = l
    BY <1>3, <2>3 DEF NewRecords
  <2> QED BY <2>1, <2>2, <2>3
<1>7. NewRecords(p) = [l \in PageLocs(WritePages(p)) |-> NewRecords(p)[l]]
  BY DEF NewRecords
<1> HIDE DEF NewRecords
<1> QED BY <1>6, <1>7

(* wbc_write() puts them into the cache.                                   *)
LEMMA SetTargetBufs ==
  ASSUME Shape, P!IInv, RefsInv, BufsInv, NEW p \in Inserters, DataSetTarget(p)
  PROVE  BufsInv'
<1> DEFINE new == NewRecords(p)
<1>1. /\ SetTarget(p) /\ locs' = locs /\ at[p] = "update" /\ at' = [at EXCEPT ![p] = "lockidx"]
      /\ UNCHANGED <<disk, missing, found, bg_bufs, bg_buf, bg_tasks, bg_task>>
      /\ buf' = [buf EXCEPT ![p] = new]
      /\ cached' = [l \in Locs |-> IF l \in DOMAIN new THEN new[l] ELSE cached[l]]
  BY DEF DataSetTarget, SetTarget, AddRefs, locals, bg
<1>2. new \in [PageLocs(WritePages(p)) -> Records]
  BY NewRecordsTyped DEF BufsInv
<1> HIDE DEF new
<1>3. \A S : PageLocs(S)' = PageLocs(S)
  BY DEF PageLocs, Locs, LT!Locs, PageOf, LT!PageOf
<1>4. DiskTyped' /\ FoundTyped'
  BY <1>1, <1>2, <1>3, SamePages DEF BufsInv, DiskTyped, FoundTyped
<1>5. /\ at'[p] = "lockidx" /\ buf'[p] = new /\ DOMAIN new = PageLocs(WritePages(p))
      /\ \A q \in Inserters \ {p} : at'[q] = at[q] /\ buf'[q] = buf[q]
      /\ \A q \in Inserters : WritePages(q)' = WritePages(q)
  BY <1>1, <1>2 DEF Shape, RefsInv, DataShape, PerInserter, WritePages
<1>6. BufTyped'
  <2>1. \A q \in Inserters : /\ buf'[q] \in [DOMAIN buf'[q] -> Records]
                             /\ at'[q] = "update" => PageLocs(WritePages(q)) \subseteq DOMAIN buf'[q]
                             /\ HasWritten(q)' => DOMAIN buf'[q] = PageLocs(WritePages(q))
    BY <1>2, <1>5 DEF BufsInv, BufTyped, HasWritten
  <2> QED BY <1>3, <1>5, <2>1, SamePages DEF BufTyped
<1>7. TaskTyped'
  BY <1>1, <1>3, SamePages DEF BufsInv, TaskTyped
<1> QED BY <1>4, <1>6, <1>7 DEF BufsInv

(* The buffers that read_alloc() fills.                                    *)
LEMMA ReadPagesBufs ==
  ASSUME Shape, RefsInv, BufsInv, NEW p \in Inserters, DataReadPages(p)
  PROVE  BufsInv'
<1> DEFINE S == {PageOf(id2loc[i]) : i \in nbrs[p]} \cup WritePages(p)
           new == [l \in PageLocs(S) |-> IF PageOf(l) \in RawPages(p) THEN Blank ELSE Contents(l)]
           reqs == [g \in {PageOf(id2loc[i]) : i \in nbrs[p]} \cup need_read[p] |->
                      Cardinality({i \in nbrs[p] : PageOf(id2loc[i]) = g})
                        + (IF g \in need_read[p] THEN 1 ELSE 0)]
<1>1. /\ ReadPages(p) /\ Request(p, reqs) /\ at[p] = "read" /\ at' = [at EXCEPT ![p] = "update"]
      /\ locs' = locs /\ buf' = [buf EXCEPT ![p] = new]
      /\ UNCHANGED <<disk, bg_bufs, bg_buf, bg_tasks, bg_task>>
  BY DEF DataReadPages, ReadPages, locals, bg
<1>2. Blank \in Records
  BY DEF Blank, Records
<1>3. \A l \in PageLocs(S) : l \in Locs /\ Contents(l) \in Records
  BY ContentsTyped DEF BufsInv, PageLocs
<1>4. DOMAIN new = PageLocs(S) /\ new \in [PageLocs(S) -> Records]
  BY <1>2, <1>3
<1>5. PageLocs(WritePages(p)) \subseteq PageLocs(S)
  BY DEF PageLocs
<1> HIDE DEF S, new, reqs
<1>6. \A T : PageLocs(T)' = PageLocs(T)
  BY DEF PageLocs, Locs, LT!Locs, PageOf, LT!PageOf
<1>7. DiskTyped' /\ FoundTyped'
  BY <1>1, RequestBufs DEF BufsInv
<1>8. /\ at'[p] = "update" /\ buf'[p] = new
      /\ \A q \in Inserters \ {p} : at'[q] = at[q] /\ buf'[q] = buf[q]
      /\ \A q \in Inserters : WritePages(q)' = WritePages(q)
  BY <1>1 DEF Shape, RefsInv, DataShape, PerInserter, WritePages
<1>9. BufTyped'
  <2>1. \A q \in Inserters : /\ buf'[q] \in [DOMAIN buf'[q] -> Records]
                             /\ at'[q] = "update" => PageLocs(WritePages(q)) \subseteq DOMAIN buf'[q]
                             /\ HasWritten(q)' => DOMAIN buf'[q] = PageLocs(WritePages(q))
    BY <1>4, <1>5, <1>8 DEF BufsInv, BufTyped, HasWritten
  <2> QED BY <1>6, <1>8, <2>1, SamePages DEF BufTyped
<1>10. TaskTyped'
  BY <1>1, <1>6, SamePages DEF BufsInv, TaskTyped
<1> QED BY <1>7, <1>9, <1>10 DEF BufsInv

(* The buffers of an insert go to the queue with its task, ...             *)
LEMMA PushTaskBufs ==
  ASSUME Shape, TodoOK, TasksOK, RefsInv, BufsInv, NEW p \in Inserters, DataPushTask(p)
  PROVE  BufsInv'
<1>1. /\ PushTask(p) /\ at[p] = "push" /\ at' = [at EXCEPT ![p] = "idle"]
      /\ bg_tasks' = Append(bg_tasks, WritePages(p)) /\ bg_task' = bg_task
      /\ bg_bufs' = Append(bg_bufs, buf[p]) /\ bg_buf' = bg_buf
      /\ buf' = [buf EXCEPT ![p] = NoRecords] /\ locs' = [locs EXCEPT ![p] = None]
      /\ DropRefs(page_ref[p])
      /\ UNCHANGED <<disk, missing, found>>
  BY DEF DataPushTask, PushTask
<1>2. \A S : PageLocs(S)' = PageLocs(S)
  BY DEF PageLocs, Locs, LT!Locs, PageOf, LT!PageOf
<1>3. DiskTyped' /\ FoundTyped'
  <2>1. cached' \in [Locs -> Records]
    BY <1>1, DropRefsTyped DEF BufsInv, DiskTyped
  <2> QED BY <1>1, <1>2, <2>1, SamePages DEF BufsInv, DiskTyped, FoundTyped
<1>4. /\ at'[p] = "idle" /\ buf'[p] = NoRecords
      /\ \A q \in Inserters \ {p} : /\ at'[q] = at[q] /\ buf'[q] = buf[q]
                                    /\ WritePages(q)' = WritePages(q)
  BY <1>1 DEF Shape, RefsInv, DataShape, PerInserter, WritePages
<1>5. BufTyped'
  <2>1. NoRecords \in [DOMAIN NoRecords -> Records]
    BY DEF NoRecords
  <2>2. \A q \in Inserters : /\ buf'[q] \in [DOMAIN buf'[q] -> Records]
                             /\ at'[q] = "update" => PageLocs(WritePages(q)') \subseteq DOMAIN buf'[q]
                             /\ HasWritten(q)' => DOMAIN buf'[q] = PageLocs(WritePages(q)')
    BY <1>4, <2>1 DEF BufsInv, BufTyped, HasWritten
  <2> QED BY <1>2, <2>2, SamePages DEF BufTyped
<1>6. TaskTyped'
  <2>1. WritePages(p) \in SUBSET Pages /\ bg_tasks \in Seq(SUBSET Pages)
    BY <1>1 DEF TodoOK, TasksOK, Writing
  <2>2. buf[p] \in [PageLocs(WritePages(p)) -> Records] /\ DOMAIN buf[p] = PageLocs(WritePages(p))
    BY <1>1 DEF BufsInv, BufTyped, HasWritten
  <2>3. buf[p] \in Pieces /\ bg_bufs \in Seq(Pieces)
    BY <2>1, <2>2 DEF Pieces, BufsInv, TaskTyped
  <2>4. /\ bg_bufs' \in Seq(Pieces) /\ Len(bg_bufs') = Len(bg_bufs) + 1
        /\ bg_bufs'[Len(bg_bufs) + 1] = buf[p]
        /\ \A k \in 1 .. Len(bg_bufs) : bg_bufs'[k] = bg_bufs[k]
    BY <1>1, <2>3, QueueStep
  <2>5. /\ Len(bg_tasks') = Len(bg_tasks) + 1 /\ Len(bg_tasks) \in Nat
        /\ bg_tasks'[Len(bg_tasks) + 1] = WritePages(p)
        /\ \A k \in 1 .. Len(bg_tasks) : bg_tasks'[k] = bg_tasks[k]
    BY <1>1, <2>1, QueueStep
  <2>6. Len(bg_bufs) = Len(bg_tasks)
    BY DEF BufsInv, TaskTyped
  <2>7. ASSUME NEW k \in 1 .. Len(bg_tasks')
        PROVE  DOMAIN bg_bufs'[k] = PageLocs(bg_tasks'[k])
    <3>1. CASE k = Len(bg_tasks) + 1
      BY <2>2, <2>4, <2>5, <2>6, <3>1
    <3>2. CASE k # Len(bg_tasks) + 1
      <4>1. k \in 1 .. Len(bg_tasks)
        BY <2>5, <3>2
      <4> QED BY <2>4, <2>5, <2>6, <4>1 DEF BufsInv, TaskTyped
    <3> QED BY <3>1, <3>2
  <2> QED BY <1>1, <1>2, <2>4, <2>5, <2>6, <2>7, SamePages DEF BufsInv, TaskTyped
<1> QED BY <1>3, <1>5, <1>6 DEF BufsInv

(* ... and from there to the disk.                                         *)
LEMMA BgBufs ==
  ASSUME Shape, TasksOK, BufsInv, DataBgPop \/ DataBgFinish
  PROVE  BufsInv'
<1>1. \A S : PageLocs(S)' = PageLocs(S)
  BY DEF PageLocs, Locs, LT!Locs, PageOf, LT!PageOf
<1>2. UNCHANGED <<missing, found, buf, at, locs>>
  BY DEF DataBgPop, DataBgFinish, BgPop, BgFinish, locals
<1>3. FoundTyped' /\ BufTyped'
  BY <1>1, <1>2, SamePages DEF BufsInv, FoundTyped, BufTyped, HasWritten, WritePages
<1>4. CASE DataBgPop
  <2>1. /\ bg_tasks # <<>> /\ bg_tasks' = Tail(bg_tasks) /\ bg_task' = Head(bg_tasks)
        /\ bg_buf' = Head(bg_bufs) /\ bg_bufs' = Tail(bg_bufs)
        /\ UNCHANGED <<disk, cached>>
    BY <1>4 DEF DataBgPop, BgPop
  <2>2. /\ bg_tasks \in Seq(SUBSET Pages) /\ bg_bufs \in Seq(Pieces)
        /\ Len(bg_bufs) = Len(bg_tasks)
    BY DEF TasksOK, BufsInv, TaskTyped
  <2>3. /\ Len(bg_tasks) \in Nat /\ Len(bg_tasks) > 0 /\ bg_task' = bg_tasks[1]
        /\ Len(bg_tasks') = Len(bg_tasks) - 1
        /\ \A k \in 1 .. Len(bg_tasks) - 1 : bg_tasks'[k] = bg_tasks[k + 1]
    BY <2>1, <2>2, QueueStep
  <2>4. /\ bg_buf' = bg_bufs[1] /\ bg_bufs' \in Seq(Pieces)
        /\ Len(bg_bufs') = Len(bg_bufs) - 1
        /\ \A k \in 1 .. Len(bg_bufs) - 1 : bg_bufs'[k] = bg_bufs[k + 1]
        /\ bg_bufs[1] \in Pieces
    <3>1. bg_bufs # <<>>
      BY <2>2, <2>3
    <3> QED BY <2>1, <2>2, <2>3, <3>1, QueueStep
  <2>5. bg_buf' \in [PageLocs(bg_task') -> Records]
    <3>1. DOMAIN bg_bufs[1] = PageLocs(bg_tasks[1])
      BY <2>3 DEF BufsInv, TaskTyped
    <3>2. \A r \in Pieces : r \in [DOMAIN r -> Records]
      BY DEF Pieces
    <3> QED BY <2>3, <2>4, <3>1, <3>2
  <2>6. \A k \in 1 .. Len(bg_tasks') : DOMAIN bg_bufs'[k] = PageLocs(bg_tasks'[k])
    <3> SUFFICES ASSUME NEW k \in 1 .. Len(bg_tasks')
                 PROVE  DOMAIN bg_bufs'[k] = PageLocs(bg_tasks'[k])
      OBVIOUS
    <3>1. k \in 1 .. Len(bg_tasks) - 1 /\ k + 1 \in 1 .. Len(bg_tasks)
      BY <2>3
    <3> QED BY <2>2, <2>3, <2>4, <3>1 DEF BufsInv, TaskTyped
  <2>7. TaskTyped'
    BY <1>1, <2>2, <2>3, <2>4, <2>5, <2>6, SamePages DEF TaskTyped
  <2>8. DiskTyped'
    BY <2>1, SamePages DEF BufsInv, DiskTyped
  <2> QED BY <1>3, <2>7, <2>8 DEF BufsInv
<1>5. CASE DataBgFinish
  <2>1. /\ bg_tasks' = bg_tasks /\ bg_bufs' = bg_bufs /\ bg_task' = {} /\ bg_buf' = NoRecords
        /\ disk' = [l \in Locs |-> IF l \in DOMAIN bg_buf THEN bg_buf[l] ELSE disk[l]]
        /\ DropRefs([g \in bg_task |-> 1])
    BY <1>5 DEF DataBgFinish, BgFinish
  <2>2. disk' \in [Locs -> Records]
    BY <2>1 DEF BufsInv, DiskTyped, TaskTyped
  <2>3. cached' \in [Locs -> Records]
    BY <2>1, DropRefsTyped DEF BufsInv, DiskTyped
  <2>4. NoRecords \in [PageLocs({}) -> Records]
    BY DEF NoRecords, PageLocs
  <2>5. TaskTyped'
    BY <1>1, <2>1, <2>4, SamePages DEF BufsInv, TaskTyped
  <2> QED BY <1>3, <2>2, <2>3, <2>5, SamePages DEF BufsInv, DiskTyped
<1> QED BY <1>4, <1>5

(* Nothing is read or written at the start.                                *)
LEMMA BufsInit == DataInit => BufsInv
<1> SUFFICES ASSUME DataInit PROVE BufsInv
  OBVIOUS
<1>1. Blank \in Records
  BY DEF Blank, Records
<1>2. DiskTyped
  <2>1. \A l \in Locs : l < NPoints => [id |-> l, nbrs |-> {}] \in Records
    BY DirectInsertAssumption DEF Records, Ids, LT!Ids, Locs, LT!Locs
  <2> QED BY <1>1, <2>1 DEF DataInit, DiskTyped
<1>3. PageLocs({}) = {} /\ DOMAIN NoPages = {} /\ NoRecords \in [{} -> Records]
      /\ DOMAIN NoRecords = {}
  BY DEF PageLocs, NoPages, NoRecords
<1>4. \A p \in Inserters : /\ at[p] = "idle" /\ buf[p] = NoRecords
                           /\ missing[p] = NoPages /\ found[p] = NoRecords
  BY DEF DataInit, Init
<1>5. FoundTyped /\ BufTyped
  BY <1>3, <1>4 DEF FoundTyped, BufTyped, HasWritten
<1>6. TaskTyped
  BY <1>3 DEF DataInit, Init, TaskTyped
<1> QED BY <1>2, <1>5, <1>6 DEF BufsInv

(* Every step keeps the records in their places.                           *)
LEMMA BufsNext == IInv /\ RefsInv /\ BufsInv /\ [DataNext]_allVars => BufsInv'
<1> SUFFICES ASSUME IInv, RefsInv, BufsInv, [DataNext]_allVars
             PROVE  BufsInv'
  OBVIOUS
<1>0. Shape /\ P!IInv /\ TodoOK /\ TasksOK
  BY DEF IInv
<1>1. \A S : PageLocs(S)' = PageLocs(S)
  BY DEF PageLocs, Locs, LT!Locs, PageOf, LT!PageOf
<1>2. ASSUME UNCHANGED <<bg_tasks, bg_task, bg_bufs, bg_buf>>
      PROVE  TaskTyped'
  BY <1>1, <1>2, SamePages DEF BufsInv, TaskTyped
<1>3. ASSUME NEW p \in Inserters, NEW i \in Ids, DataVisit(p, i) PROVE BufsInv'
  <2>1. /\ Visit(p, i) /\ Request(p, [g \in {PageOf(id2loc[i])} |-> 1])
        /\ UNCHANGED <<disk, buf, bg_tasks, bg_task, bg_bufs, bg_buf>>
    BY <1>3 DEF DataVisit, Visit, bg
  <2>2. DiskTyped' /\ FoundTyped'
    BY <2>1, RequestBufs DEF BufsInv
  <2>3. BufTyped'
    BY <1>0, <2>1, BufTypedKept DEF BufsInv
  <2> QED BY <1>2, <2>1, <2>2, <2>3 DEF BufsInv
<1>4. ASSUME NEW p \in Inserters, DataEndVisit(p) \/ FillCache(p) PROVE BufsInv'
  <2>1. /\ EndVisit(p) \/ UNCHANGED vars
        /\ PutMisses(p) /\ UNCHANGED <<disk, buf, bg_tasks, bg_task, bg_bufs, bg_buf>>
    BY <1>4 DEF DataEndVisit, FillCache, EndVisit, vars, bg
  <2>2. DiskTyped' /\ FoundTyped'
    BY <2>1, PutMissesBufs DEF BufsInv
  <2>3. BufTyped'
    <3>1. CASE EndVisit(p)
      BY <1>0, <2>1, <3>1, BufTypedKept DEF BufsInv
    <3>2. CASE UNCHANGED vars
      BY <1>1, <2>1, <3>2, SamePages DEF vars, locals, BufsInv, BufTyped, HasWritten, WritePages
    <3> QED BY <2>1, <3>1, <3>2
  <2> QED BY <1>2, <2>1, <2>2, <2>3 DEF BufsInv
<1>5. ASSUME NEW p \in Inserters, NEW keep \in SUBSET nbrs[p], DataAllocLoc(p, keep)
      PROVE  BufsInv'
  <2>1. /\ AllocLoc(p, keep)
        /\ UNCHANGED <<disk, cached, missing, found, buf, bg_tasks, bg_task, bg_bufs, bg_buf>>
    BY <1>5 DEF DataAllocLoc, AllocLoc, bg
  <2>2. BufTyped'
    BY <1>0, <2>1, BufTypedKept DEF BufsInv
  <2> QED BY <1>1, <1>2, <2>1, <2>2, SamePages DEF BufsInv, DiskTyped, FoundTyped
<1>6. ASSUME NEW p \in Inserters, DataReadPages(p) PROVE BufsInv'
  BY <1>0, <1>6, ReadPagesBufs
<1>7. ASSUME NEW p \in Inserters, DataSetTarget(p) PROVE BufsInv'
  BY <1>0, <1>7, SetTargetBufs
<1>8. ASSUME NEW p \in Inserters, DataPushTask(p) PROVE BufsInv'
  BY <1>0, <1>8, PushTaskBufs
<1>9. ASSUME NEW p \in Inserters, UNCHANGED dataVars,
             \/ Begin(p) \/ BeginSearch(p) \/ LockPage(p) \/ LockVec(p) \/ LockIdx(p)
             \/ MoveIds(p) \/ EraseAndSetLoc(p) \/ UnlockVec(p) \/ UnlockTarget(p)
      PROVE  BufsInv'
  <2>1. UNCHANGED <<disk, cached, missing, found, buf, bg_tasks, bg_task, bg_bufs, bg_buf>>
    BY <1>9 DEF dataVars, Begin, BeginSearch, LockPage, LockVec, LockIdx, MoveIds,
                EraseAndSetLoc, UnlockVec, UnlockTarget, bg
  <2>2. BufTyped'
    BY <1>0, <1>9, <2>1, BufTypedKept DEF BufsInv
  <2> QED BY <1>1, <1>2, <2>1, <2>2, SamePages DEF BufsInv, DiskTyped, FoundTyped
<1>10. CASE DataBgPop \/ DataBgFinish
  BY <1>0, <1>10, BgBufs
<1>11. CASE UNCHANGED allVars
  <2>1. UNCHANGED <<disk, cached, missing, found, buf, bg_tasks, bg_task, bg_bufs, bg_buf>>
        /\ UNCHANGED <<at, locs>>
    BY <1>11 DEF allVars, dataVars, vars, locals, bg
  <2> QED BY <1>1, <1>2, <2>1, SamePages
          DEF BufsInv, DiskTyped, FoundTyped, BufTyped, HasWritten, WritePages
<1> QED BY <1>3, <1>4, <1>5, <1>6, <1>7, <1>8, <1>9, <1>10, <1>11 DEF DataNext

(* Every variable that InsertData adds keeps its type: each task has the   *)
(* records of its pages, and what was found is what is missing.            *)
THEOREM DataTypeCorrect == DataSpec => []DataTypeOK
<1>1. IInv /\ RefsInv /\ BufsInv => DataTypeOK
  <2> SUFFICES ASSUME IInv, RefsInv, BufsInv PROVE DataTypeOK
    OBVIOUS
  <2>1. refs \in [Pages -> Nat]
    BY RefsNat DEF IInv, RefsInv, DataShape
  <2>2. disk \in [Locs -> Records] /\ cached \in [Locs -> Records]
    BY DEF BufsInv, DiskTyped
  <2>3. page_ref \in [Inserters -> [Pages -> Nat]] /\ need_read \in [Inserters -> SUBSET Pages]
    BY DEF RefsInv, DataShape
  <2>4. \A p \in Inserters :
          /\ \A l \in DOMAIN buf[p] : buf[p][l] \in Records
          /\ DOMAIN missing[p] \subseteq Pages
          /\ DOMAIN found[p] = PageLocs(DOMAIN missing[p])
    BY DEF BufsInv, BufTyped, FoundTyped, RefsInv, MissesOK
  <2>5. Len(bg_bufs) = Len(bg_tasks) /\ DOMAIN bg_buf = PageLocs(bg_task)
    BY DEF BufsInv, TaskTyped
  <2> QED BY <2>1, <2>2, <2>3, <2>4, <2>5 DEF DataTypeOK
<1> QED BY <1>1, RefsInit, RefsNext, BufsInit, BufsNext, DataSteps, StepsInvariance, PTL
        DEF DataSpec

-----------------------------------------------------------------------------
(* With one inserting thread: its searches, its inserts and the background *)
(* thread share the cache without losing a record.                         *)

OneThread == \A p, q \in Inserters : p = q

(* The pages whose new records are in the cache and not yet on disk.       *)
Pending(g) ==
  \/ \E p \in Inserters : HasWritten(p) /\ g \in WritePages(p)
  \/ \E k \in 1 .. Len(bg_tasks) : g \in bg_tasks[k]
  \/ g \in bg_task

(* What is to be written is what the cache has.                            *)
WritesCached ==
  /\ \A p \in Inserters : HasWritten(p) => \A l \in PageLocs(WritePages(p)) : cached[l] = buf[p][l]
  /\ \A k \in 1 .. Len(bg_tasks) : \A l \in PageLocs(bg_tasks[k]) : cached[l] = bg_bufs[k][l]
  /\ \A l \in PageLocs(bg_task) : cached[l] = bg_buf[l]

(* The cache differs from the disk in these pages only.                    *)
CacheClean ==
  \A l \in Locs : refs[PageOf(l)] > 0 /\ ~Pending(PageOf(l)) => cached[l] = disk[l]

(* What read_alloc() has read from disk is still so when it is put() into  *)
(* the cache: nobody has put the page there meanwhile.  (False with two    *)
(* threads.)                                                               *)
MissesFresh ==
  \A p \in Inserters :
    /\ \A g \in DOMAIN missing[p] : refs[g] = 0
    /\ \A l \in PageLocs(DOMAIN missing[p]) : found[p][l] = disk[l]

CacheInv == WritesCached /\ CacheClean /\ MissesFresh

(* A page that is still to be written is referenced.                       *)
LEMMA PendingReferenced ==
  ASSUME IInv, RefsInv, NEW g \in Pages, Pending(g)
  PROVE  refs[g] > 0
<1>1. /\ IsFiniteSet(HeldRefs(g)) /\ Cardinality(HeldRefs(g)) \in Nat
      /\ Cardinality(QueuedRefs(g)) \in Nat
      /\ refs[g] = Cardinality(HeldRefs(g)) + Cardinality(QueuedRefs(g))
                     + (IF g \in bg_task THEN 1 ELSE 0)
  BY FS_CardinalityType, QueuedCount DEF RefsInv, RefsAccounted, IInv
<1>2. CASE \E p \in Inserters : HasWritten(p) /\ g \in WritePages(p)
  <2>1. PICK p \in Inserters : HasWritten(p) /\ g \in WritePages(p)
    BY <1>2
  <2>2. DOMAIN missing[p] = {} /\ page_ref[p][g] \in Nat
    BY <2>1 DEF HasWritten, RefsInv, MissesOK, DataShape
  <2>3. Held(p, g) = page_ref[p][g] - 0 + 1
    BY <2>1, <2>2 DEF Held
  <2>4. <<p, 1>> \in HeldRefs(g)
    BY <2>2, <2>3 DEF HeldRefs
  <2>5. Cardinality(HeldRefs(g)) # 0
    BY <1>1, <2>4, FS_EmptySet
  <2> QED BY ONLY <1>1, <2>5
<1>3. CASE \E k \in 1 .. Len(bg_tasks) : g \in bg_tasks[k]
  <2>1. QueuedRefs(g) # {}
    BY <1>3 DEF QueuedRefs
  <2>2. IsFiniteSet(QueuedRefs(g))
    BY QueuedFinite DEF QueuedRefs, Queued, IInv, TasksOK
  <2>3. Cardinality(QueuedRefs(g)) # 0
    BY <2>1, <2>2, FS_EmptySet
  <2> QED BY ONLY <1>1, <2>3
<1>4. CASE g \in bg_task
  BY ONLY <1>1, <1>4
<1> QED BY <1>2, <1>3, <1>4 DEF Pending

(* The same after a step.                                                  *)
LEMMA PendingReferencedNext ==
  (IInv /\ RefsInv)' => \A g \in Pages : Pending(g)' => refs'[g] > 0
<1>1. IInv /\ RefsInv => \A g \in Pages : Pending(g) => refs[g] > 0
  BY PendingReferenced
<1>2. (IInv /\ RefsInv => \A g \in Pages : Pending(g) => refs[g] > 0)'
  BY <1>1, PTL
<1> QED BY <1>2, SamePages

(* Locations and their pages.                                              *)
LEMMA PageLocsFacts ==
  /\ \A S : PageLocs(S)' = PageLocs(S)
  /\ \A S, l : l \in PageLocs(S) <=> l \in Locs /\ PageOf(l) \in S
  /\ \A l \in Locs : PageOf(l) \in Pages
  BY DEF PageLocs, Locs, LT!Locs, PageOf, LT!PageOf, Pages, LT!Pages

(* A look-up leaves the records that there are as they are, ...            *)
LEMMA RequestCache ==
  ASSUME OneThread, IInv, RefsInv, CacheInv, NEW p \in Inserters, NEW reqs, Request(p, reqs),
         DOMAIN reqs \subseteq Pages, \A g \in DOMAIN reqs : reqs[g] \in Nat,
         ~HasWritten(p), ~HasWritten(p)',
         UNCHANGED <<disk, bg_tasks, bg_task, bg_bufs, bg_buf>>, DiskTyped
  PROVE  CacheInv' /\ \A l \in Locs : Contents(l)' = Contents(l)
<1> DEFINE miss == {g \in DOMAIN reqs : refs[g] = 0}
<1>1. /\ refs' = [g \in Pages |-> refs[g] +
                    (IF g \in DOMAIN reqs \ miss THEN reqs[g] ELSE 0)]
      /\ missing' = [missing EXCEPT ![p] = [g \in miss |-> reqs[g]]]
      /\ found' = [found EXCEPT ![p] = [l \in PageLocs(miss) |-> disk[l]]]
      /\ cached' = [l \in Locs |-> IF l \in DOMAIN NoRecords THEN NoRecords[l] ELSE cached[l]]
  BY DEF Request, AddRefs
<1>2. cached' = cached
  BY <1>1 DEF NoRecords, DiskTyped
<1>3. /\ DOMAIN missing'[p] = miss /\ found'[p] = [l \in PageLocs(miss) |-> disk[l]]
      /\ \A q \in Inserters : q = p
  BY <1>1 DEF RefsInv, DataShape, PerInserter, OneThread
<1>4. ASSUME NEW g \in Pages
      PROVE  /\ refs[g] \in Nat /\ refs'[g] \in Nat
             /\ refs'[g] > 0 <=> refs[g] > 0
             /\ g \in miss => refs'[g] = 0
  <2>1. refs[g] \in Nat
    BY RefsNat DEF IInv
  <2>2. refs'[g] = refs[g] + (IF g \in DOMAIN reqs \ miss THEN reqs[g] ELSE 0)
    BY <1>1
  <2>3. g \in DOMAIN reqs /\ g \notin miss => refs[g] # 0
    OBVIOUS
  <2>4. g \in miss => refs[g] = 0
    OBVIOUS
  <2> HIDE DEF miss
  <2> QED BY <2>1, <2>2, <2>3, <2>4
<1>5. miss \subseteq Pages
  OBVIOUS
<1> HIDE DEF miss
<1>6. \A g : Pending(g)' <=> Pending(g)
  BY <1>3 DEF Pending
<1>7. \A l \in Locs : Contents(l)' = Contents(l)
  BY <1>2, <1>4, PageLocsFacts DEF Contents, PageOf, LT!PageOf
<1>8. WritesCached'
  BY <1>2, <1>3, PageLocsFacts DEF CacheInv, WritesCached
<1>9. CacheClean'
  BY <1>2, <1>4, <1>6, PageLocsFacts, SamePages DEF CacheInv, CacheClean, PageOf, LT!PageOf
<1>10. MissesFresh'
  <2>1. \A g \in DOMAIN missing'[p] : refs'[g] = 0
    BY <1>3, <1>4, <1>5
  <2>2. \A l \in PageLocs(DOMAIN missing'[p]) : found'[p][l] = disk'[l]
    BY <1>3
  <2> QED BY <1>3, <2>1, <2>2, PageLocsFacts DEF MissesFresh
<1> QED BY <1>7, <1>8, <1>9, <1>10 DEF CacheInv

(* ... and so does the put() of what it has read.                          *)
LEMMA PutMissesCache ==
  ASSUME OneThread, IInv, RefsInv, BufsInv, CacheInv, NEW p \in Inserters, PutMisses(p),
         ~HasWritten(p), ~HasWritten(p)',
         UNCHANGED <<disk, bg_tasks, bg_task, bg_bufs, bg_buf>>
  PROVE  CacheInv' /\ \A l \in Locs : Contents(l)' = Contents(l)
<1> DEFINE miss == DOMAIN missing[p]
<1>1. /\ refs' = [g \in Pages |-> refs[g] + (IF g \in miss THEN missing[p][g] ELSE 0)]
      /\ missing' = [missing EXCEPT ![p] = NoPages]
      /\ found' = [found EXCEPT ![p] = NoRecords]
      /\ cached' = [l \in Locs |-> IF l \in DOMAIN found[p] THEN found[p][l] ELSE cached[l]]
  BY DEF PutMisses, AddRefs
<1>2. DOMAIN missing'[p] = {} /\ \A q \in Inserters : q = p
  BY <1>1 DEF RefsInv, DataShape, PerInserter, OneThread, NoPages
<1>3. ASSUME NEW g \in Pages
      PROVE  /\ refs[g] \in Nat /\ refs'[g] \in Nat
             /\ g \notin miss => refs'[g] = refs[g]
             /\ g \in miss => refs[g] = 0 /\ ~Pending(g)
  <2>1. refs[g] \in Nat
    BY RefsNat DEF IInv
  <2>2. refs'[g] = refs[g] + (IF g \in miss THEN missing[p][g] ELSE 0)
    BY <1>1
  <2>3. g \in miss => missing[p][g] \in Nat
    <3>1. page_ref[p][g] \in Nat
      BY DEF RefsInv, DataShape
    <3> QED BY <3>1 DEF RefsInv, MissesOK
  <2>4. g \in miss => refs[g] = 0
    BY DEF CacheInv, MissesFresh
  <2>5. g \in miss => ~Pending(g)
    BY <2>4, PendingReferenced
  <2> HIDE DEF miss
  <2> QED BY <2>1, <2>2, <2>3, <2>4, <2>5
<1>4. ASSUME NEW l \in Locs
      PROVE  /\ PageOf(l) \in miss => cached'[l] = disk[l]
             /\ PageOf(l) \notin miss => cached'[l] = cached[l]
  <2>1. DOMAIN found[p] = PageLocs(miss)
    BY DEF BufsInv, FoundTyped
  <2>2. l \in DOMAIN found[p] <=> PageOf(l) \in miss
    BY <2>1, PageLocsFacts
  <2>3. l \in DOMAIN found[p] => found[p][l] = disk[l]
    BY <2>1 DEF CacheInv, MissesFresh
  <2> HIDE DEF miss
  <2> QED BY <1>1, <2>2, <2>3
<1> HIDE DEF miss
<1>5. \A g : Pending(g)' <=> Pending(g)
  BY <1>2 DEF Pending
<1>6. ASSUME NEW l \in Locs
      PROVE  Contents(l)' = Contents(l)
  <2>1. PageOf(l) \in Pages
    BY PageLocsFacts
  <2>2. Contents(l)' = IF refs'[PageOf(l)] > 0 THEN cached'[l] ELSE disk[l]
    BY DEF Contents, PageOf, LT!PageOf
  <2> QED BY <1>3, <1>4, <2>1, <2>2 DEF Contents
<1>7. \A l \in Locs : Pending(PageOf(l)) => cached'[l] = cached[l]
  BY <1>3, <1>4, PageLocsFacts
<1>8. WritesCached'
  <2>1. \A q \in Inserters : ~HasWritten(q)'
    BY <1>2
  <2>2. \A k \in 1 .. Len(bg_tasks) : \A l \in PageLocs(bg_tasks[k]) : cached'[l] = bg_bufs[k][l]
    BY <1>7, PageLocsFacts DEF CacheInv, WritesCached, Pending
  <2>3. \A l \in PageLocs(bg_task) : cached'[l] = bg_buf[l]
    BY <1>7, PageLocsFacts DEF CacheInv, WritesCached, Pending
  <2> QED BY <2>1, <2>2, <2>3, PageLocsFacts DEF WritesCached
<1>9. CacheClean'
  <2> SUFFICES ASSUME NEW l \in Locs, refs'[PageOf(l)] > 0, ~Pending(PageOf(l))
               PROVE  cached'[l] = disk[l]
    BY <1>5, SamePages DEF CacheClean, PageOf, LT!PageOf
  <2>1. PageOf(l) \in Pages
    BY PageLocsFacts
  <2> QED BY <1>3, <1>4, <2>1 DEF CacheInv, CacheClean
<1>10. MissesFresh'
  <2>1. PageLocs({}) = {}
    BY DEF PageLocs
  <2> QED BY <1>2, <2>1, PageLocsFacts DEF MissesFresh
<1> QED BY <1>6, <1>8, <1>9, <1>10 DEF CacheInv

(* The steps that are not about pages.                                     *)
LEMMA SameCache ==
  ASSUME OneThread, CacheInv, UNCHANGED <<disk, refs, cached, missing, found, buf, bg_bufs, bg_buf>>,
         UNCHANGED <<bg_tasks, bg_task>>,
         \A q \in Inserters : /\ HasWritten(q)' <=> HasWritten(q)
                              /\ HasWritten(q) => WritePages(q)' = WritePages(q)
  PROVE  CacheInv' /\ \A l \in Locs : Contents(l)' = Contents(l)
<1>1. \A g : Pending(g)' <=> Pending(g)
  BY DEF Pending
<1>2. \A l \in Locs : Contents(l)' = Contents(l)
  BY DEF Contents, PageOf, LT!PageOf
<1>3. WritesCached'
  BY PageLocsFacts DEF CacheInv, WritesCached
<1>4. CacheClean'
  BY <1>1, SamePages DEF CacheInv, CacheClean, PageOf, LT!PageOf
<1>5. MissesFresh'
  BY PageLocsFacts DEF CacheInv, MissesFresh
<1> QED BY <1>2, <1>3, <1>4, <1>5 DEF CacheInv

(* The background thread takes a task.                                     *)
LEMMA BgPopCache ==
  ASSUME IInv, BufsInv, CacheInv, DataBgPop
  PROVE  CacheInv' /\ \A l \in Locs : Contents(l)' = Contents(l)
<1>1. /\ bg_task = {} /\ bg_tasks # <<>> /\ bg_tasks' = Tail(bg_tasks) /\ bg_task' = Head(bg_tasks)
      /\ bg_buf' = Head(bg_bufs) /\ bg_bufs' = Tail(bg_bufs)
      /\ UNCHANGED <<disk, refs, cached, buf, missing, found, at, locs>>
  BY DEF DataBgPop, BgPop, locals
<1>2. /\ bg_tasks \in Seq(SUBSET Pages) /\ bg_bufs \in Seq(Pieces)
      /\ Len(bg_bufs) = Len(bg_tasks)
  BY DEF IInv, TasksOK, BufsInv, TaskTyped
<1>3. /\ Len(bg_tasks) \in Nat /\ Len(bg_tasks) > 0 /\ bg_task' = bg_tasks[1]
      /\ Len(bg_tasks') = Len(bg_tasks) - 1
      /\ \A k \in 1 .. Len(bg_tasks) - 1 : bg_tasks'[k] = bg_tasks[k + 1]
  BY <1>1, <1>2, QueueStep
<1>4. /\ bg_buf' = bg_bufs[1]
      /\ \A k \in 1 .. Len(bg_tasks) - 1 : bg_bufs'[k] = bg_bufs[k + 1]
  <2>1. bg_bufs # <<>>
    BY <1>2, <1>3
  <2> QED BY <1>1, <1>2, <1>3, <2>1, QueueStep
<1>5. \A k \in 1 .. Len(bg_tasks') : k \in 1 .. Len(bg_tasks) - 1 /\ k + 1 \in 1 .. Len(bg_tasks)
  BY <1>3
<1>6. 1 \in 1 .. Len(bg_tasks)
  BY <1>3
<1>7. ASSUME NEW g, Pending(g)
      PROVE  Pending(g)'
  <2>1. CASE \E p \in Inserters : HasWritten(p) /\ g \in WritePages(p)
    BY <1>1, <2>1 DEF Pending, HasWritten, WritePages
  <2>2. ASSUME NEW k \in 1 .. Len(bg_tasks), g \in bg_tasks[k]
        PROVE  g \in bg_task' \/ \E j \in 1 .. Len(bg_tasks') : g \in bg_tasks'[j]
    <3>1. CASE k = 1
      BY <1>3, <2>2, <3>1
    <3>2. CASE k # 1
      <4>1. k - 1 \in 1 .. Len(bg_tasks') /\ k - 1 \in 1 .. Len(bg_tasks) - 1 /\ (k - 1) + 1 = k
        BY <1>3, <3>2
      <4> QED BY <1>3, <2>2, <4>1
    <3> QED BY <3>1, <3>2
  <2>3. g \notin bg_task
    BY <1>1
  <2>4. (g \in bg_task' \/ \E j \in 1 .. Len(bg_tasks') : g \in bg_tasks'[j]) => Pending(g)'
    BY DEF Pending
  <2> QED BY <1>7, <2>1, <2>2, <2>3, <2>4 DEF Pending
<1>8. WritesCached'
  <2>1. \A p \in Inserters : HasWritten(p)' => \A l \in PageLocs(WritePages(p)') : cached[l] = buf[p][l]
    BY <1>1 DEF CacheInv, WritesCached, HasWritten, WritePages
  <2>2. \A l \in PageLocs(bg_task') : cached[l] = bg_buf'[l]
    BY <1>3, <1>4, <1>6 DEF CacheInv, WritesCached
  <2>3. \A k \in 1 .. Len(bg_tasks') : \A l \in PageLocs(bg_tasks'[k]) : cached[l] = bg_bufs'[k][l]
    BY <1>3, <1>4, <1>5 DEF CacheInv, WritesCached
  <2> QED BY <1>1, <2>1, <2>2, <2>3, PageLocsFacts DEF WritesCached
<1>9. CacheClean' /\ MissesFresh'
  BY <1>1, <1>7, PageLocsFacts, SamePages DEF CacheInv, CacheClean, MissesFresh, PageOf, LT!PageOf
<1>10. \A l \in Locs : Contents(l)' = Contents(l)
  BY <1>1 DEF Contents, PageOf, LT!PageOf
<1> QED BY <1>8, <1>9, <1>10 DEF CacheInv

(* What deref() does to a page.                                            *)
LEMMA DropRefsDoes ==
  ASSUME NEW reqs, DropRefs(reqs), NEW l \in Locs
  PROVE  /\ refs'[PageOf(l)] = refs[PageOf(l)] -
                (IF PageOf(l) \in DOMAIN reqs THEN reqs[PageOf(l)] ELSE 0)
         /\ cached'[l] = IF refs'[PageOf(l)] > 0 THEN cached[l] ELSE Blank
<1> DEFINE left(g) == refs[g] - (IF g \in DOMAIN reqs THEN reqs[g] ELSE 0)
<1>1. refs' = [g \in Pages |-> left(g)]
      /\ cached' = [x \in Locs |-> IF left(PageOf(x)) > 0 THEN cached[x] ELSE Blank]
  BY DEF DropRefs
<1>2. PageOf(l) \in Pages
  BY PageLocsFacts
<1>3. left(PageOf(l)) = refs[PageOf(l)] -
                (IF PageOf(l) \in DOMAIN reqs THEN reqs[PageOf(l)] ELSE 0)
  OBVIOUS
<1> HIDE DEF left
<1>4. refs'[PageOf(l)] = left(PageOf(l))
  BY <1>1, <1>2
<1> QED BY <1>1, <1>3, <1>4

(* A push drops the references of the insert, but not that of its write.   *)
LEMMA PushTaskCache ==
  ASSUME OneThread, IInv, RefsInv, BufsInv, CacheInv, (IInv /\ RefsInv)',
         NEW p \in Inserters, DataPushTask(p)
  PROVE  CacheInv' /\ \A l \in Locs : Contents(l)' = Contents(l)
<1> DEFINE W == WritePages(p)
<1>1. /\ at[p] = "push" /\ at' = [at EXCEPT ![p] = "idle"]
      /\ bg_tasks' = Append(bg_tasks, W) /\ bg_task' = bg_task
      /\ bg_bufs' = Append(bg_bufs, buf[p]) /\ bg_buf' = bg_buf
      /\ DropRefs(page_ref[p])
      /\ UNCHANGED <<disk, missing, found>>
  BY DEF DataPushTask, PushTask
<1>2. /\ \A q \in Inserters : q = p
      /\ HasWritten(p) /\ ~HasWritten(p)' /\ DOMAIN missing[p] = {}
  BY <1>1 DEF OneThread, IInv, Shape, HasWritten, RefsInv, MissesOK
<1>3. W \in SUBSET Pages /\ bg_tasks \in Seq(SUBSET Pages) /\ bg_bufs \in Seq(Pieces)
      /\ Len(bg_bufs) = Len(bg_tasks) /\ buf[p] \in Pieces
  <2>1. W \in SUBSET Pages
    BY <1>1 DEF IInv, TodoOK, Writing
  <2>2. buf[p] \in [PageLocs(W) -> Records]
    BY <1>2 DEF BufsInv, BufTyped
  <2> HIDE DEF W
  <2> QED BY <2>1, <2>2 DEF IInv, TasksOK, BufsInv, TaskTyped, Pieces
<1>4. /\ Len(bg_tasks) \in Nat /\ Len(bg_tasks') = Len(bg_tasks) + 1
      /\ bg_tasks'[Len(bg_tasks) + 1] = W /\ bg_bufs'[Len(bg_tasks) + 1] = buf[p]
      /\ \A k \in 1 .. Len(bg_tasks) : bg_tasks'[k] = bg_tasks[k] /\ bg_bufs'[k] = bg_bufs[k]
  BY <1>1, <1>3, QueueStep
<1>5. \A k : k \in 1 .. Len(bg_tasks') <=> k \in 1 .. Len(bg_tasks) \/ k = Len(bg_tasks) + 1
  BY <1>4
<1> DEFINE n == Len(bg_tasks) + 1
<1> HIDE DEF W, n
<1>6. \A g : Pending(g)' <=> Pending(g)
  <2>1. \A g : (\E q \in Inserters : HasWritten(q) /\ g \in WritePages(q)) <=> g \in W
    BY <1>2 DEF W
  <2>2. \A g : (\E k \in 1 .. Len(bg_tasks') : g \in bg_tasks'[k]) <=>
                 g \in W \/ \E k \in 1 .. Len(bg_tasks) : g \in bg_tasks[k]
    BY <1>4, <1>5 DEF n
  <2> QED BY <1>1, <1>2, <2>1, <2>2 DEF Pending
<1>7. ASSUME NEW l \in Locs
      PROVE  /\ refs[PageOf(l)] \in Nat
             /\ refs'[PageOf(l)] > 0 => refs[PageOf(l)] > 0 /\ cached'[l] = cached[l]
             /\ Pending(PageOf(l)) => refs'[PageOf(l)] > 0
  <2>1. PageOf(l) \in Pages
    BY PageLocsFacts
  <2>2. refs[PageOf(l)] \in Nat /\ page_ref[p][PageOf(l)] \in Nat
    BY <2>1, RefsNat DEF IInv, RefsInv, DataShape
  <2>3. /\ refs'[PageOf(l)] = refs[PageOf(l)] -
                (IF PageOf(l) \in DOMAIN page_ref[p] THEN page_ref[p][PageOf(l)] ELSE 0)
        /\ cached'[l] = IF refs'[PageOf(l)] > 0 THEN cached[l] ELSE Blank
    BY <1>1, DropRefsDoes
  <2>4. Pending(PageOf(l)) => refs'[PageOf(l)] > 0
    BY <1>6, <2>1, PendingReferencedNext
  <2> QED BY ONLY <2>2, <2>3, <2>4
<1>8. ASSUME NEW l \in Locs
      PROVE  Contents(l)' = Contents(l)
  <2>1. Contents(l)' = IF refs'[PageOf(l)] > 0 THEN cached'[l] ELSE disk[l]
    BY <1>1 DEF Contents, PageOf, LT!PageOf
  <2>2. Contents(l) = IF refs[PageOf(l)] > 0 THEN cached[l] ELSE disk[l]
    BY DEF Contents
  <2>3. refs[PageOf(l)] > 0 /\ ~Pending(PageOf(l)) => cached[l] = disk[l]
    BY DEF CacheInv, CacheClean
  <2> QED BY <1>7, <2>1, <2>2, <2>3
<1>9. \A l \in Locs : Pending(PageOf(l)) => cached'[l] = cached[l]
  BY <1>7
<1>10. WritesCached'
  <2>1. \A k \in 1 .. Len(bg_tasks) : \A l \in PageLocs(bg_tasks[k]) : cached'[l] = bg_bufs[k][l]
    BY <1>9, PageLocsFacts DEF CacheInv, WritesCached, Pending
  <2>2. \A l \in PageLocs(W) : cached'[l] = buf[p][l]
    BY <1>2, <1>9, PageLocsFacts DEF CacheInv, WritesCached, Pending, W
  <2>3. \A l \in PageLocs(bg_task) : cached'[l] = bg_buf[l]
    BY <1>9, PageLocsFacts DEF CacheInv, WritesCached, Pending
  <2>4. \A k \in 1 .. Len(bg_tasks') : \A l \in PageLocs(bg_tasks'[k]) : cached'[l] = bg_bufs'[k][l]
    BY <1>4, <1>5, <2>1, <2>2
  <2> QED BY <1>1, <1>2, <2>3, <2>4, PageLocsFacts DEF WritesCached
<1>11. CacheClean'
  <2> SUFFICES ASSUME NEW l \in Locs, refs'[PageOf(l)] > 0, ~Pending(PageOf(l))
               PROVE  cached'[l] = disk[l]
    BY <1>1, <1>6, SamePages DEF CacheClean, PageOf, LT!PageOf
  <2> QED BY <1>7 DEF CacheInv, CacheClean
<1>12. MissesFresh'
  <2>1. PageLocs({}) = {}
    BY DEF PageLocs
  <2> QED BY <1>1, <1>2, <2>1, PageLocsFacts DEF MissesFresh
<1> QED BY <1>8, <1>10, <1>11, <1>12 DEF CacheInv

(* When a task is done, the disk has what the cache has.                   *)
LEMMA BgFinishCache ==
  ASSUME OneThread, IInv, RefsInv, BufsInv, CacheInv, (IInv /\ RefsInv)', DataBgFinish
  PROVE  CacheInv' /\ \A l \in Locs : Contents(l)' = Contents(l)
<1>1. /\ bg_task' = {} /\ bg_tasks' = bg_tasks /\ bg_bufs' = bg_bufs
      /\ UNCHANGED <<missing, found, buf, at, locs>>
      /\ disk' = [l \in Locs |-> IF l \in DOMAIN bg_buf THEN bg_buf[l] ELSE disk[l]]
      /\ DropRefs([g \in bg_task |-> 1])
  BY DEF DataBgFinish, BgFinish, locals
<1>2. \A p \in Inserters : /\ HasWritten(p)' <=> HasWritten(p)
                           /\ WritePages(p)' = WritePages(p)
  BY <1>1 DEF HasWritten, WritePages
<1>3. ASSUME NEW g, Pending(g)'
      PROVE  Pending(g) /\ g \notin bg_task
  <2>1. \A p \in Inserters : HasWritten(p) => WritePages(p) = LockedPages(p)
    BY DEF HasWritten, LockedPages
  <2>2. /\ \A p \in Inserters : HasWritten(p) => WritePages(p) \cap bg_task = {}
        /\ \A k \in 1 .. Len(bg_tasks) : bg_tasks[k] \cap bg_task = {}
    BY <2>1 DEF IInv, PageWritesExclusive
  <2> QED BY <1>1, <1>2, <1>3, <2>2 DEF Pending
<1>4. ASSUME NEW l \in Locs
      PROVE  /\ PageOf(l) \in bg_task => disk'[l] = cached[l]
             /\ PageOf(l) \notin bg_task => disk'[l] = disk[l]
  <2>1. DOMAIN bg_buf = PageLocs(bg_task)
    BY DEF BufsInv, TaskTyped
  <2>2. l \in DOMAIN bg_buf <=> PageOf(l) \in bg_task
    BY <2>1, PageLocsFacts
  <2>3. l \in DOMAIN bg_buf => bg_buf[l] = cached[l]
    BY <2>1 DEF CacheInv, WritesCached
  <2> QED BY <1>1, <2>2, <2>3
<1>5. ASSUME NEW l \in Locs
      PROVE  /\ refs[PageOf(l)] \in Nat
             /\ refs'[PageOf(l)] = refs[PageOf(l)] - (IF PageOf(l) \in bg_task THEN 1 ELSE 0)
             /\ refs'[PageOf(l)] > 0 => cached'[l] = cached[l]
             /\ Pending(PageOf(l))' => refs'[PageOf(l)] > 0
             /\ PageOf(l) \in bg_task => refs[PageOf(l)] > 0
  <2>1. PageOf(l) \in Pages
    BY PageLocsFacts
  <2>2. refs[PageOf(l)] \in Nat
    BY <2>1, RefsNat DEF IInv
  <2>3. /\ refs'[PageOf(l)] = refs[PageOf(l)] -
                (IF PageOf(l) \in DOMAIN [g \in bg_task |-> 1]
                 THEN [g \in bg_task |-> 1][PageOf(l)] ELSE 0)
        /\ cached'[l] = IF refs'[PageOf(l)] > 0 THEN cached[l] ELSE Blank
    BY <1>1, DropRefsDoes
  <2>4. Pending(PageOf(l))' => refs'[PageOf(l)] > 0
    <3>1. PageOf(l)' = PageOf(l)
      BY DEF PageOf, LT!PageOf
    <3> QED BY <2>1, <3>1, PendingReferencedNext
  <2>5. PageOf(l) \in bg_task => refs[PageOf(l)] > 0
    BY <2>1, PendingReferenced DEF Pending
  <2> QED BY <2>2, <2>3, <2>4, <2>5
<1>6. ASSUME NEW l \in Locs
      PROVE  Contents(l)' = Contents(l)
  <2>1. Contents(l)' = IF refs'[PageOf(l)] > 0 THEN cached'[l] ELSE disk'[l]
    BY DEF Contents, PageOf, LT!PageOf
  <2>2. Contents(l) = IF refs[PageOf(l)] > 0 THEN cached[l] ELSE disk[l]
    BY DEF Contents
  <2> QED BY ONLY <1>4, <1>5, <2>1, <2>2, l \in Locs
<1>7. \A l \in Locs : Pending(PageOf(l))' => cached'[l] = cached[l]
  BY <1>5
<1>8. WritesCached'
  <2>1. ASSUME NEW k \in 1 .. Len(bg_tasks), NEW l \in PageLocs(bg_tasks[k])
        PROVE  cached'[l] = bg_bufs[k][l]
    <3>1. l \in Locs /\ Pending(PageOf(l))'
      BY <1>1, <2>1, PageLocsFacts DEF Pending, PageOf, LT!PageOf
    <3> QED BY <1>7, <3>1 DEF CacheInv, WritesCached
  <2>2. ASSUME NEW p \in Inserters, HasWritten(p), NEW l \in PageLocs(WritePages(p))
        PROVE  cached'[l] = buf[p][l]
    <3>1. l \in Locs /\ Pending(PageOf(l))'
      BY <1>1, <1>2, <2>2, PageLocsFacts DEF Pending, PageOf, LT!PageOf
    <3> QED BY <1>7, <2>2, <3>1 DEF CacheInv, WritesCached
  <2>3. PageLocs({}) = {}
    BY DEF PageLocs
  <2> QED BY <1>1, <1>2, <2>1, <2>2, <2>3, PageLocsFacts DEF WritesCached
<1>9. CacheClean'
  <2> SUFFICES ASSUME NEW l \in Locs, refs'[PageOf(l)] > 0, ~Pending(PageOf(l))'
               PROVE  cached'[l] = disk'[l]
    BY SamePages DEF CacheClean, PageOf, LT!PageOf
  <2>1. cached'[l] = cached[l] /\ refs[PageOf(l)] > 0
    BY <1>5
  <2>2. CASE PageOf(l) \in bg_task
    BY <1>4, <2>1, <2>2
  <2>3. CASE PageOf(l) \notin bg_task
    <3>1. ~Pending(PageOf(l))
      <4>1. PageOf(l)' = PageOf(l)
        BY DEF PageOf, LT!PageOf
      <4> QED BY <1>1, <1>2, <2>3, <4>1 DEF Pending
    <3> QED BY <1>4, <2>1, <2>3, <3>1 DEF CacheInv, CacheClean
  <2> QED BY <2>2, <2>3
<1>10. MissesFresh'
  <2> SUFFICES ASSUME NEW p \in Inserters
               PROVE  /\ \A g \in DOMAIN missing[p] : refs'[g] = 0
                      /\ \A l \in PageLocs(DOMAIN missing[p]) : found[p][l] = disk'[l]
    BY <1>1, PageLocsFacts DEF MissesFresh
  <2>1. ASSUME NEW g \in DOMAIN missing[p]
        PROVE  g \in Pages /\ refs[g] = 0 /\ g \notin bg_task
    <3>1. g \in Pages /\ refs[g] = 0
      BY DEF CacheInv, MissesFresh, RefsInv, MissesOK
    <3> QED BY <3>1, PendingReferenced DEF Pending
  <2>2. \A g \in DOMAIN missing[p] : refs'[g] = 0
    <3> SUFFICES ASSUME NEW g \in DOMAIN missing[p] PROVE refs'[g] = 0
      OBVIOUS
    <3>1. PICK l \in Locs : PageOf(l) = g
      BY <2>1 DEF Pages, LT!Pages, Locs, PageOf
    <3> QED BY <1>5, <2>1, <3>1
  <2>3. \A l \in PageLocs(DOMAIN missing[p]) : found[p][l] = disk'[l]
    BY <1>4, <2>1, PageLocsFacts DEF CacheInv, MissesFresh
  <2> QED BY <2>2, <2>3
<1> QED BY <1>6, <1>8, <1>9, <1>10 DEF CacheInv

(* The places of an insert before its target can be found, and those from  *)
(* the read_alloc() of its neighbours back to the allocation.              *)
Unseen == {"begin", "search", "reading", "lockpage", "lockvec", "read", "update",
           "lockidx", "move"}
Allocating == {"lockpage", "lockvec", "read", "update"}

(* With one thread, a search may find every id but that of the insert.     *)
LEMMA VisibleIs ==
  OneThread /\ Shape => \A p \in Inserters :
    LT!Visible = IF at[p] \in Unseen THEN (0 .. cur_id - 1) \ {target[p]} ELSE 0 .. cur_id - 1
<1> SUFFICES ASSUME OneThread, Shape, NEW p \in Inserters
             PROVE  LT!Visible = IF at[p] \in Unseen THEN (0 .. cur_id - 1) \ {target[p]}
                                 ELSE 0 .. cur_id - 1
  OBVIOUS
<1>1. \A q \in Inserters : q = p
  BY DEF OneThread
<1>2. PcBar[p] \in {"search", "write", "lock", "move"} <=> at[p] \in Unseen
  <2>1. PcBar[p] = PlaceBar(at[p]) /\ at[p] \in Stages
    BY PcBarIs DEF Shape
  <2> QED BY <2>1, PlaceBarValues DEF Unseen, Stages
<1>3. at[p] \in Unseen => Bar(target, -1)[p] = target[p]
  BY DEF Bar, Over, Unseen
<1> QED BY <1>1, <1>2, <1>3 DEF LT!Visible, LT!Unlinked

(* The same after a step.                                                  *)
LEMMA VisibleIsNext ==
  OneThread /\ Shape' => \A p \in Inserters :
    LT!Visible' = IF at'[p] \in Unseen THEN (0 .. cur_id' - 1) \ {target'[p]}
                  ELSE 0 .. cur_id' - 1
<1>1. (OneThread /\ Shape => \A p \in Inserters :
         LT!Visible = IF at[p] \in Unseen THEN (0 .. cur_id - 1) \ {target[p]}
                      ELSE 0 .. cur_id - 1)'
  BY VisibleIs, PTL
<1>2. OneThread' <=> OneThread
  BY DEF OneThread
<1>3. Unseen' = Unseen
  BY DEF Unseen
<1> QED BY <1>1, <1>2, <1>3

(* The id of the insert at work is the last that was given out.            *)
LastId == \A p \in Inserters : at[p] # "idle" => target[p] = cur_id - 1

(* An insert references pages from its search on only.                     *)
NoneReferenced == \A p \in Inserters : at[p] \in {"idle", "begin"} => page_ref[p] = Zero

(* A page that is written without being read has nobody's record.          *)
RawEmpty ==
  \A p \in Inserters : at[p] \in Allocating =>
    \A i \in LT!Visible : PageOf(id2loc[i]) \notin RawPages(p)

(* The buffers of the pages read have what the cache and the disk have.    *)
BufRead ==
  \A p \in Inserters : at[p] = "update" =>
    /\ DOMAIN buf[p] \subseteq Locs
    /\ \A l \in DOMAIN buf[p] : PageOf(l) \notin RawPages(p) => buf[p][l] = Contents(l)

(* At its new location there is the target's record, and a neighbour's     *)
(* with the link to the target, before ids are moved.                      *)
NewLocsWritten ==
  \A p \in Inserters : at[p] \in {"lockidx", "move"} =>
    /\ Contents(locs[p][target[p]]) = [id |-> target[p], nbrs |-> nbrs[p]]
    /\ \A i \in nbrs[p] :
         Contents(locs[p][i]) = [Contents(id2loc[i]) EXCEPT !.nbrs = @ \cup {target[p]}]

(* RecordsIntact and LinksMutual, also of ids that are being moved.        *)
RecordsFound == \A i \in LT!Visible : Contents(id2loc[i]).id = i
LinksFound ==
  \A t \in LT!Visible : t >= NPoints =>
    \A i \in Contents(id2loc[t]).nbrs \cap LT!Visible :
      i < t => t \in Contents(id2loc[i]).nbrs

RecordInv == /\ CacheInv /\ LastId /\ NoneReferenced /\ RawEmpty /\ BufRead
             /\ NewLocsWritten /\ RecordsFound /\ LinksFound

(* What insert_in_place() has in its own variables, with one thread.       *)
LEMMA OwnFacts ==
  ASSUME OneThread, IInv, NEW p \in Inserters
  PROVE  /\ cur_id \in Nat /\ LT!Visible \subseteq Nat
         /\ \A i \in LT!Visible : id2loc[i] \in Locs /\ i \in Ids
         /\ ~Over(p) => nbrs[p] \subseteq LT!Visible
         /\ at[p] \in Unseen => target[p] \notin LT!Visible /\ target[p] \in Nat
         /\ at[p] \in Allocating \cup {"lockidx", "move", "erase"} =>
              /\ locs[p] \in [MyIds(p) -> Locs]
              /\ \A i, j \in MyIds(p) : locs[p][i] = locs[p][j] => i = j
              /\ \A i \in MyIds(p) : loc2id[locs[p][i]] = -2
         /\ at[p] \in {"lockidx", "move", "erase"} => id2loc[target[p]] = locs[p][target[p]]
         /\ at[p] # "erase" => \A i \in LT!Visible : loc2id[id2loc[i]] = i /\ id2loc[i] < cur_loc
<1>0. Shape /\ P!IInv
  BY DEF IInv
<1>1. cur_id \in Nat
  BY <1>0, DirectInsertAssumption DEF P!IInv, P!TypeOK
<1>2. LT!Visible \subseteq 0 .. cur_id - 1
  BY DEF LT!Visible
<1>3. /\ \A i \in LT!Visible : id2loc[i] \in Locs
      /\ ~Over(p) => nbrs[p] \subseteq LT!Visible
  BY <1>0, LinkedLocs
<1>4. \A i \in LT!Visible : i \in Ids
  BY <1>0, <1>2, DirectInsertAssumption DEF P!IInv, P!TypeOK, Ids, LT!Ids
<1>5. PcBar[p] = PlaceBar(at[p]) /\ at[p] \in Stages
  BY <1>0, PcBarIs DEF Shape
<1>6. at[p] \in Unseen => target[p] \notin LT!Visible /\ target[p] \in Nat
  <2>1. at[p] \in Unseen => PcBar[p] # "idle" /\ Bar(target, -1)[p] = target[p]
    BY <1>5, PlaceBarValues DEF Unseen, Bar, Over
  <2>2. at[p] \in Unseen => target[p] \in 0 .. cur_id - 1
    BY <1>0, <2>1 DEF P!IInv, P!LocalsOK
  <2>3. at[p] \in Unseen => target[p] \notin LT!Visible
    BY <1>0, VisibleIs
  <2> QED BY <1>1, <2>2, <2>3
<1>7. at[p] \in Allocating \cup {"lockidx", "move", "erase"} =>
              /\ locs[p] \in [MyIds(p) -> Locs]
              /\ \A i, j \in MyIds(p) : locs[p][i] = locs[p][j] => i = j
              /\ \A i \in MyIds(p) : loc2id[locs[p][i]] = -2
  <2> SUFFICES ASSUME at[p] \in Allocating \cup {"lockidx", "move", "erase"}
               PROVE  /\ locs[p] \in [MyIds(p) -> Locs]
                      /\ \A i, j \in MyIds(p) : locs[p][i] = locs[p][j] => i = j
                      /\ \A i \in MyIds(p) : loc2id[locs[p][i]] = -2
    OBVIOUS
  <2>1. P!Owner(p)
    BY <1>5, PlaceBarValues DEF Allocating, P!Owner
  <2>2. ~Over(p)
    BY DEF Allocating, Over
  <2>3. P!MyIds(p) = MyIds(p) /\ Bar(locs, None)[p] = locs[p] /\ P!Locs = Locs
    BY <2>2 DEF P!MyIds, MyIds, Bar, P!Locs, Locs, LT!Locs
  <2>4. locs[p] \in [MyIds(p) -> Locs]
    BY <1>0, <2>1, <2>3 DEF P!IInv, P!LocalsOK
  <2>5. /\ \A i, j \in MyIds(p) : locs[p][i] = locs[p][j] => i = j
        /\ \A i \in MyIds(p) : loc2id[locs[p][i]] = -2
    BY <1>0, <2>1, <2>3 DEF P!IInv, P!AllocationsExclusive, P!Allocated
  <2> QED BY <2>4, <2>5
<1>8. at[p] \in {"lockidx", "move", "erase"} => id2loc[target[p]] = locs[p][target[p]]
  <2> SUFFICES ASSUME at[p] \in {"lockidx", "move", "erase"}
               PROVE  id2loc[target[p]] = locs[p][target[p]]
    OBVIOUS
  <2>1. PcBar[p] \in {"lock", "move", "erase"}
    BY <1>5, PlaceBarValues
  <2>2. Bar(locs, None)[p] = locs[p] /\ Bar(target, -1)[p] = target[p]
    BY DEF Bar, Over
  <2> QED BY <1>0, <2>1, <2>2 DEF P!IInv, P!LocalsOK
<1>9. at[p] # "erase" => \A i \in LT!Visible : loc2id[id2loc[i]] = i /\ id2loc[i] < cur_loc
  <2> SUFFICES ASSUME at[p] # "erase", NEW i \in LT!Visible
               PROVE  loc2id[id2loc[i]] = i /\ id2loc[i] < cur_loc
    OBVIOUS
  <2>1. PcBar[p] # "erase"
    BY <1>5, PlaceBarValues DEF Stages
  <2>2. \A q \in Inserters : PcBar[q] # "erase"
    BY <2>1 DEF OneThread
  <2>3. i \in P!Settled
    BY <2>2, SameVisible DEF P!Settled
  <2>4. id2loc[i] \in 0 .. cur_loc - 1 /\ loc2id[id2loc[i]] = i /\ cur_loc \in Nat
    BY <1>0, <2>3, DirectInsertAssumption DEF P!IInv, P!MappingConsistent, P!TypeOK
  <2> QED BY <2>4
<1> QED BY <1>1, <1>2, <1>3, <1>4, <1>6, <1>7, <1>8, <1>9

(* wbc_write() puts the new records where a read finds them.               *)
LEMMA SetTargetCache ==
  ASSUME OneThread, IInv, RefsInv, BufsInv, CacheInv, NEW p \in Inserters, DataSetTarget(p)
  PROVE  /\ CacheInv'
         /\ \A l \in Locs : Contents(l)' = IF PageOf(l) \in WritePages(p)
                                           THEN NewRecords(p)[l] ELSE Contents(l)
<1> DEFINE W == WritePages(p)
           new == NewRecords(p)
<1>1. /\ at[p] = "update" /\ at' = [at EXCEPT ![p] = "lockidx"] /\ locs' = locs
      /\ UNCHANGED <<disk, missing, found, bg_bufs, bg_buf, bg_tasks, bg_task>>
      /\ missing[p] = NoPages
      /\ buf' = [buf EXCEPT ![p] = new]
      /\ refs' = [g \in Pages |-> refs[g] + (IF g \in W THEN 1 ELSE 0)]
      /\ cached' = [l \in Locs |-> IF l \in DOMAIN new THEN new[l] ELSE cached[l]]
  <2>1. AddRefs([g \in W |-> 1], new)
    BY DEF DataSetTarget
  <2>2. refs' = [g \in Pages |-> refs[g] + (IF g \in W THEN 1 ELSE 0)]
    BY <2>1 DEF AddRefs
  <2>3. cached' = [l \in Locs |-> IF l \in DOMAIN new THEN new[l] ELSE cached[l]]
    BY <2>1 DEF AddRefs
  <2> QED BY <2>2, <2>3 DEF DataSetTarget, SetTarget, locals, bg
<1>2. DOMAIN new = PageLocs(W)
  BY DEF NewRecords
<1> HIDE DEF new
<1>3. /\ \A q \in Inserters : q = p
      /\ ~HasWritten(p) /\ HasWritten(p)' /\ W' = W /\ buf'[p] = new
  BY <1>1 DEF OneThread, IInv, Shape, HasWritten, WritePages, RefsInv, DataShape, PerInserter
<1>4. /\ W \cap bg_task = {}
      /\ \A k \in 1 .. Len(bg_tasks) : W \cap bg_tasks[k] = {}
  <2>1. LockedPages(p) = W
    BY <1>1 DEF LockedPages
  <2> QED BY <2>1 DEF IInv, PageWritesExclusive
<1>5. \A g : Pending(g)' <=> Pending(g) \/ g \in W
  BY <1>1, <1>3 DEF Pending
<1>6. ASSUME NEW l \in Locs
      PROVE  /\ PageOf(l) \in W => refs'[PageOf(l)] > 0 /\ cached'[l] = new[l]
             /\ PageOf(l) \notin W => refs'[PageOf(l)] = refs[PageOf(l)] /\ cached'[l] = cached[l]
  <2>1. PageOf(l) \in Pages /\ (l \in DOMAIN new <=> PageOf(l) \in W)
    BY <1>2, PageLocsFacts
  <2>2. refs[PageOf(l)] \in Nat
    BY <2>1, RefsNat DEF IInv
  <2>3. refs'[PageOf(l)] = refs[PageOf(l)] + (IF PageOf(l) \in W THEN 1 ELSE 0)
    BY <1>1, <2>1
  <2>4. cached'[l] = IF PageOf(l) \in W THEN new[l] ELSE cached[l]
    BY <1>1, <2>1
  <2> HIDE DEF W
  <2> QED BY ONLY <2>2, <2>3, <2>4
<1>7. \A l \in Locs : Contents(l)' = IF PageOf(l) \in W THEN new[l] ELSE Contents(l)
  <2> SUFFICES ASSUME NEW l \in Locs
               PROVE  Contents(l)' = IF PageOf(l) \in W THEN new[l] ELSE Contents(l)
    OBVIOUS
  <2>1. Contents(l)' = IF refs'[PageOf(l)] > 0 THEN cached'[l] ELSE disk[l]
    BY <1>1 DEF Contents, PageOf, LT!PageOf
  <2> QED BY <1>6, <2>1 DEF Contents
<1>8. WritesCached'
  <2>1. \A l \in PageLocs(W) : cached'[l] = new[l]
    BY <1>6, PageLocsFacts
  <2>2. \A k \in 1 .. Len(bg_tasks) : \A l \in PageLocs(bg_tasks[k]) : cached'[l] = bg_bufs[k][l]
    <3> SUFFICES ASSUME NEW k \in 1 .. Len(bg_tasks), NEW l \in PageLocs(bg_tasks[k])
                 PROVE  cached'[l] = bg_bufs[k][l]
      OBVIOUS
    <3>1. l \in Locs /\ PageOf(l) \notin W
      BY <1>4, PageLocsFacts
    <3> QED BY <1>6, <3>1 DEF CacheInv, WritesCached
  <2>3. \A l \in PageLocs(bg_task) : cached'[l] = bg_buf[l]
    <3> SUFFICES ASSUME NEW l \in PageLocs(bg_task)
                 PROVE  cached'[l] = bg_buf[l]
      OBVIOUS
    <3>1. l \in Locs /\ PageOf(l) \notin W
      BY <1>4, PageLocsFacts
    <3> QED BY <1>6, <3>1 DEF CacheInv, WritesCached
  <2> QED BY <1>1, <1>3, <2>1, <2>2, <2>3, PageLocsFacts DEF WritesCached
<1>9. CacheClean'
  <2> SUFFICES ASSUME NEW l \in Locs, refs'[PageOf(l)] > 0, ~Pending(PageOf(l))'
               PROVE  cached'[l] = disk[l]
    BY <1>1, SamePages DEF CacheClean, PageOf, LT!PageOf
  <2>1. PageOf(l)' = PageOf(l)
    BY DEF PageOf, LT!PageOf
  <2>2. ~Pending(PageOf(l)) /\ PageOf(l) \notin W
    BY <1>1, <1>3, <2>1 DEF Pending
  <2> QED BY <1>6, <2>2 DEF CacheInv, CacheClean
<1>10. MissesFresh'
  <2>1. DOMAIN missing'[p] = {} /\ PageLocs({}) = {}
    BY <1>1 DEF PageLocs, NoPages
  <2> QED BY <1>3, <2>1, PageLocsFacts DEF MissesFresh
<1> QED BY <1>7, <1>8, <1>9, <1>10 DEF CacheInv, new

(* What a read of each location returns.                                   *)
Reads == [l \in Locs |-> Contents(l)]

(* Reads, and the locations read, before and after a step.                 *)
LEMMA ReadsFacts ==
  /\ \A l \in Locs : Reads[l] = Contents(l) /\ Reads'[l] = Contents(l)'
  /\ \A i : id2loc'[i] \in Locs => Contents(id2loc[i])' = Reads'[id2loc'[i]]
  /\ \A p, i : locs'[p][i] \in Locs => Contents(locs[p][i])' = Reads'[locs'[p][i]]
<1> USE SamePages DEF Reads, Contents, PageOf, LT!PageOf
<1>1. \A l \in Locs : Reads[l] = Contents(l) /\ Reads'[l] = Contents(l)'
  OBVIOUS
<1>2. \A i : id2loc'[i] \in Locs => Contents(id2loc[i])' = Reads'[id2loc'[i]]
  OBVIOUS
<1>3. \A p, i : locs'[p][i] \in Locs => Contents(locs[p][i])' = Reads'[locs'[p][i]]
  OBVIOUS
<1> QED BY <1>1, <1>2, <1>3

(* A record that the insert does not own is where it was, and unchanged.   *)
LEMMA SetTargetKeeps ==
  ASSUME OneThread, IInv, RefsInv, BufsInv, RecordInv, NEW p \in Inserters, DataSetTarget(p),
         NEW i \in LT!Visible
  PROVE  id2loc'[i] = id2loc[i] /\ Reads'[id2loc[i]] = Reads[id2loc[i]]
<1> DEFINE W == WritePages(p)
<1>1. /\ at[p] = "update" /\ id2loc' = [id2loc EXCEPT ![target[p]] = locs[p][target[p]]]
  BY DEF DataSetTarget, SetTarget
<1>2. PICK l \in Locs : l = id2loc[i]
  BY OwnFacts
<1>3. /\ i \in Nat /\ i # target[p]
      /\ \A j \in MyIds(p) : loc2id[locs[p][j]] = -2
      /\ loc2id[l] = i
  BY <1>1, <1>2, OwnFacts DEF Unseen, Allocating
<1>4. id2loc'[i] = id2loc[i]
  BY <1>1, <1>3
<1>5. Contents(l)' = IF PageOf(l) \in W THEN NewRecords(p)[l] ELSE Contents(l)
  BY SetTargetCache DEF RecordInv
<1>6. CASE PageOf(l) \in W
  <2>1. \A j \in MyIds(p) : locs[p][j] # l
    BY <1>3
  <2>2. l # locs[p][target[p]] /\ ~\E j \in nbrs[p] : locs[p][j] = l
    BY <2>1 DEF MyIds
  <2>3. l \in PageLocs(W)
    BY <1>6, PageLocsFacts
  <2>4. NewRecords(p)[l] = buf[p][l]
    BY <2>2, <2>3 DEF NewRecords
  <2>5. PageOf(l) \notin RawPages(p) /\ l \in DOMAIN buf[p]
    BY <1>1, <1>2, <2>3 DEF RecordInv, RawEmpty, Allocating, BufsInv, BufTyped
  <2>6. buf[p][l] = Contents(l)
    BY <1>1, <2>5 DEF RecordInv, BufRead
  <2> QED BY <1>2, <1>4, <1>5, <1>6, <2>4, <2>6, ReadsFacts
<1>7. CASE PageOf(l) \notin W
  BY <1>2, <1>4, <1>5, <1>7, ReadsFacts
<1> QED BY <1>4, <1>6, <1>7

(* What it owns it has written.                                            *)
LEMMA SetTargetWrites ==
  ASSUME OneThread, IInv, RefsInv, BufsInv, RecordInv, NEW p \in Inserters, DataSetTarget(p)
  PROVE  NewLocsWritten'
<1> DEFINE W == WritePages(p)
           t == target[p]
           b == buf[p]
<1>1. /\ at[p] = "update" /\ locs' = locs /\ target' = target /\ nbrs' = nbrs
      /\ \A i \in nbrs[p] : id2loc[i] \in DOMAIN b
  BY DEF DataSetTarget, SetTarget, locals
<1>2. \A q \in Inserters : q = p
  BY DEF OneThread
<1>3. /\ nbrs[p] \subseteq LT!Visible /\ t \notin LT!Visible
      /\ locs[p] \in [MyIds(p) -> Locs]
      /\ \A i, j \in MyIds(p) : locs[p][i] = locs[p][j] => i = j
      /\ \A i \in LT!Visible : id2loc[i] \in Locs
  BY <1>1, OwnFacts DEF Over, Unseen, Allocating
<1>4. t \in MyIds(p) /\ nbrs[p] \subseteq MyIds(p)
  BY DEF MyIds
<1>5. \A j \in MyIds(p) : locs[p][j] \in PageLocs(W) /\ PageOf(locs[p][j]) \in W
  <2>1. \A j \in MyIds(p) : locs[p][j] \in Locs /\ PageOf(locs[p][j]) \in W
    BY <1>3 DEF WritePages, PageOf
  <2> QED BY <2>1, PageLocsFacts
<1>6. \A j \in MyIds(p) : Reads'[locs[p][j]] = NewRecords(p)[locs[p][j]]
  <2>1. \A l \in Locs : PageOf(l) \in W => Reads'[l] = NewRecords(p)[l]
    BY SetTargetCache, ReadsFacts DEF RecordInv
  <2> QED BY <1>3, <1>5, <2>1
<1>7. NewRecords(p)[locs[p][t]] = [id |-> t, nbrs |-> nbrs[p]]
  BY <1>4, <1>5 DEF NewRecords
<1>8. ASSUME NEW i \in nbrs[p]
      PROVE  NewRecords(p)[locs[p][i]] = [Reads[id2loc[i]] EXCEPT !.nbrs = @ \cup {t}]
  <2> DEFINE l == locs[p][i]
             c == CHOOSE j \in nbrs[p] : locs[p][j] = l
  <2>1. i \in MyIds(p) /\ i \in LT!Visible /\ t # i
    BY <1>3, <1>4
  <2>2. c = i
    BY <1>3, <1>4
  <2>3. l # locs[p][t] /\ (\E j \in nbrs[p] : locs[p][j] = l) /\ l \in PageLocs(W)
    BY <1>3, <1>4, <1>5, <2>1
  <2>4. NewRecords(p)[l] = [b[id2loc[c]] EXCEPT !.nbrs = @ \cup {t}]
    BY <2>3 DEF NewRecords
  <2>5. b[id2loc[i]] = Reads[id2loc[i]]
    <3>1. /\ PageOf(id2loc[i]) \notin RawPages(p) /\ id2loc[i] \in DOMAIN b
          /\ id2loc[i] \in Locs
      BY <1>1, <1>3, <2>1 DEF RecordInv, RawEmpty, Allocating
    <3> QED BY <1>1, <3>1, ReadsFacts DEF RecordInv, BufRead
  <2> HIDE DEF c, l
  <2> QED BY <2>2, <2>4, <2>5 DEF l
<1> DEFINE new == NewRecords(p)
<1> HIDE DEF new, W, b
<1>9. Contents(locs[p][target[p]])' = [id |-> target'[p], nbrs |-> nbrs'[p]]
  <2>1. locs'[p][target'[p]] = locs[p][t] /\ locs[p][t] \in Locs
    BY <1>1, <1>3, <1>4
  <2>2. Contents(locs[p][target[p]])' = Reads'[locs'[p][target'[p]]]
    BY <2>1, SamePages DEF Reads, Contents, PageOf, LT!PageOf
  <2> QED BY <1>1, <1>4, <1>6, <1>7, <2>1, <2>2
<1>10. ASSUME NEW i \in nbrs[p]
       PROVE  Contents(locs[p][i])' = [Contents(id2loc[i])' EXCEPT !.nbrs = @ \cup {t}]
  <2>1. /\ locs'[p][i] = locs[p][i] /\ locs[p][i] \in Locs
        /\ id2loc'[i] = id2loc[i] /\ id2loc[i] \in Locs
        /\ Reads'[id2loc[i]] = Reads[id2loc[i]]
    BY <1>1, <1>3, <1>4, SetTargetKeeps
  <2>2. Contents(locs[p][i])' = Reads'[locs[p][i]] /\ Contents(id2loc[i])' = Reads'[id2loc[i]]
    BY <2>1, ReadsFacts
  <2>3. Reads'[locs[p][i]] = [Reads[id2loc[i]] EXCEPT !.nbrs = @ \cup {t}]
    BY <1>4, <1>6, <1>8
  <2> QED BY <2>1, <2>2, <2>3
<1> QED BY <1>1, <1>2, <1>9, <1>10 DEF NewLocsWritten

(* When no record that can be found changes or moves, all stay found.      *)
LEMMA RecordsStay ==
  ASSUME IInv, RecordsFound, LinksFound, LT!Visible' = LT!Visible,
         \A i \in LT!Visible : id2loc'[i] = id2loc[i] /\ Reads'[id2loc[i]] = Reads[id2loc[i]]
  PROVE  RecordsFound' /\ LinksFound'
<1>1. \A i \in LT!Visible : id2loc[i] \in Locs
  BY LinkedLocs DEF IInv
<1>2. \A i \in LT!Visible : Contents(id2loc[i])' = Contents(id2loc[i])
  BY <1>1, ReadsFacts
<1> QED BY <1>2 DEF RecordsFound, LinksFound

(* What an insert keeps through the steps that read and write nothing.     *)
LEMMA BuffersKept ==
  ASSUME OneThread, IInv, RecordInv, \A l \in Locs : Contents(l)' = Contents(l),
         LT!Visible' = LT!Visible, id2loc' = id2loc,
         \A q \in Inserters :
           /\ at'[q] \in Allocating => at[q] \in Allocating /\ RawPages(q)' = RawPages(q)
           /\ at'[q] = "update" => at[q] = "update" /\ buf'[q] = buf[q]
           /\ at'[q] \in {"lockidx", "move"} =>
                /\ at[q] \in {"lockidx", "move"}
                /\ locs'[q] = locs[q] /\ target'[q] = target[q] /\ nbrs'[q] = nbrs[q]
  PROVE  RawEmpty' /\ BufRead' /\ NewLocsWritten' /\ RecordsFound' /\ LinksFound'
<1>1. Allocating' = Allocating /\ \A l : PageOf(l)' = PageOf(l)
  BY DEF Allocating, PageOf, LT!PageOf
<1>2. RawEmpty'
  BY <1>1 DEF RecordInv, RawEmpty, PageOf, LT!PageOf
<1>3. \A i \in LT!Visible : id2loc[i] \in Locs /\ Reads'[id2loc[i]] = Reads[id2loc[i]]
  BY LinkedLocs, ReadsFacts DEF IInv
<1>4. RecordsFound' /\ LinksFound'
  BY <1>3, RecordsStay DEF RecordInv
<1>5. NewLocsWritten'
  <2> SUFFICES ASSUME NEW q \in Inserters, at'[q] \in {"lockidx", "move"}
               PROVE  /\ Contents(locs[q][target[q]])' = [id |-> target'[q], nbrs |-> nbrs'[q]]
                      /\ \A i \in nbrs'[q] : Contents(locs[q][i])' =
                           [Contents(id2loc[i])' EXCEPT !.nbrs = @ \cup {target'[q]}]
    BY DEF NewLocsWritten
  <2>1. /\ at[q] \in {"lockidx", "move"}
        /\ locs'[q] = locs[q] /\ target'[q] = target[q] /\ nbrs'[q] = nbrs[q]
    OBVIOUS
  <2>2. locs[q] \in [MyIds(q) -> Locs] /\ nbrs[q] \subseteq LT!Visible
    BY <2>1, OwnFacts DEF Over
  <2>3. \A i \in MyIds(q) : Contents(locs[q][i])' = Contents(locs[q][i])
    BY <2>1, <2>2, ReadsFacts
  <2>4. \A i \in nbrs[q] : Contents(id2loc[i])' = Contents(id2loc[i])
    BY <1>3, <2>2, ReadsFacts
  <2>5. Contents(locs[q][target[q]])' = Contents(locs[q][target[q]])
    <3>1. locs'[q][target'[q]] = locs[q][target[q]] /\ locs[q][target[q]] \in Locs
      BY <2>1, <2>2 DEF MyIds
    <3>2. Contents(locs[q][target[q]])' = Reads'[locs'[q][target'[q]]]
      BY <3>1, SamePages DEF Reads, Contents, PageOf, LT!PageOf
    <3> QED BY <3>1, <3>2, ReadsFacts
  <2>6. nbrs[q] \subseteq MyIds(q)
    BY DEF MyIds
  <2> QED BY <2>1, <2>3, <2>4, <2>5, <2>6 DEF RecordInv, NewLocsWritten
<1>6. BufRead'
  <2> SUFFICES ASSUME NEW q \in Inserters, at'[q] = "update"
               PROVE  /\ DOMAIN buf[q] \subseteq Locs
                      /\ \A l \in DOMAIN buf[q] : PageOf(l) \notin RawPages(q) =>
                            buf[q][l] = Contents(l)'
    BY <1>1, SamePages DEF BufRead, Allocating
  <2> QED BY DEF RecordInv, BufRead
<1> QED BY <1>2, <1>4, <1>5, <1>6

(* alloc_loc() gives out no slot of a page with a record, unless the page  *)
(* is one of page_need_to_read.                                            *)
LEMMA AllocRawEmpty ==
  ASSUME OneThread, IInv, RefsInv, RecordInv, NEW p \in Inserters, NEW keep \in SUBSET nbrs[p],
         DataAllocLoc(p, keep), LT!Visible' = LT!Visible
  PROVE  RawEmpty'
<1> DEFINE n == Cardinality(keep) + 1
           slots == LT!AllocSlots(n, hints[p])
           S == LT!PagesToRead(n, hints[p], slots)
<1>1. /\ AllocLoc(p, keep) /\ at[p] = "search" /\ id2loc' = id2loc
      /\ need_read' = [need_read EXCEPT ![p] = S]
      /\ todo' = [todo EXCEPT ![p] = {LT!PageOf(l) : l \in slots}]
      /\ LT!AlignUp(cur_loc + n) <= MaxLoc
  BY DEF DataAllocLoc, AllocLoc
<1>2. \A q \in Inserters : q = p
  BY DEF OneThread
<1>3. RawPages(p)' = {PageOf(l) : l \in slots} \ S
  <2>1. todo'[p] = WritePages(p)'
    BY <1>1, AllocLocPages DEF IInv
  <2>2. todo'[p] = {PageOf(l) : l \in slots}
    BY <1>1 DEF IInv, Shape, PerInserter, PageOf
  <2>3. need_read'[p] = S
    BY <1>1 DEF RefsInv, DataShape
  <2> HIDE DEF slots, S
  <2> QED BY <2>1, <2>2, <2>3 DEF RawPages
<1>4. n \in Nat \ {0}
  <2>1. keep \subseteq Ids
    BY <1>1, OwnIds DEF IInv, OwnIdsOK, MyIds, Over
  <2>2. IsFiniteSet(Ids)
    <3>1. MaxId - 1 \in Int /\ Ids = 0 .. MaxId - 1
      BY DirectInsertAssumption DEF Ids, LT!Ids
    <3> QED BY ONLY <3>1, FS_Interval
  <2>3. Cardinality(keep) \in Nat
    BY <2>1, <2>2, FS_Subset, FS_CardinalityType
  <2> QED BY <2>3
<1>5. ASSUME NEW i \in LT!Visible, NEW m \in slots, PageOf(m) = PageOf(id2loc[i]), PageOf(m) \notin S
      PROVE  FALSE
  <2>1. /\ id2loc[i] \in Locs /\ id2loc[i] < cur_loc /\ loc2id[id2loc[i]] = i /\ i \in Nat
    BY <1>1, OwnFacts
  <2>2. hints[p] \in Seq(P!Pages)
    BY DEF IInv, P!IInv, P!TypeOK
  <2>3. /\ slots = P!AllocSlots(n, hints[p])
        /\ S = P!PagesToRead(n, hints[p], P!AllocSlots(n, hints[p]))
        /\ LT!AlignUp(cur_loc + n) = P!AlignUp(cur_loc + n)
        /\ \A l : PageOf(l) = P!PageOf(l)
    <3>1. slots = P!AllocSlots(n, hints[p])
      BY SameAllocSlots
    <3>2. S = P!PagesToRead(n, hints[p], slots)
      BY DEF LT!PagesToRead, P!PagesToRead, LT!Usable, P!Usable, LT!FromEmpty, P!FromEmpty,
             LT!ToSet, P!ToSet, LT!Popped, P!Popped, LT!NPop, P!NPop, LT!Slots, P!Slots,
             LT!Holes, P!Holes, LT!Cardinality, P!Cardinality, LT!Threshold, P!Threshold,
             LT!Locs, P!Locs, LT!Invalid, P!Invalid, LT!PageOf, P!PageOf,
             LT!INDEX_SIZE_FACTOR, P!INDEX_SIZE_FACTOR
    <3>3. LT!AlignUp(cur_loc + n) = P!AlignUp(cur_loc + n)
      BY DEF LT!AlignUp, P!AlignUp
    <3> QED BY <3>1, <3>2, <3>3 DEF PageOf, LT!PageOf, P!PageOf
  <2>4. P!AlignUp(cur_loc + n) <= MaxLoc
    BY <1>1, <2>3
  <2> HIDE DEF n, slots, S
  <2>5. m \in P!AllocSlots(n, hints[p])
    BY <2>3
  <2>6. P!PageOf(m) \notin P!PagesToRead(n, hints[p], P!AllocSlots(n, hints[p]))
    BY <1>5, <2>3
  <2>7. id2loc[i] \in P!Slots(P!PageOf(m))
    BY <1>5, <2>1, <2>3 DEF P!Slots, Locs, LT!Locs, P!Locs
  <2>8. id2loc[i] >= cur_loc \/ loc2id[id2loc[i]] = P!Invalid
    BY <1>4, <2>2, <2>4, <2>5, <2>6, <2>7, P!UnreadPagesFree, DirectInsertAssumption DEF IInv
  <2>9. cur_loc \in Nat /\ id2loc[i] \in Nat
    BY <2>1, DirectInsertAssumption DEF IInv, P!IInv, P!TypeOK, Locs, LT!Locs
  <2> QED BY <2>1, <2>8, <2>9 DEF P!Invalid
<1> HIDE DEF slots, S, n
<1>6. \A i \in LT!Visible : PageOf(id2loc[i]) \notin RawPages(p)'
  BY <1>3, <1>5
<1>7. \A l : PageOf(l)' = PageOf(l)
  BY DEF PageOf, LT!PageOf
<1> QED BY <1>1, <1>2, <1>6 DEF RawEmpty, PageOf, LT!PageOf

(* The buffers of read_alloc() have what was on the pages that are read.   *)
LEMMA ReadPagesRecords ==
  ASSUME OneThread, IInv, RefsInv, BufsInv, RecordInv, NEW p \in Inserters, DataReadPages(p)
  PROVE  CacheInv' /\ BufRead' /\ \A l \in Locs : Contents(l)' = Contents(l)
<1> DEFINE S == {PageOf(id2loc[i]) : i \in nbrs[p]} \cup WritePages(p)
           new == [l \in PageLocs(S) |-> IF PageOf(l) \in RawPages(p) THEN Blank ELSE Contents(l)]
<1>1. /\ at[p] = "read" /\ at' = [at EXCEPT ![p] = "update"]
      /\ buf' = [buf EXCEPT ![p] = new] /\ locs' = locs
      /\ UNCHANGED <<disk, need_read, bg_bufs, bg_buf, bg_tasks, bg_task>>
  BY DEF DataReadPages, ReadPages, locals, bg
<1> HIDE DEF S
<1>2. PICK reqs : /\ Request(p, reqs) /\ DOMAIN reqs \subseteq Pages
                  /\ \A g \in DOMAIN reqs : reqs[g] \in Nat
  BY ReadPagesAsks DEF IInv
<1>3. at'[p] = "update" /\ \A q \in Inserters : q = p
  BY <1>1 DEF IInv, Shape, OneThread
<1>4. ~HasWritten(p) /\ ~HasWritten(p)'
  BY <1>1, <1>3 DEF HasWritten
<1>5. CacheInv' /\ \A l \in Locs : Contents(l)' = Contents(l)
  BY <1>1, <1>2, <1>4, RequestCache DEF BufsInv, RecordInv
<1>6. BufRead'
  <2>1. buf'[p] = new /\ DOMAIN new = PageLocs(S)
    BY <1>1 DEF RefsInv, DataShape, PerInserter
  <2>2. \A l \in PageLocs(S) : PageOf(l) \notin RawPages(p) => new[l] = Contents(l)
    OBVIOUS
  <2>3. RawPages(p)' = RawPages(p) /\ (\A l : PageOf(l)' = PageOf(l)) /\ PageLocs(S) \subseteq Locs
    BY <1>1 DEF RawPages, WritePages, PageOf, LT!PageOf, PageLocs
  <2> HIDE DEF new
  <2> QED BY <1>3, <1>5, <2>1, <2>2, <2>3, SamePages DEF BufRead
<1> QED BY <1>5, <1>6

(* When the ids are moved, the records at the new locations are found: the *)
(* target's, and the neighbours' with the link to it.                      *)
LEMMA MoveIdsRecords ==
  ASSUME OneThread, IInv, IInv', BufsInv, RecordInv, NEW p \in Inserters, MoveIds(p),
         \A l \in Locs : Contents(l)' = Contents(l)
  PROVE  RecordsFound' /\ LinksFound'
<1> DEFINE t == target[p]
           Old(v) == Reads[id2loc[v]]
           New(v) == Reads'[id2loc'[v]]
<1>1. /\ at[p] = "move" /\ at' = [at EXCEPT ![p] = "erase"] /\ target' = target /\ cur_id' = cur_id
      /\ id2loc' = [i \in Ids |-> IF i \in nbrs[p] THEN locs[p][i] ELSE id2loc[i]]
  BY DEF MoveIds
<1>2. at'[p] = "erase"
  BY <1>1 DEF IInv, Shape
<1>3. /\ cur_id \in Nat /\ LT!Visible \subseteq Nat /\ t \in Nat
      /\ nbrs[p] \subseteq LT!Visible /\ t \notin LT!Visible
      /\ locs[p] \in [MyIds(p) -> Locs]
      /\ id2loc[t] = locs[p][t]
      /\ \A i \in LT!Visible : id2loc[i] \in Locs /\ i \in Ids
  BY <1>1, OwnFacts DEF Over, Unseen
<1>4. t = cur_id - 1 /\ t \in Ids
  <2>1. t = cur_id - 1
    BY <1>1 DEF RecordInv, LastId
  <2>2. t \in Ids
    BY <1>1, OwnIds DEF IInv, OwnIdsOK, MyIds, Over
  <2> QED BY <2>1, <2>2
<1>5. LT!Visible' = LT!Visible \cup {t} /\ \A i \in LT!Visible : i < t
  <2>1. LT!Visible = (0 .. cur_id - 1) \ {t}
    BY <1>1, VisibleIs DEF IInv, Unseen
  <2>2. LT!Visible' = 0 .. cur_id - 1
    BY <1>1, <1>2, VisibleIsNext DEF IInv, Unseen
  <2> QED BY <1>3, <1>4, <2>1, <2>2
<1>6. \A l \in Locs : Reads'[l] = Reads[l] /\ Reads[l] \in Records
  BY ReadsFacts, ContentsTyped DEF BufsInv
<1>7. /\ id2loc'[t] = locs[p][t] /\ locs[p][t] \in Locs
      /\ \A i \in nbrs[p] : id2loc'[i] = locs[p][i] /\ locs[p][i] \in Locs
      /\ \A i \in LT!Visible \ nbrs[p] : id2loc'[i] = id2loc[i]
  BY <1>1, <1>3, <1>4 DEF MyIds
<1>8. New(t) = [id |-> t, nbrs |-> nbrs[p]]
  BY <1>1, <1>6, <1>7, ReadsFacts DEF RecordInv, NewLocsWritten
<1>9. \A i \in nbrs[p] : New(i) = [Old(i) EXCEPT !.nbrs = @ \cup {t}]
  <2> SUFFICES ASSUME NEW i \in nbrs[p]
               PROVE  New(i) = [Old(i) EXCEPT !.nbrs = @ \cup {t}]
    OBVIOUS
  <2>1. Contents(locs[p][i]) = [Contents(id2loc[i]) EXCEPT !.nbrs = @ \cup {t}]
    BY <1>1 DEF RecordInv, NewLocsWritten
  <2>2. New(i) = Contents(locs[p][i])
    BY <1>6, <1>7, ReadsFacts
  <2>3. Old(i) = Contents(id2loc[i])
    BY <1>3, ReadsFacts
  <2> QED BY <2>1, <2>2, <2>3
<1>10. \A i \in LT!Visible \ nbrs[p] : New(i) = Old(i)
  BY <1>3, <1>6, <1>7
<1>11. \A i \in LT!Visible : Old(i) \in Records
  BY <1>3, <1>6
<1>12. \A i \in LT!Visible : Contents(id2loc[i]) = Old(i)
  BY <1>3, ReadsFacts
<1>13. \A i \in LT!Visible \cup {t} : Contents(id2loc[i])' = New(i)
  <2>1. \A i \in LT!Visible \cup {t} : id2loc'[i] \in Locs
    <3> SUFFICES ASSUME NEW i \in LT!Visible \cup {t} PROVE id2loc'[i] \in Locs
      OBVIOUS
    <3>1. CASE i \in nbrs[p] \/ i = t
      BY <1>7, <3>1
    <3>2. CASE i \in LT!Visible \ nbrs[p]
      BY <1>3, <1>7, <3>2
    <3> QED BY <3>1, <3>2
  <2> QED BY <2>1, ReadsFacts
<1> HIDE DEF Old, New, t
<1>14. \A i \in LT!Visible : /\ New(i).id = Old(i).id
                             /\ Old(i).nbrs \subseteq New(i).nbrs
                             /\ New(i).nbrs \subseteq Old(i).nbrs \cup {t}
  <2> SUFFICES ASSUME NEW i \in LT!Visible
               PROVE  /\ New(i).id = Old(i).id
                      /\ Old(i).nbrs \subseteq New(i).nbrs
                      /\ New(i).nbrs \subseteq Old(i).nbrs \cup {t}
    OBVIOUS
  <2>1. CASE i \in nbrs[p]
    <3>1. New(i) = [Old(i) EXCEPT !.nbrs = @ \cup {t}] /\ Old(i) \in Records
      BY <1>9, <1>11, <2>1
    <3> QED BY ONLY <3>1 DEF Records
  <2>2. CASE i \notin nbrs[p]
    BY <1>10, <2>2
  <2> QED BY <2>1, <2>2
<1>15. \A i \in nbrs[p] : t \in New(i).nbrs
  <2> SUFFICES ASSUME NEW i \in nbrs[p] PROVE t \in New(i).nbrs
    OBVIOUS
  <2>1. New(i) = [Old(i) EXCEPT !.nbrs = @ \cup {t}] /\ Old(i) \in Records
    BY <1>3, <1>9, <1>11
  <2> QED BY ONLY <2>1 DEF Records
<1>16. RecordsFound'
  <2>1. \A i \in LT!Visible : New(i).id = i
    BY <1>12, <1>14 DEF RecordInv, RecordsFound
  <2>2. New(t).id = t
    BY <1>8
  <2> QED BY <1>5, <1>13, <2>1, <2>2 DEF RecordsFound
<1>17. ASSUME NEW u \in LT!Visible \cup {t}, u >= NPoints,
              NEW v \in New(u).nbrs \cap (LT!Visible \cup {t}), v < u
       PROVE  u \in New(v).nbrs
  <2>1. u \in Nat /\ v \in Nat /\ v \in LT!Visible
    <3>1. t \in Nat /\ \A i \in LT!Visible : i \in Nat /\ i < t
      BY <1>3, <1>5
    <3>2. u \in Nat /\ u <= t
      BY ONLY <3>1, u \in LT!Visible \cup {t}
    <3>3. v \in LT!Visible \cup {t}
      OBVIOUS
    <3>4. v # t
      BY ONLY <1>17, <3>1, <3>2
    <3> QED BY ONLY <3>1, <3>2, <3>3, <3>4
  <2>2. CASE u = t
    BY <1>8, <1>15, <2>2
  <2>3. CASE u \in LT!Visible
    <3>1. v # t
      BY <1>3, <1>5, <1>17, <2>1, <2>3
    <3>2. v \in Old(u).nbrs
      BY <1>14, <2>3, <3>1
    <3>3. u \in Old(v).nbrs
      BY <1>12, <1>17, <2>1, <2>3, <3>2 DEF RecordInv, LinksFound
    <3> QED BY <1>14, <2>1, <3>3
  <2> QED BY <2>2, <2>3
<1>18. LinksFound'
  BY <1>5, <1>13, <1>17 DEF LinksFound
<1> QED BY <1>16, <1>18

(* The steps that are not about pages, by what they do to the rest.        *)
LEMMA PlainPlaces ==
  ASSUME Shape, NEW p \in Inserters,
         \/ Begin(p) \/ BeginSearch(p) \/ LockPage(p) \/ LockVec(p) \/ LockIdx(p)
         \/ EraseAndSetLoc(p) \/ UnlockVec(p) \/ UnlockTarget(p)
  PROVE  /\ UNCHANGED <<id2loc, nbrs, locs, bg_tasks, bg_task>>
         /\ at'[p] \in Allocating => at[p] \in Allocating
         /\ at'[p] # "update"
         /\ at'[p] \in {"lockidx", "move"} => at[p] \in {"lockidx", "move"}
         /\ \/ /\ at[p] = "idle" /\ at'[p] = "begin"
               /\ cur_id' = cur_id + 1 /\ target'[p] = cur_id
            \/ /\ at[p] # "idle" /\ at'[p] \notin {"idle", "begin"}
               /\ cur_id' = cur_id /\ target' = target
               /\ at[p] \in Unseen <=> at'[p] \in Unseen
<1> USE DEF Shape, PerInserter, tables, locals, bg, Allocating, Unseen
<1>1. CASE Begin(p)
  BY <1>1 DEF Begin
<1>2. CASE BeginSearch(p)
  BY <1>2 DEF BeginSearch
<1>3. CASE LockPage(p) \/ LockVec(p)
  BY <1>3 DEF LockPage, LockVec
<1>4. CASE LockIdx(p)
  BY <1>4 DEF LockIdx
<1>5. CASE EraseAndSetLoc(p)
  BY <1>5 DEF EraseAndSetLoc
<1>6. CASE UnlockVec(p) \/ UnlockTarget(p)
  BY <1>6 DEF UnlockVec, UnlockTarget
<1> QED BY <1>1, <1>2, <1>3, <1>4, <1>5, <1>6

(* They leave every record as it is.                                       *)
LEMMA PlainRecords ==
  ASSUME OneThread, IInv, IInv', RefsInv, RecordInv, NEW p \in Inserters, UNCHANGED dataVars,
         \/ Begin(p) \/ BeginSearch(p) \/ LockPage(p) \/ LockVec(p) \/ LockIdx(p)
         \/ EraseAndSetLoc(p) \/ UnlockVec(p) \/ UnlockTarget(p)
  PROVE  RecordInv'
<1>0. Shape /\ Shape' /\ \A q \in Inserters : q = p
  BY DEF IInv, OneThread
<1>1. /\ UNCHANGED <<id2loc, nbrs, locs, bg_tasks, bg_task>>
      /\ at'[p] \in Allocating => at[p] \in Allocating
      /\ at'[p] # "update"
      /\ at'[p] \in {"lockidx", "move"} => at[p] \in {"lockidx", "move"}
      /\ \/ /\ at[p] = "idle" /\ at'[p] = "begin"
            /\ cur_id' = cur_id + 1 /\ target'[p] = cur_id
         \/ /\ at[p] # "idle" /\ at'[p] \notin {"idle", "begin"}
            /\ cur_id' = cur_id /\ target' = target
            /\ at[p] \in Unseen <=> at'[p] \in Unseen
  BY <1>0, PlainPlaces
<1>2. \A q \in Inserters : /\ HasWritten(q)' <=> HasWritten(q)
                           /\ HasWritten(q) => WritePages(q)' = WritePages(q)
  BY <1>0, PlacesKept
<1>3. /\ UNCHANGED <<disk, refs, cached, missing, found, buf, bg_bufs, bg_buf>>
      /\ need_read' = need_read /\ page_ref' = page_ref
  BY DEF dataVars
<1>4. CacheInv' /\ \A l \in Locs : Contents(l)' = Contents(l)
  BY <1>1, <1>2, <1>3, SameCache DEF RecordInv
<1>5. cur_id \in Nat
  BY OwnFacts
<1>6. LT!Visible' = LT!Visible
  <2>1. LT!Visible = IF at[p] \in Unseen THEN (0 .. cur_id - 1) \ {target[p]} ELSE 0 .. cur_id - 1
    BY <1>0, VisibleIs
  <2>2. LT!Visible' = IF at'[p] \in Unseen THEN (0 .. cur_id' - 1) \ {target'[p]}
                      ELSE 0 .. cur_id' - 1
    BY <1>0, VisibleIsNext
  <2>3. CASE at[p] = "idle" /\ at'[p] = "begin" /\ cur_id' = cur_id + 1 /\ target'[p] = cur_id
    <3>1. LT!Visible = 0 .. cur_id - 1 /\ LT!Visible' = (0 .. cur_id' - 1) \ {target'[p]}
      BY <2>1, <2>2, <2>3 DEF Unseen
    <3> QED BY <1>5, <2>3, <3>1
  <2>4. CASE cur_id' = cur_id /\ target' = target /\ (at[p] \in Unseen <=> at'[p] \in Unseen)
    BY <2>1, <2>2, <2>4
  <2> QED BY <1>1, <2>3, <2>4
<1>7. RawEmpty' /\ BufRead' /\ NewLocsWritten' /\ RecordsFound' /\ LinksFound'
  <2>1. \A q \in Inserters : RawPages(q)' = RawPages(q)
    BY <1>1, <1>3 DEF RawPages, WritePages
  <2>2. at'[p] \in {"lockidx", "move"} => target'[p] = target[p]
    BY <1>1
  <2> QED BY <1>0, <1>1, <1>3, <1>4, <1>6, <2>1, <2>2, BuffersKept
<1>8. LastId'
  BY <1>0, <1>1, <1>5 DEF RecordInv, LastId
<1>9. NoneReferenced'
  <2>1. Zero' = Zero
    BY SamePages DEF Zero
  <2> QED BY <1>0, <1>1, <1>3, <2>1 DEF RecordInv, NoneReferenced
<1> QED BY <1>4, <1>7, <1>8, <1>9 DEF RecordInv

(* A search that reads a page, ...                                         *)
LEMMA VisitRecords ==
  ASSUME OneThread, IInv, IInv', RefsInv, BufsInv, RecordInv, NEW p \in Inserters,
         NEW i \in Ids, DataVisit(p, i)
  PROVE  RecordInv'
<1> DEFINE reqs == [g \in {PageOf(id2loc[i])} |-> 1]
<1>0. Shape /\ Shape' /\ P!IInv /\ \A q \in Inserters : q = p
  BY DEF IInv, OneThread
<1>1. /\ at[p] = "search" /\ at' = [at EXCEPT ![p] = "reading"] /\ i \in LT!Visible
      /\ Request(p, reqs)
      /\ UNCHANGED <<cur_id, id2loc, target, locs, bg_tasks, bg_task>>
      /\ UNCHANGED <<disk, need_read, buf, bg_bufs, bg_buf>>
  BY DEF DataVisit, Visit, tables, bg
<1>2. at'[p] = "reading"
  BY <1>0, <1>1 DEF Shape
<1>3. DOMAIN reqs \subseteq Pages /\ \A g \in DOMAIN reqs : reqs[g] \in Nat
  BY <1>0, <1>1, LinkedLocs
<1>4. ~HasWritten(p) /\ ~HasWritten(p)'
  BY <1>1, <1>2 DEF HasWritten
<1> HIDE DEF reqs
<1>5. CacheInv' /\ \A l \in Locs : Contents(l)' = Contents(l)
  BY <1>1, <1>3, <1>4, RequestCache DEF BufsInv, RecordInv
<1>6. LT!Visible' = LT!Visible
  BY <1>0, <1>1, <1>2, VisibleIs, VisibleIsNext DEF Unseen
<1>7. RawEmpty' /\ BufRead' /\ NewLocsWritten' /\ RecordsFound' /\ LinksFound'
  <2>1. at'[p] \notin Allocating \cup {"lockidx", "move"} /\ at'[p] # "update"
    BY <1>2 DEF Allocating
  <2> QED BY <1>0, <1>1, <1>5, <1>6, <2>1, BuffersKept
<1>8. LastId' /\ NoneReferenced'
  BY <1>0, <1>1, <1>2 DEF RecordInv, LastId, NoneReferenced
<1> QED BY <1>5, <1>7, <1>8 DEF RecordInv

(* ... and the end of a read_alloc().                                      *)
LEMMA ReadEndRecords ==
  ASSUME OneThread, IInv, IInv', RefsInv, BufsInv, RecordInv, NEW p \in Inserters,
         DataEndVisit(p) \/ FillCache(p)
  PROVE  RecordInv'
<1>0. Shape /\ Shape' /\ \A q \in Inserters : q = p
  BY DEF IInv, OneThread
<1>1. /\ \/ at[p] = "reading" /\ at'[p] = "search"
         \/ at[p] = "update" /\ at'[p] = "update"
      /\ PutMisses(p)
      /\ UNCHANGED <<cur_id, id2loc, target, nbrs, locs, bg_tasks, bg_task>>
      /\ UNCHANGED <<disk, page_ref, need_read, buf, bg_bufs, bg_buf>>
  BY <1>0 DEF DataEndVisit, EndVisit, FillCache, vars, tables, locals, bg, Shape
<1>2. ~HasWritten(p) /\ ~HasWritten(p)'
  BY <1>1 DEF HasWritten
<1>3. CacheInv' /\ \A l \in Locs : Contents(l)' = Contents(l)
  BY <1>1, <1>2, PutMissesCache DEF RecordInv
<1>4. LT!Visible' = LT!Visible
  BY <1>0, <1>1, VisibleIs, VisibleIsNext DEF Unseen
<1>5. RawEmpty' /\ BufRead' /\ NewLocsWritten' /\ RecordsFound' /\ LinksFound'
  <2>1. /\ at'[p] \notin {"lockidx", "move"}
        /\ at'[p] \in Allocating => at[p] \in Allocating
        /\ at'[p] = "update" => at[p] = "update"
    BY <1>1 DEF Allocating
  <2>2. RawPages(p)' = RawPages(p)
    BY <1>1 DEF RawPages, WritePages
  <2> QED BY <1>0, <1>1, <1>3, <1>4, <2>1, <2>2, BuffersKept
<1>6. LastId' /\ NoneReferenced'
  BY <1>0, <1>1 DEF RecordInv, LastId, NoneReferenced
<1> QED BY <1>3, <1>5, <1>6 DEF RecordInv

(* alloc_loc() touches no page.                                            *)
LEMMA AllocRecords ==
  ASSUME OneThread, IInv, IInv', RefsInv, RecordInv, NEW p \in Inserters,
         NEW keep \in SUBSET nbrs[p], DataAllocLoc(p, keep)
  PROVE  RecordInv'
<1>0. Shape /\ Shape' /\ \A q \in Inserters : q = p
  BY DEF IInv, OneThread
<1>1. /\ AllocLoc(p, keep) /\ at[p] = "search" /\ at' = [at EXCEPT ![p] = "lockpage"]
      /\ UNCHANGED <<cur_id, id2loc, target, bg_tasks, bg_task>>
      /\ UNCHANGED <<disk, refs, cached, page_ref, buf, missing, found, bg_bufs, bg_buf>>
  BY DEF DataAllocLoc, AllocLoc, bg
<1>2. at'[p] = "lockpage"
  BY <1>0, <1>1 DEF Shape
<1>3. ~HasWritten(p) /\ ~HasWritten(p)'
  BY <1>1, <1>2 DEF HasWritten
<1>4. CacheInv' /\ \A l \in Locs : Contents(l)' = Contents(l)
  BY <1>0, <1>1, <1>3, SameCache DEF RecordInv
<1>5. LT!Visible' = LT!Visible
  BY <1>0, <1>1, <1>2, VisibleIs, VisibleIsNext DEF Unseen
<1>6. RawEmpty'
  BY <1>5, AllocRawEmpty
<1>7. BufRead' /\ NewLocsWritten'
  BY <1>0, <1>2 DEF BufRead, NewLocsWritten
<1>8. RecordsFound' /\ LinksFound'
  <2>1. \A i \in LT!Visible : id2loc[i] \in Locs /\ Reads'[id2loc[i]] = Reads[id2loc[i]]
    BY <1>4, LinkedLocs, ReadsFacts DEF IInv
  <2> QED BY <1>1, <1>5, <2>1, RecordsStay DEF RecordInv
<1>9. LastId' /\ NoneReferenced'
  BY <1>0, <1>1, <1>2 DEF RecordInv, LastId, NoneReferenced
<1> QED BY <1>4, <1>6, <1>7, <1>8, <1>9 DEF RecordInv

(* read_alloc() of the neighbours, the new records, and the moved ids.     *)
LEMMA UpdateRecords ==
  ASSUME OneThread, IInv, IInv', RefsInv, BufsInv, RecordInv, NEW p \in Inserters,
         DataReadPages(p) \/ DataSetTarget(p) \/ (MoveIds(p) /\ UNCHANGED dataVars)
  PROVE  RecordInv'
<1>0. Shape /\ Shape' /\ \A q \in Inserters : q = p
  BY DEF IInv, OneThread
<1>1. /\ UNCHANGED <<cur_id, target, locs, nbrs>>
      /\ at[p] \in {"read", "update", "move"} /\ at'[p] \in {"update", "lockidx", "erase"}
      /\ UNCHANGED need_read
  BY <1>0 DEF DataReadPages, ReadPages, DataSetTarget, SetTarget, MoveIds, dataVars,
         tables, locals, Shape
<1>2. LastId' /\ NoneReferenced'
  BY <1>0, <1>1 DEF RecordInv, LastId, NoneReferenced
<1>3. CASE DataReadPages(p)
  <2>1. /\ at[p] = "read" /\ at'[p] = "update" /\ id2loc' = id2loc
    BY <1>0, <1>3 DEF DataReadPages, ReadPages, tables, Shape
  <2>2. CacheInv' /\ BufRead' /\ \A l \in Locs : Contents(l)' = Contents(l)
    BY <1>3, ReadPagesRecords
  <2>3. LT!Visible' = LT!Visible
    BY <1>0, <1>1, <2>1, VisibleIs, VisibleIsNext DEF Unseen
  <2>4. RawEmpty'
    <3>1. RawPages(p)' = RawPages(p)
      BY <1>1 DEF RawPages, WritePages
    <3>2. \A i \in LT!Visible : PageOf(id2loc[i]) \notin RawPages(p)
      BY <2>1 DEF RecordInv, RawEmpty, Allocating
    <3> QED BY <1>0, <2>1, <2>3, <3>1, <3>2 DEF RawEmpty, PageOf, LT!PageOf
  <2>5. NewLocsWritten'
    BY <1>0, <2>1 DEF NewLocsWritten
  <2>6. RecordsFound' /\ LinksFound'
    <3>1. \A i \in LT!Visible : id2loc[i] \in Locs /\ Reads'[id2loc[i]] = Reads[id2loc[i]]
      BY <2>2, LinkedLocs, ReadsFacts DEF IInv
    <3> QED BY <2>1, <2>3, <3>1, RecordsStay DEF RecordInv
  <2> QED BY <1>2, <2>2, <2>4, <2>5, <2>6 DEF RecordInv
<1>4. CASE DataSetTarget(p)
  <2>1. at[p] = "update" /\ at'[p] = "lockidx"
    BY <1>0, <1>4 DEF DataSetTarget, SetTarget, Shape
  <2>2. CacheInv' /\ NewLocsWritten'
    BY <1>4, SetTargetCache, SetTargetWrites DEF RecordInv
  <2>3. LT!Visible' = LT!Visible
    BY <1>0, <1>1, <2>1, VisibleIs, VisibleIsNext DEF Unseen
  <2>4. RawEmpty' /\ BufRead'
    BY <1>0, <2>1 DEF RawEmpty, BufRead, Allocating
  <2>5. RecordsFound' /\ LinksFound'
    BY <1>4, <2>3, SetTargetKeeps, RecordsStay DEF RecordInv
  <2> QED BY <1>2, <2>2, <2>4, <2>5 DEF RecordInv
<1>5. CASE MoveIds(p) /\ UNCHANGED dataVars
  <2>1. at[p] = "move" /\ at'[p] = "erase"
    BY <1>0, <1>5 DEF MoveIds, Shape
  <2>2. UNCHANGED <<disk, refs, cached, missing, found, buf, bg_bufs, bg_buf>>
        /\ UNCHANGED <<bg_tasks, bg_task>>
    BY <1>5 DEF dataVars, MoveIds, bg
  <2>3. \A q \in Inserters : /\ HasWritten(q)' <=> HasWritten(q)
                             /\ HasWritten(q) => WritePages(q)' = WritePages(q)
    BY <1>0, <1>5, PlacesKept
  <2>4. CacheInv' /\ \A l \in Locs : Contents(l)' = Contents(l)
    BY <2>2, <2>3, SameCache DEF RecordInv
  <2>5. RecordsFound' /\ LinksFound'
    BY <1>5, <2>4, MoveIdsRecords
  <2>6. RawEmpty' /\ BufRead' /\ NewLocsWritten'
    BY <1>0, <2>1 DEF RawEmpty, BufRead, NewLocsWritten, Allocating
  <2> QED BY <1>2, <2>4, <2>5, <2>6 DEF RecordInv
<1> QED BY <1>3, <1>4, <1>5

(* The hand-over to the background thread.                                 *)
LEMMA PushTaskRecords ==
  ASSUME OneThread, IInv, IInv', RefsInv, RefsInv', BufsInv, RecordInv, NEW p \in Inserters,
         DataPushTask(p)
  PROVE  RecordInv'
<1>0. Shape /\ Shape' /\ \A q \in Inserters : q = p
  BY DEF IInv, OneThread
<1>1. /\ at[p] = "push" /\ at'[p] = "idle" /\ UNCHANGED <<cur_id, id2loc>>
      /\ page_ref'[p] = Zero
  BY <1>0 DEF DataPushTask, PushTask, tables, Shape, RefsInv, DataShape
<1>2. CacheInv' /\ \A l \in Locs : Contents(l)' = Contents(l)
  BY PushTaskCache DEF RecordInv
<1>3. LT!Visible' = LT!Visible
  BY <1>0, <1>1, VisibleIs, VisibleIsNext DEF Unseen
<1>4. RawEmpty' /\ BufRead' /\ NewLocsWritten' /\ LastId'
  BY <1>0, <1>1 DEF RawEmpty, BufRead, NewLocsWritten, LastId, Allocating
<1>5. NoneReferenced'
  <2>1. Zero' = Zero
    BY SamePages DEF Zero
  <2> QED BY <1>0, <1>1, <2>1 DEF NoneReferenced
<1>6. RecordsFound' /\ LinksFound'
  <2>1. \A i \in LT!Visible : id2loc[i] \in Locs /\ Reads'[id2loc[i]] = Reads[id2loc[i]]
    BY <1>2, LinkedLocs, ReadsFacts DEF IInv
  <2> QED BY <1>1, <1>3, <2>1, RecordsStay DEF RecordInv
<1> QED BY <1>2, <1>4, <1>5, <1>6 DEF RecordInv

(* The steps of the background thread.                                     *)
LEMMA BgRecords ==
  ASSUME OneThread, IInv, IInv', RefsInv, RefsInv', BufsInv, RecordInv,
         DataBgPop \/ DataBgFinish
  PROVE  RecordInv'
<1>1. /\ UNCHANGED <<tables, locals, at>>
      /\ UNCHANGED <<page_ref, need_read, buf>>
  BY DEF DataBgPop, BgPop, DataBgFinish, BgFinish
<1>2. CacheInv' /\ \A l \in Locs : Contents(l)' = Contents(l)
  BY BgPopCache, BgFinishCache DEF RecordInv
<1>3. LT!Visible' = LT!Visible
  BY <1>1 DEF LT!Visible, LT!Unlinked, PcBar, Bar, Over, tables, locals
<1>4. RawEmpty' /\ BufRead' /\ NewLocsWritten' /\ RecordsFound' /\ LinksFound'
  <2>1. \A q \in Inserters : RawPages(q)' = RawPages(q)
    BY <1>1 DEF RawPages, WritePages, locals
  <2> QED BY <1>1, <1>2, <1>3, <2>1, BuffersKept DEF tables, locals
<1>5. LastId' /\ NoneReferenced'
  <2>1. Zero' = Zero
    BY SamePages DEF Zero
  <2> QED BY <1>1, <2>1 DEF RecordInv, LastId, NoneReferenced, tables, locals
<1> QED BY <1>2, <1>4, <1>5 DEF RecordInv

(* A loaded index: the disk has every record, and nothing is cached.       *)
LEMMA RecordInit == DataInit => RecordInv
<1> SUFFICES ASSUME DataInit PROVE RecordInv
  OBVIOUS
<1>1. /\ cur_id = NPoints /\ id2loc = [i \in Ids |-> IF i < NPoints THEN i ELSE -1]
      /\ disk = [l \in Locs |-> IF l < NPoints THEN [id |-> l, nbrs |-> {}] ELSE Blank]
      /\ refs = Zero /\ bg_task = {} /\ bg_tasks = <<>>
      /\ \A p \in Inserters : at[p] = "idle" /\ page_ref[p] = Zero /\ missing[p] = NoPages
  BY DEF DataInit, Init, LT!InitTables, Ids, LT!Invalid
<1>2. \A l \in Locs : refs[PageOf(l)] = 0
  BY <1>1, PageLocsFacts DEF Zero
<1>3. CacheInv
  <2>1. WritesCached
    BY <1>1 DEF WritesCached, HasWritten, PageLocs
  <2>2. CacheClean
    BY <1>2 DEF CacheClean
  <2>3. MissesFresh
    BY <1>1 DEF MissesFresh, NoPages, PageLocs
  <2> QED BY <2>1, <2>2, <2>3 DEF CacheInv
<1>4. LastId /\ NoneReferenced /\ RawEmpty /\ BufRead /\ NewLocsWritten
  BY <1>1 DEF LastId, NoneReferenced, RawEmpty, BufRead, NewLocsWritten, Allocating
<1>5. ASSUME NEW i \in LT!Visible
      PROVE  i \in Nat /\ i < NPoints /\ Contents(id2loc[i]).id = i
  <2>1. i \in 0 .. NPoints - 1
    BY <1>1 DEF LT!Visible
  <2>2. /\ i \in Nat /\ i < NPoints /\ i \in Ids /\ i \in Locs
    BY <2>1, DirectInsertAssumption DEF Ids, LT!Ids, Locs, LT!Locs
  <2>3. id2loc[i] = i /\ disk[i] = [id |-> i, nbrs |-> {}]
    BY <1>1, <2>2
  <2>4. Contents(i) = disk[i]
    BY <1>2, <2>2 DEF Contents
  <2> QED BY <2>2, <2>3, <2>4
<1>6. RecordsFound
  BY <1>5 DEF RecordsFound
<1>7. LinksFound
  <2>1. \A t \in LT!Visible : ~(t >= NPoints)
    BY <1>5, DirectInsertAssumption
  <2> QED BY <2>1 DEF LinksFound
<1> QED BY <1>3, <1>4, <1>6, <1>7 DEF RecordInv

(* With one thread, every step keeps the records.                          *)
LEMMA RecordNext ==
  OneThread /\ IInv /\ IInv' /\ RefsInv /\ RefsInv' /\ BufsInv /\ RecordInv /\ [DataNext]_allVars
    => RecordInv'
<1> SUFFICES ASSUME OneThread, IInv, IInv', RefsInv, RefsInv', BufsInv, RecordInv,
                    [DataNext]_allVars
             PROVE  RecordInv'
  OBVIOUS
<1>1. ASSUME NEW p \in Inserters, NEW i \in Ids, DataVisit(p, i) PROVE RecordInv'
  BY <1>1, VisitRecords
<1>2. ASSUME NEW p \in Inserters, DataEndVisit(p) \/ FillCache(p) PROVE RecordInv'
  BY <1>2, ReadEndRecords
<1>3. ASSUME NEW p \in Inserters, NEW keep \in SUBSET nbrs[p], DataAllocLoc(p, keep)
      PROVE  RecordInv'
  BY <1>3, AllocRecords
<1>4. ASSUME NEW p \in Inserters,
             DataReadPages(p) \/ DataSetTarget(p) \/ (MoveIds(p) /\ UNCHANGED dataVars)
      PROVE  RecordInv'
  BY <1>4, UpdateRecords
<1>5. ASSUME NEW p \in Inserters, DataPushTask(p) PROVE RecordInv'
  BY <1>5, PushTaskRecords
<1>6. ASSUME NEW p \in Inserters, UNCHANGED dataVars,
             \/ Begin(p) \/ BeginSearch(p) \/ LockPage(p) \/ LockVec(p) \/ LockIdx(p)
             \/ EraseAndSetLoc(p) \/ UnlockVec(p) \/ UnlockTarget(p)
      PROVE  RecordInv'
  BY <1>6, PlainRecords
<1>7. CASE DataBgPop \/ DataBgFinish
  BY <1>7, BgRecords
<1>8. CASE UNCHANGED allVars
  <2>1. UNCHANGED <<tables, locals, at>> /\ UNCHANGED <<page_ref, need_read, buf>>
        /\ UNCHANGED <<disk, refs, cached, missing, found, bg_bufs, bg_buf>>
        /\ UNCHANGED <<bg_tasks, bg_task>>
    BY <1>8 DEF allVars, dataVars, vars, bg
  <2>2. CacheInv' /\ \A l \in Locs : Contents(l)' = Contents(l)
    BY <2>1, SameCache DEF RecordInv, HasWritten, WritePages, locals
  <2>3. LT!Visible' = LT!Visible
    BY <2>1 DEF LT!Visible, LT!Unlinked, PcBar, Bar, Over, tables, locals
  <2>4. RawEmpty' /\ BufRead' /\ NewLocsWritten' /\ RecordsFound' /\ LinksFound'
    <3>1. \A q \in Inserters : RawPages(q)' = RawPages(q)
      BY <2>1 DEF RawPages, WritePages, locals
    <3> QED BY <2>1, <2>2, <2>3, <3>1, BuffersKept DEF tables, locals
  <2>5. LastId' /\ NoneReferenced'
    <3>1. Zero' = Zero
      BY SamePages DEF Zero
    <3> QED BY <2>1, <3>1 DEF RecordInv, LastId, NoneReferenced, tables, locals
  <2> QED BY <2>2, <2>4, <2>5 DEF RecordInv
<1> QED BY <1>1, <1>2, <1>3, <1>4, <1>5, <1>6, <1>7, <1>8 DEF DataNext

(* The invariant of the records, with one inserting thread.                *)
LEMMA RecordsAlways ==
  ASSUME OneThread
  PROVE  DataSpec => [](IInv /\ RefsInv /\ RecordInv)
<1>1. OneThread
  OBVIOUS
<1>2. IInv /\ IInv' /\ RefsInv /\ RefsInv' /\ BufsInv /\ RecordInv /\ [DataNext]_allVars
        => RecordInv'
  BY <1>1, RecordNext
<1> QED BY <1>2, RefsInit, RefsNext, BufsInit, BufsNext, RecordInit, DataSteps,
           StepsInvariance, PTL DEF DataSpec

(* With one inserting thread whoever reads the location of an id, from the *)
(* cache or from the disk, finds the id's record, whatever the background  *)
(* thread has written by then: moves are never seen half done, and no page *)
(* is written with what another write has made obsolete.                   *)
LEMMA OneThreadRecords ==
  ASSUME OneThread
  PROVE  DataSpec => []RecordsIntact
<1>1. RecordInv => RecordsIntact
  BY DEF RecordInv, RecordsFound, RecordsIntact, LT!Settled
<1> QED BY <1>1, RecordsAlways, PTL

(* With one inserting thread the neighbours that an insert has chosen link *)
(* back to it, and no later insert loses the link when it copies and moves *)
(* their records.                                                          *)
LEMMA OneThreadLinks ==
  ASSUME OneThread
  PROVE  DataSpec => []LinksMutual
<1>1. RecordInv => LinksMutual
  BY DEF RecordInv, LinksFound, LinksMutual, LT!Settled
<1> QED BY <1>1, RecordsAlways, PTL

(* With one inserting thread the disk holds every record at the id's       *)
(* location once all inserts and their writes are done, as page_cache.h    *)
(* has it ("ensure that disk has a consistent state").                     *)
LEMMA OneThreadDisk ==
  ASSUME OneThread
  PROVE  DataSpec => []DiskConsistent
<1>1. IInv /\ RefsInv /\ RecordInv => DiskConsistent
  <2> SUFFICES ASSUME IInv, RefsInv, RecordInv, \A p \in Inserters : at[p] = "idle",
                      bg_tasks = <<>>, bg_task = {}, NEW i \in 0 .. cur_id - 1
               PROVE  disk[id2loc[i]].id = i
    BY DEF DiskConsistent
  <2>1. i \in LT!Visible
    BY DEF LT!Visible, LT!Unlinked, PcBar, Over
  <2>2. id2loc[i] \in Locs /\ PageOf(id2loc[i]) \in Pages
    BY <2>1, LinkedLocs DEF IInv
  <2>3. \A g \in Pages : refs[g] = 0
    <3> SUFFICES ASSUME NEW g \in Pages PROVE refs[g] = 0
      OBVIOUS
    <3>1. \A p \in Inserters : ~HasWritten(p) /\ page_ref[p][g] = 0 /\ DOMAIN missing[p] = {}
      BY DEF HasWritten, RecordInv, NoneReferenced, Zero, RefsInv, MissesOK
    <3>2. \A p \in Inserters : Held(p, g) = 0 - 0 + 0
      BY ONLY <3>1 DEF Held
    <3>3. HeldRefs(g) = {} /\ QueuedRefs(g) = {}
      BY <3>2 DEF HeldRefs, QueuedRefs
    <3>4. refs[g] = Cardinality(HeldRefs(g)) + Cardinality(QueuedRefs(g))
                      + (IF g \in bg_task THEN 1 ELSE 0)
      BY DEF RefsInv, RefsAccounted
    <3>5. Cardinality(HeldRefs(g)) = 0 /\ Cardinality(QueuedRefs(g)) = 0 /\ g \notin bg_task
      BY <3>3, FS_EmptySet
    <3> QED BY ONLY <3>4, <3>5
  <2>4. Contents(id2loc[i]) = disk[id2loc[i]]
    BY <2>2, <2>3 DEF Contents
  <2> QED BY <2>1, <2>4 DEF RecordInv, RecordsFound
<1> QED BY <1>1, RecordsAlways, PTL

-----------------------------------------------------------------------------
(* The history of faults.                                                  *)

(* The history variable of InsertRecords changes nothing of what the code  *)
(* may do: what is proved of InsertData holds of it.                       *)
LEMMA HistoryOnly == RecordsSpec => DataSpec
<1>1. RecordsInit => DataInit
  BY DEF RecordsInit
<1>2. [RecordsNext]_<<allVars, faults>> => [DataNext]_allVars
  BY DEF RecordsNext
<1> QED BY <1>1, <1>2, PTL DEF RecordsSpec, DataSpec

(* In the run's specification too, every reference to a cached page is     *)
(* held by an insert or by a task, whatever faults have happened.          *)
LEMMA RefsAccountedWithFaults == RecordsSpec => []RefsAccounted
  BY HistoryOnly, RefsAlwaysAccounted, PTL
=============================================================================
