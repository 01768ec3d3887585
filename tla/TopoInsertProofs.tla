--------------------------- MODULE TopoInsertProofs ---------------------------
(***************************************************************************)
(* Proofs about TopoInsert, for any index, page size and bounds, and any   *)
(* number of deletions and of insertions that follow one another: through  *)
(* placements, page splits and rounds of deletions the topology tables     *)
(* stay inverse to one another, every page is accounted for, and no list   *)
(* names a node that is gone.                                              *)
(*                                                                         *)
(* All of this is under the hypothesis OneInsertion, which the code does   *)
(* not ensure: insertions may run concurrently, and TopoInsert's steps are *)
(* those of insertions that do not.                                        *)
(***************************************************************************)
EXTENDS TopoInsert, FiniteSetTheorems, TLAPS

-----------------------------------------------------------------------------
(* Arithmetic of pages.                                                    *)

(* Integer division by a page size.                                        *)
LEMMA DivBounds ==
  ASSUME NEW x \in Nat, NEW n \in Nat \ {0}
  PROVE  /\ x \div n \in Nat
         /\ n * (x \div n) <= x
         /\ x < n * (x \div n) + n
  OBVIOUS

(* Multiplication by a page size keeps the order.                          *)
LEMMA MulMonotone ==
  ASSUME NEW n \in Nat, NEW q \in Nat, NEW r \in Nat, q <= r
  PROVE  n * q <= n * r
  OBVIOUS

(* Quotient and remainder are unique.                                      *)
LEMMA DivModUnique ==
  ASSUME NEW n \in Nat \ {0}, NEW q \in Nat, NEW y \in 0 .. n - 1
  PROVE  (n * q + y) \div n = q /\ (n * q + y) % n = y
<1> DEFINE a == n * q + y
           d == a \div n
<1>1. a \in Nat
  OBVIOUS
<1>2. d \in Nat /\ n * d <= a /\ a < n * d + n
  BY <1>1, DivBounds
<1>3. a % n = a - n * d
  BY <1>1
<1>4. a = n * q + y
  OBVIOUS
<1> HIDE DEF a, d
<1>5. ~(q + 1 <= d)
  <2> SUFFICES ASSUME q + 1 <= d PROVE FALSE
    OBVIOUS
  <2>1. n * (q + 1) <= n * d
    BY <1>2, MulMonotone
  <2>2. n * (q + 1) = n * q + n
    OBVIOUS
  <2> QED BY <1>2, <1>4, <2>1, <2>2
<1>6. ~(d + 1 <= q)
  <2> SUFFICES ASSUME d + 1 <= q PROVE FALSE
    OBVIOUS
  <2>1. n * (d + 1) <= n * q
    BY <1>2, MulMonotone
  <2>2. n * (d + 1) = n * d + n
    BY <1>2
  <2> QED BY <1>2, <1>4, <2>1, <2>2
<1>7. d = q
  BY <1>2, <1>5, <1>6
<1>8. a % n = y
  BY <1>3, <1>4, <1>7
<1> QED BY <1>7, <1>8 DEF a, d

-----------------------------------------------------------------------------
(* The inductive invariant.                                                *)

(* One insertion at a time: the calls are those of one thread, which also  *)
(* starts the deletions or not.                                            *)
OneInsertion == \A p, q \in Inserters : p = q

Inserting(p) == ins[p].at # "idle"

(* The id at a place has that place.                                       *)
TablesAgree ==
  \A pid \in Pages, s \in Slots :
    page_layout_topo[pid][s] # Invalid =>
      id2loc_topo_[page_layout_topo[pid][s]] = Loc(pid, s)

(* A point with a tag is placed, unless it is being inserted.              *)
TagsPlaced ==
  tags \subseteq Placed \cup {ins[p].target : p \in {q \in Inserters : Reserving(q)}}

(* The pages behind the tail are empty; those before it are empty only if  *)
(* they are in the queue, once, or in reserve.                             *)
Unused(pid) == page_layout_topo[pid] = EmptyLayout
Queued(pid) == \E k \in DOMAIN empty_pages_topo : empty_pages_topo[k] = pid
InReserve(pid) == \E p \in Inserters : Reserving(p) /\ ins[p].new_topo_pid = pid
PagesKept ==
  /\ \A pid \in Pages : pid >= cur_page => Unused(pid)
  /\ \A pid \in Pages : Queued(pid) => pid < cur_page /\ Unused(pid) /\ ~InReserve(pid)
  /\ \A j, k \in DOMAIN empty_pages_topo : empty_pages_topo[j] = empty_pages_topo[k] => j = k
  /\ \A p \in Inserters : Reserving(p) =>
       /\ ins[p].new_topo_pid \in Pages /\ ins[p].new_topo_pid < cur_page
       /\ Unused(ins[p].new_topo_pid)
  /\ \A pid \in Pages : pid < cur_page /\ Unused(pid) => Queued(pid) \/ InReserve(pid)

(* The ids that are given out, and what the call knows of the index.       *)
CallsOK ==
  /\ \A i \in Placed : i < cur_id
  /\ \A p \in Inserters : Inserting(p) =>
       /\ merge = "idle"
       /\ ins[p].target \in Ids /\ ins[p].target < cur_id
       /\ ins[p].target \in Placed <=> ins[p].at = "write"
       /\ ins[p].new_nhood \subseteq Placed
  /\ \A p \in Inserters : ins[p].at = "place" =>
       DOMAIN ins[p].buf = {PageOfId(i) : i \in ins[p].new_nhood}

(* The lists at the places that have ids name only ids in S.               *)
ListsIn(page, pid, S) ==
  \A s \in Slots : page_layout_topo[pid][s] # Invalid => page[s] \subseteq S

(* The lists of the placed nodes name placed nodes.  Until its pages are   *)
(* written, the list of the target is in the call's buffers only.          *)
ListsKept ==
  /\ \A pid \in Pages, s \in Slots :
       LET i == page_layout_topo[pid][s] IN
         i # Invalid /\ (\A p \in Inserters : Inserting(p) => i # ins[p].target)
           => topo[pid][s] \subseteq Placed
  /\ \A p \in Inserters : ins[p].at = "place" =>
       \A pid \in DOMAIN ins[p].buf : ListsIn(ins[p].buf[pid], pid, Placed \cup {ins[p].target})
  /\ \A p \in Inserters : ins[p].at = "write" =>
       /\ \A pid \in DOMAIN ins[p].buf : ListsIn(ins[p].buf[pid], pid, Placed)
       /\ PageOfId(ins[p].target) \in DOMAIN ins[p].buf

(* The deletion pass: what it has collected, and what it leaves.           *)
DeletionOK ==
  /\ merge \in {"prune", "erase"} =>
       /\ DOMAIN deleted_nhoods = Placed \cap Merged
       /\ \A d \in DOMAIN deleted_nhoods : deleted_nhoods[d] \subseteq Placed \ Merged
  /\ merge = "erase" => \A pid \in Pages : ListsIn(topo[pid], pid, Placed \ Merged)

(* A deleted point is placed until it is erased, and in one set.           *)
DeletedPlaced ==
  /\ Merged \cap deletion_sets[active_delete_set] = {}
  /\ deletion_sets[active_delete_set] \subseteq Placed
  /\ merge # "idle" => Merged \subseteq Placed

IInv ==
  /\ TypeOK /\ TablesAgree /\ TagsPlaced /\ PagesKept /\ CallsOK /\ ListsKept /\ DeletionOK
  /\ DeletedPlaced

-----------------------------------------------------------------------------
(* Places.                                                                 *)

(* A place has one page and one slot.                                      *)
LEMMA LocFacts ==
  ASSUME NEW pid \in Pages, NEW s \in Slots
  PROVE  /\ Loc(pid, s) \in Locs /\ Loc(pid, s) \in Nat /\ Loc(pid, s) # Invalid
         /\ PageOf(Loc(pid, s)) = pid /\ Loc(pid, s) % ntopo_per_sector = s
<1>1. /\ ntopo_per_sector \in Nat \ {0} /\ MaxPages \in Nat
      /\ pid \in Nat /\ s \in 0 .. ntopo_per_sector - 1
  BY TopoInsertAssumption DEF Pages, Slots
<1>2. Loc(pid, s) = ntopo_per_sector * pid + s
  BY ONLY <1>1 DEF Loc
<1>3. Loc(pid, s) \in Nat
  BY ONLY <1>1, <1>2
<1>4. /\ (ntopo_per_sector * pid + s) \div ntopo_per_sector = pid
      /\ (ntopo_per_sector * pid + s) % ntopo_per_sector = s
  BY ONLY <1>1, DivModUnique
<1> QED BY <1>2, <1>3, <1>4 DEF Locs, PageOf, Invalid

(* The ids that are placed, each at its place and at no other.             *)
LEMMA PlacedIs ==
  Placed = {i \in UNION {{page_layout_topo[pid][s] : s \in Slots} : pid \in Pages} : i # Invalid}
BY DEF Placed, IdsOn

Placement ==
  /\ Placed \subseteq Ids
  /\ \A i \in Placed :
       /\ PageOfId(i) \in Pages /\ SlotOfId(i) \in Slots /\ i # Invalid
       /\ page_layout_topo[PageOfId(i)][SlotOfId(i)] = i
       /\ id2loc_topo_[i] = Loc(PageOfId(i), SlotOfId(i))
  /\ \A pid \in Pages, s \in Slots :
       page_layout_topo[pid][s] # Invalid =>
         /\ page_layout_topo[pid][s] \in Placed
         /\ PageOfId(page_layout_topo[pid][s]) = pid /\ SlotOfId(page_layout_topo[pid][s]) = s

(* Read either way, the tables are inverse to one another.                 *)
LEMMA PlaceFacts == TypeOK /\ TablesAgree => Placement
<1> SUFFICES ASSUME TypeOK, TablesAgree PROVE Placement
  OBVIOUS
<1>1. ASSUME NEW pid \in Pages, NEW s \in Slots, page_layout_topo[pid][s] # Invalid
      PROVE  /\ page_layout_topo[pid][s] \in Ids /\ page_layout_topo[pid][s] \in Placed
             /\ PageOfId(page_layout_topo[pid][s]) = pid /\ SlotOfId(page_layout_topo[pid][s]) = s
             /\ id2loc_topo_[page_layout_topo[pid][s]] = Loc(pid, s)
  <2>1. page_layout_topo[pid][s] \in Ids
    BY <1>1 DEF TypeOK
  <2>2. id2loc_topo_[page_layout_topo[pid][s]] = Loc(pid, s)
    BY <1>1 DEF TablesAgree
  <2>3. page_layout_topo[pid][s] \in Placed
    BY <1>1, PlacedIs
  <2> QED BY <2>1, <2>2, <2>3, LocFacts DEF PageOfId, SlotOfId
<1>2. ASSUME NEW i \in Placed
      PROVE  \E pid \in Pages, s \in Slots : i = page_layout_topo[pid][s] /\ i # Invalid
  BY PlacedIs
<1> QED BY <1>1, <1>2 DEF Placement

(* The same after a step.                                                  *)
LEMMA PlaceFactsNext == TypeOK' /\ TablesAgree' => Placement'
BY PlaceFacts, PTL

(* The members of the sets that the constants make.                        *)
LEMMA SetFacts ==
  /\ Ids \subseteq Nat /\ Pages \subseteq Nat /\ Slots \subseteq Nat /\ Slots # {}
  /\ Invalid \notin Ids /\ Invalid \notin Pages /\ 0 \in Slots
BY TopoInsertAssumption DEF Ids, Pages, Slots, Invalid

-----------------------------------------------------------------------------
(* The loaded index.                                                       *)

(* A loaded id has the place that the order of the ids gives it.           *)
LEMMA InitPlaces ==
  ASSUME Init, NEW i \in 0 .. NumPoints - 1
  PROVE  /\ i \in Ids /\ i \in Placed /\ i \in Locs
         /\ i \div ntopo_per_sector \in Pages /\ i % ntopo_per_sector \in Slots
         /\ Loc(i \div ntopo_per_sector, i % ntopo_per_sector) = i
<1> DEFINE n == ntopo_per_sector
           d == i \div n
           m == i % n
<1>1. /\ n \in Nat \ {0} /\ MaxPages \in Nat /\ NumPoints \in Nat /\ i \in Nat
      /\ i < NumPoints /\ NumPoints <= MaxPages * n /\ NumPoints <= MaxIds /\ MaxIds \in Nat
  BY TopoInsertAssumption
<1>2. d \in Nat /\ n * d <= i /\ i < n * d + n
  BY <1>1, DivBounds
<1>3. m \in 0 .. n - 1 /\ i = d * n + m
  BY <1>1
<1> HIDE DEF n, d, m
<1>4. ~(MaxPages <= d)
  <2> SUFFICES ASSUME MaxPages <= d PROVE FALSE
    OBVIOUS
  <2>1. n * MaxPages <= n * d
    BY <1>1, <1>2, MulMonotone
  <2>2. n * MaxPages = MaxPages * n
    BY <1>1
  <2> QED BY <1>1, <1>2, <2>1, <2>2
<1>5. d \in Pages /\ m \in Slots /\ Loc(d, m) = i
  BY <1>1, <1>2, <1>3, <1>4 DEF Pages, Slots, Loc, n
<1>6. i \in Ids
  BY <1>1 DEF Ids
<1>7. page_layout_topo[d][m] = i
  BY <1>1, <1>5 DEF Init
<1>8. i \in Placed
  BY <1>1, <1>5, <1>7, PlacedIs DEF Invalid
<1> QED BY <1>5, <1>6, <1>8 DEF Locs, n, d, m

(* The tail is the first page behind the points.                           *)
LEMMA InitTail ==
  ASSUME NEW pid \in Pages
  PROVE  LET tail == (NumPoints + ntopo_per_sector - 1) \div ntopo_per_sector IN
         /\ tail \in 0 .. MaxPages
         /\ pid < tail => Loc(pid, 0) < NumPoints
         /\ pid >= tail => \A s \in Slots : Loc(pid, s) >= NumPoints
<1> DEFINE n == ntopo_per_sector
           tail == (NumPoints + n - 1) \div n
<1>1. /\ n \in Nat \ {0} /\ MaxPages \in Nat /\ NumPoints \in Nat \ {0} /\ pid \in Nat
      /\ NumPoints <= MaxPages * n /\ NumPoints + n - 1 \in Nat
  BY TopoInsertAssumption DEF Pages
<1>2. tail \in Nat /\ n * tail <= NumPoints + n - 1 /\ NumPoints + n - 1 < n * tail + n
  BY <1>1, DivBounds
<1> HIDE DEF n, tail
<1>3. ASSUME NEW q \in Nat, q + 1 <= tail PROVE n * q < NumPoints
  <2>1. n * (q + 1) <= n * tail /\ n * (q + 1) = n * q + n
    BY <1>1, <1>2, <1>3, MulMonotone
  <2>2. n * q \in Nat /\ n * tail \in Nat
    BY <1>1, <1>2
  <2> QED BY ONLY <1>1, <1>2, <2>1, <2>2
<1>4. pid >= tail => n * pid >= NumPoints
  <2> SUFFICES ASSUME pid >= tail PROVE n * pid >= NumPoints
    OBVIOUS
  <2>1. n * tail <= n * pid
    BY <1>1, <1>2, MulMonotone
  <2>2. n * pid \in Nat /\ n * tail \in Nat
    BY <1>1, <1>2
  <2> QED BY ONLY <1>1, <1>2, <2>1, <2>2
<1>5. tail <= MaxPages
  <2> SUFFICES ASSUME MaxPages + 1 <= tail PROVE FALSE
    BY <1>1, <1>2
  <2>1. n * MaxPages < NumPoints
    BY <1>1, <1>3
  <2>2. n * MaxPages = MaxPages * n
    BY <1>1
  <2> QED BY <1>1, <2>1, <2>2
<1>6. pid < tail => Loc(pid, 0) < NumPoints
  <2>1. Loc(pid, 0) = n * pid
    BY <1>1 DEF Loc, n
  <2> QED BY <1>1, <1>2, <1>3, <2>1
<1>7. pid >= tail => \A s \in Slots : Loc(pid, s) >= NumPoints
  <2>1. \A s \in Slots : Loc(pid, s) = n * pid + s /\ s \in Nat
    BY <1>1 DEF Loc, n, Slots
  <2>2. n * pid \in Nat
    BY <1>1
  <2> QED BY ONLY <1>1, <1>4, <2>1, <2>2
<1> QED BY <1>1, <1>2, <1>5, <1>6, <1>7 DEF tail, n

(* The loaded index satisfies the invariant.                               *)
LEMMA InitInv == Init => IInv
<1> SUFFICES ASSUME Init PROVE IInv
  OBVIOUS
<1>0. /\ NumPoints \in Nat \ {0} /\ MaxIds \in Nat /\ NumPoints <= MaxIds /\ 2 < NumPoints
      /\ MaxPages \in Nat \ {0}
  BY TopoInsertAssumption
<1>1. \A pid \in Pages, s \in Slots :
        /\ Loc(pid, s) \in Nat
        /\ page_layout_topo[pid][s] = IF Loc(pid, s) < NumPoints THEN Loc(pid, s) ELSE Invalid
        /\ topo[pid][s] = Ring(Loc(pid, s))
  BY LocFacts DEF Init
<1>2. \A i \in 0 .. NumPoints - 1 : i \in Ids /\ i \in Placed /\ i \in Locs
  BY InitPlaces
<1>3. \A p \in Inserters : ins[p] = Idle /\ ~Inserting(p) /\ ~Reserving(p)
                           /\ ins[p].at = "idle"
  BY DEF Init, Idle, Inserting, Reserving
<1>4. \A x \in Nat : Ring(x) \subseteq 0 .. NumPoints - 1
  BY <1>0 DEF Ring
<1>5. TypeOK
  <2>1. page_layout_topo \in [Pages -> [Slots -> Ids \cup {Invalid}]]
    <3>1. \A pid \in Pages, s \in Slots : page_layout_topo[pid][s] \in Ids \cup {Invalid}
      BY <1>0, <1>1 DEF Ids
    <3> QED BY <3>1 DEF Init
  <2>2. id2loc_topo_ \in [Ids -> Locs \cup {Invalid}]
    <3>1. \A i \in Ids : i < NumPoints => i \in 0 .. NumPoints - 1
      BY <1>0 DEF Ids
    <3> QED BY <1>2, <3>1 DEF Init
  <2>3. topo \in [Pages -> [Slots -> SUBSET Ids]]
    <3>1. \A pid \in Pages, s \in Slots : topo[pid][s] \in SUBSET Ids
      BY <1>1, <1>2, <1>4
    <3> QED BY <3>1 DEF Init
  <2>4. empty_pages_topo \in Seq(Pages) /\ cur_page \in 0 .. MaxPages
    <3>1. 0 \in Pages
      BY <1>0 DEF Pages
    <3> QED BY <3>1, InitTail DEF Init
  <2>5. cur_id \in 0 .. MaxIds /\ tags \subseteq Ids /\ medoid \in Ids
    BY <1>0 DEF Init, Ids
  <2>6. deletion_sets \in [Sides -> SUBSET Ids] /\ active_delete_set \in Sides
    BY DEF Init, Sides
  <2>7. ins = [p \in Inserters |-> ins[p]] /\ \A p \in Inserters : IsCall(ins[p])
    <3>1. IsCall(Idle)
      BY DEF IsCall, Idle, ArePages, IsIdLists
    <3> QED BY <1>3, <3>1 DEF Init
  <2>8. merge \in {"idle", "populate", "prune", "erase"} /\ IsIdLists(deleted_nhoods)
    BY DEF Init, IsIdLists
  <2> QED BY <2>1, <2>2, <2>3, <2>4, <2>5, <2>6, <2>7, <2>8 DEF TypeOK
<1>6. TablesAgree
  <2> SUFFICES ASSUME NEW pid \in Pages, NEW s \in Slots, page_layout_topo[pid][s] # Invalid
               PROVE  id2loc_topo_[page_layout_topo[pid][s]] = Loc(pid, s)
    BY DEF TablesAgree
  <2>1. page_layout_topo[pid][s] = Loc(pid, s) /\ Loc(pid, s) < NumPoints /\ Loc(pid, s) \in Nat
    BY <1>1
  <2>2. Loc(pid, s) \in Ids
    BY <1>0, <2>1 DEF Ids
  <2> QED BY <2>1, <2>2 DEF Init
<1>7. TagsPlaced
  BY <1>2 DEF TagsPlaced, Init
<1>8. PagesKept
  <2>1. \A pid \in Pages : pid >= cur_page => Unused(pid)
    <3> SUFFICES ASSUME NEW pid \in Pages, pid >= cur_page PROVE Unused(pid)
      OBVIOUS
    <3>1. \A s \in Slots : ~(Loc(pid, s) < NumPoints)
      BY <1>0, <1>1, InitTail DEF Init
    <3>2. page_layout_topo[pid] = [s \in Slots |-> page_layout_topo[pid][s]]
      BY DEF Init
    <3> QED BY <1>1, <3>1, <3>2 DEF Unused, EmptyLayout
  <2>2. \A pid \in Pages : pid < cur_page => ~Unused(pid)
    <3> SUFFICES ASSUME NEW pid \in Pages, pid < cur_page PROVE ~Unused(pid)
      OBVIOUS
    <3>1. Loc(pid, 0) < NumPoints /\ 0 \in Slots
      BY InitTail, SetFacts DEF Init
    <3>2. page_layout_topo[pid][0] = Loc(pid, 0) /\ Loc(pid, 0) # Invalid
      BY <1>1, <3>1, LocFacts
    <3> QED BY <3>1, <3>2 DEF Unused, EmptyLayout
  <2>3. DOMAIN empty_pages_topo = {}
    BY DEF Init
  <2> QED BY <1>3, <2>1, <2>2, <2>3 DEF PagesKept, Queued, InReserve
<1>9. CallsOK
  <2>1. \A i \in Placed : i < cur_id
    <3>1. \A i \in Placed : \E pid \in Pages, s \in Slots : i = page_layout_topo[pid][s] /\ i # Invalid
      BY PlacedIs
    <3> QED BY <1>1, <3>1 DEF Init
  <2> QED BY <1>3, <2>1 DEF CallsOK
<1>10. ListsKept
  BY <1>1, <1>2, <1>3, <1>4 DEF ListsKept
<1>11. DeletionOK
  BY DEF Init, DeletionOK
<1>12. DeletedPlaced
  BY DEF Init, DeletedPlaced, Merged, Sides
<1> QED BY <1>5, <1>6, <1>7, <1>8, <1>9, <1>10, <1>11, <1>12 DEF IInv
-----------------------------------------------------------------------------
(* The fields of a call, and the calls that differ in some of them.        *)

Fields(x) ==
  x = [at |-> x.at, target |-> x.target, new_nhood |-> x.new_nhood,
       new_topo_pid |-> x.new_topo_pid, pages |-> x.pages, buf |-> x.buf, upd |-> x.upd]

(* What Search() sets.                                                     *)
Searched(x, a, t, n) == [x EXCEPT !.at = a, !.target = t, !.new_nhood = n]
SearchedFields(x, a, t, n) ==
  [at |-> a, target |-> t, new_nhood |-> n,
   new_topo_pid |-> x.new_topo_pid, pages |-> x.pages, buf |-> x.buf, upd |-> x.upd]

(* Field by field.                                                         *)
LEMMA SetSearched ==
  ASSUME NEW x, Fields(x), NEW a, NEW t, NEW n
  PROVE  Searched(x, a, t, n) = SearchedFields(x, a, t, n)
<1> DEFINE y == [x EXCEPT !.at = a]
           z == [y EXCEPT !.target = t]
<1>1. Searched(x, a, t, n) = [z EXCEPT !.new_nhood = n]
  BY DEF Searched
<1>2. y = [at |-> a, target |-> x.target, new_nhood |-> x.new_nhood,
           new_topo_pid |-> x.new_topo_pid, pages |-> x.pages, buf |-> x.buf, upd |-> x.upd]
  BY DEF Fields
<1> HIDE DEF y
<1>3. z = [at |-> a, target |-> t, new_nhood |-> x.new_nhood,
           new_topo_pid |-> x.new_topo_pid, pages |-> x.pages, buf |-> x.buf, upd |-> x.upd]
  BY ONLY <1>2
<1> HIDE DEF z
<1>4. [z EXCEPT !.new_nhood = n] = SearchedFields(x, a, t, n)
  BY ONLY <1>3 DEF SearchedFields
<1> QED BY <1>1, <1>4

(* What AllocPage() sets.                                                  *)
Locked(x, a, w, g) == [x EXCEPT !.at = a, !.new_topo_pid = w, !.pages = g]
LockedFields(x, a, w, g) ==
  [at |-> a, target |-> x.target, new_nhood |-> x.new_nhood,
   new_topo_pid |-> w, pages |-> g, buf |-> x.buf, upd |-> x.upd]

(* Field by field.                                                         *)
LEMMA SetLocked ==
  ASSUME NEW x, Fields(x), NEW a, NEW w, NEW g
  PROVE  Locked(x, a, w, g) = LockedFields(x, a, w, g)
<1> DEFINE y == [x EXCEPT !.at = a]
           z == [y EXCEPT !.new_topo_pid = w]
<1>1. Locked(x, a, w, g) = [z EXCEPT !.pages = g]
  BY DEF Locked
<1>2. y = [at |-> a, target |-> x.target, new_nhood |-> x.new_nhood,
           new_topo_pid |-> x.new_topo_pid, pages |-> x.pages, buf |-> x.buf, upd |-> x.upd]
  BY DEF Fields
<1> HIDE DEF y
<1>3. z = [at |-> a, target |-> x.target, new_nhood |-> x.new_nhood,
           new_topo_pid |-> w, pages |-> x.pages, buf |-> x.buf, upd |-> x.upd]
  BY ONLY <1>2
<1> HIDE DEF z
<1>4. [z EXCEPT !.pages = g] = LockedFields(x, a, w, g)
  BY ONLY <1>3 DEF LockedFields
<1> QED BY <1>1, <1>4

(* What UpdateNeighbours() sets.                                           *)
Updated(x, a, u, b) == [x EXCEPT !.at = a, !.upd = u, !.buf = b]
UpdatedFields(x, a, u, b) ==
  [at |-> a, target |-> x.target, new_nhood |-> x.new_nhood,
   new_topo_pid |-> x.new_topo_pid, pages |-> x.pages, buf |-> b, upd |-> u]

(* Field by field.                                                         *)
LEMMA SetUpdated ==
  ASSUME NEW x, Fields(x), NEW a, NEW u, NEW b
  PROVE  Updated(x, a, u, b) = UpdatedFields(x, a, u, b)
<1> DEFINE y == [x EXCEPT !.at = a]
           z == [y EXCEPT !.upd = u]
<1>1. Updated(x, a, u, b) = [z EXCEPT !.buf = b]
  BY DEF Updated
<1>2. y = [at |-> a, target |-> x.target, new_nhood |-> x.new_nhood,
           new_topo_pid |-> x.new_topo_pid, pages |-> x.pages, buf |-> x.buf, upd |-> x.upd]
  BY DEF Fields
<1> HIDE DEF y
<1>3. z = [at |-> a, target |-> x.target, new_nhood |-> x.new_nhood,
           new_topo_pid |-> x.new_topo_pid, pages |-> x.pages, buf |-> x.buf, upd |-> u]
  BY ONLY <1>2
<1> HIDE DEF z
<1>4. [z EXCEPT !.buf = b] = UpdatedFields(x, a, u, b)
  BY ONLY <1>3 DEF UpdatedFields
<1> QED BY <1>1, <1>4

(* What Place() and Split() set.                                           *)
ToWrite(x, a, b) == [x EXCEPT !.at = a, !.buf = b]
WrittenFields(x, a, b) ==
  [at |-> a, target |-> x.target, new_nhood |-> x.new_nhood,
   new_topo_pid |-> x.new_topo_pid, pages |-> x.pages, buf |-> b, upd |-> x.upd]

(* Field by field.                                                         *)
LEMMA SetWritten ==
  ASSUME NEW x, Fields(x), NEW a, NEW b
  PROVE  ToWrite(x, a, b) = WrittenFields(x, a, b)
<1> DEFINE y == [x EXCEPT !.at = a]
<1>1. ToWrite(x, a, b) = [y EXCEPT !.buf = b]
  BY DEF ToWrite
<1>2. y = [at |-> a, target |-> x.target, new_nhood |-> x.new_nhood,
           new_topo_pid |-> x.new_topo_pid, pages |-> x.pages, buf |-> x.buf, upd |-> x.upd]
  BY DEF Fields
<1> HIDE DEF y
<1>3. [y EXCEPT !.buf = b] = WrittenFields(x, a, b)
  BY ONLY <1>2 DEF WrittenFields
<1> QED BY <1>1, <1>3


-----------------------------------------------------------------------------
(* Steps that leave the tables alone.                                      *)

(* What the constants make does not change.                                *)
LEMMA SameSets ==
  /\ Ids' = Ids /\ Pages' = Pages /\ Slots' = Slots /\ Locs' = Locs /\ Sides' = Sides
  /\ EmptyLayout' = EmptyLayout
BY DEF Ids, Pages, Slots, Locs, Loc, Sides, EmptyLayout, Invalid

(* The ids placed after a step.                                            *)
LEMMA PlacedNext ==
  Placed' = {i \in UNION {{page_layout_topo'[pid][s] : s \in Slots} : pid \in Pages} : i # Invalid}
BY SameSets DEF Placed, IdsOn, Invalid

(* What is said of the tables alone.                                       *)
LEMMA SameTables ==
  ASSUME UNCHANGED tableVars
  PROVE  /\ Placed' = Placed /\ Known' = Known /\ (TablesAgree => TablesAgree')
         /\ \A pid : Unused(pid)' = Unused(pid)
         /\ \A page, pid, S : ListsIn(page, pid, S)' = ListsIn(page, pid, S)
BY SameSets DEF tableVars, Placed, Known, IdsOn, TablesAgree, Unused, ListsIn, Loc

(* Any call of the others is the one call that there is.                   *)
CallsTyped == ins = [p \in Inserters |-> ins[p]] /\ \A p \in Inserters : IsCall(ins[p])

(* The call that a step changes is the only one.                           *)
LEMMA OnlyCall ==
  ASSUME OneInsertion, TypeOK, NEW p \in Inserters, NEW c, IsCall(c),
         ins' = [ins EXCEPT ![p] = c]
  PROVE  /\ \A q \in Inserters : q = p /\ ins'[q] = c
         /\ CallsTyped'
<1>1. \A q \in Inserters : q = p /\ ins'[q] = c
  BY DEF OneInsertion, TypeOK
<1>2. ins' = [q \in Inserters |-> ins'[q]]
  BY DEF TypeOK
<1>3. IsCall(c)'
  <2>1. c' = c
    OBVIOUS
  <2> QED BY <2>1, SameSets DEF IsCall, ArePages, IsIdLists, Invalid
<1> QED BY <1>1, <1>2, <1>3 DEF CallsTyped

(* With no insertion in work, a search finds placed nodes.                 *)
LEMMA ReachedPlaced ==
  ASSUME IInv, medoid \in Placed, \A p \in Inserters : ~Inserting(p)
  PROVE  Reached \subseteq Placed
<1>1. Placement
  BY PlaceFacts DEF IInv
<1>2. Placed \in SUBSET Known
  <2>1. \A i \in Placed : i \in Ids /\ id2loc_topo_[i] # Invalid
    BY <1>1, LocFacts DEF Placement
  <2> QED BY <2>1 DEF Known
<1>3. \A j \in Placed : Record(j) \subseteq Placed
  BY <1>1 DEF IInv, ListsKept, Placement, Record
<1> QED BY <1>2, <1>3 DEF Reached

(* The deleted points, for steps of one call.                              *)
LEMMA DeletedKept ==
  ASSUME IInv, merge = "idle", UNCHANGED <<deleteVars, mergeVars>>, Placed \subseteq Placed'
  PROVE  DeletedPlaced'
<1>1. Merged' = Merged
  BY DEF Merged, deleteVars
<1>2. /\ Merged \cap deletion_sets[active_delete_set] = {}
      /\ deletion_sets[active_delete_set] \subseteq Placed'
  BY DEF IInv, DeletedPlaced
<1> QED BY <1>1, <1>2 DEF DeletedPlaced, deleteVars, mergeVars

(* The type, for steps of one call.                                        *)
LEMMA TypeNext ==
  ASSUME TypeOK, CallsTyped', UNCHANGED <<deleteVars, mergeVars>>,
         page_layout_topo' \in [Pages -> [Slots -> Ids \cup {Invalid}]],
         id2loc_topo_' \in [Ids -> Locs \cup {Invalid}],
         topo' \in [Pages -> [Slots -> SUBSET Ids]],
         empty_pages_topo' \in Seq(Pages), cur_page' \in 0..MaxPages,
         cur_id' \in 0..MaxIds, tags' \subseteq Ids, medoid' \in Ids
  PROVE  TypeOK'
<1>1. merge' \in {"idle", "populate", "prune", "erase"} /\ IsIdLists(deleted_nhoods)'
  BY SameSets DEF TypeOK, IsIdLists, mergeVars
<1>2. deletion_sets' \in [Sides -> SUBSET Ids] /\ active_delete_set' \in Sides
  BY DEF TypeOK, deleteVars
<1> QED BY <1>1, <1>2, SameSets DEF TypeOK, CallsTyped, Invalid

(* Search() hands out an id and no place.                                  *)
LEMMA SearchStep ==
  ASSUME OneInsertion, IInv, NEW p \in Inserters, Search(p)
  PROVE  IInv'
<1>1. PICK N \in SUBSET (Reached \ deletion_sets[active_delete_set]) :
        ins' = [ins EXCEPT ![p].at = "alloc", ![p].target = cur_id, ![p].new_nhood = N]
  BY DEF Search
<1> DEFINE c == [at |-> "alloc", target |-> cur_id, new_nhood |-> N,
                 new_topo_pid |-> ins[p].new_topo_pid, pages |-> ins[p].pages,
                 buf |-> ins[p].buf, upd |-> ins[p].upd]
<1>2. /\ ins[p].at = "idle" /\ merge = "idle" /\ cur_id < MaxIds /\ medoid \in Placed
      /\ cur_id' = cur_id + 1
      /\ UNCHANGED <<tableVars, pageVars, deleteVars, mergeVars, topo, tags, medoid>>
  BY DEF Search
<1>3. \A q \in Inserters : q = p /\ ~Inserting(q)
  BY <1>2 DEF OneInsertion, Inserting
<1>4. Placement /\ N \subseteq Placed /\ N \subseteq Ids
  BY <1>2, <1>3, ReachedPlaced, PlaceFacts DEF IInv, Placement
<1>5. cur_id \in Ids /\ cur_id \in Nat /\ cur_id \notin Placed /\ cur_id + 1 \in 0 .. MaxIds
  BY <1>2, TopoInsertAssumption DEF IInv, TypeOK, CallsOK, Ids
<1>6. IsCall(ins[p])
  BY DEF IInv, TypeOK
<1>7. IsCall(c)
  BY <1>4, <1>5, <1>6 DEF IsCall
<1>8. ins' = [ins EXCEPT ![p] = c]
  <2>1. [ins[p] EXCEPT !.at = "alloc", !.target = cur_id, !.new_nhood = N] = c
    <3>1. Fields(ins[p])
      BY <1>6 DEF IsCall, Fields
    <3>2. Searched(ins[p], "alloc", cur_id, N) = SearchedFields(ins[p], "alloc", cur_id, N)
      BY ONLY <3>1, SetSearched
    <3> QED BY <3>2 DEF Searched, SearchedFields
  <2>2. ins' = [ins EXCEPT ![p] = [ins[p] EXCEPT !.at = "alloc", !.target = cur_id, !.new_nhood = N]]
    BY ONLY <1>1
  <2> QED BY ONLY <2>1, <2>2
<1>9. \A q \in Inserters : ins'[q].at = "alloc" /\ ins'[q].target = cur_id /\ ins'[q].new_nhood = N
  <2>1. \A q \in Inserters : ins'[q] = c
    <3> HIDE DEF c
    <3> QED BY <1>7, <1>8, OnlyCall DEF IInv
  <2>2. c.at = "alloc" /\ c.target = cur_id /\ c.new_nhood = N
    OBVIOUS
  <2> QED BY ONLY <2>1, <2>2
<1>10. CallsTyped'
  BY <1>7, <1>8, OnlyCall DEF IInv
<1> HIDE DEF c
<1>11. \A q \in Inserters : ~Reserving(q) /\ ~Reserving(q)' /\ Inserting(q)'
  BY <1>2, <1>3, <1>9 DEF Reserving, Inserting
<1>12. TypeOK'
  BY <1>2, <1>5, <1>10, TypeNext DEF IInv, TypeOK, tableVars, pageVars
<1>13. TablesAgree' /\ TagsPlaced' /\ PagesKept'
  BY <1>2, <1>11, SameTables, SameSets
     DEF IInv, TagsPlaced, PagesKept, Queued, InReserve, tableVars, pageVars
<1>14. CallsOK'
  <2>1. \A i \in Placed : i \in Nat /\ i < cur_id' /\ i < cur_id
    <3>1. \A i \in Placed : i \in Nat /\ i < cur_id
      BY <1>4, SetFacts DEF IInv, CallsOK, Placement
    <3>2. cur_id' = cur_id + 1 /\ cur_id \in Nat
      BY <1>2, <1>5
    <3> QED BY ONLY <3>1, <3>2
  <2>2. merge' = "idle" /\ cur_id < cur_id'
    BY <1>2, <1>5 DEF mergeVars
  <2> QED BY <1>2, <1>4, <1>5, <1>9, <2>1, <2>2, SameTables, SameSets DEF CallsOK
<1>15. ListsKept' /\ DeletionOK'
  BY <1>2, <1>3, <1>9, SameTables, SameSets
     DEF IInv, ListsKept, DeletionOK, Merged, tableVars, mergeVars, deleteVars
<1>16. DeletedPlaced'
  BY <1>2, SameTables, DeletedKept
<1> QED BY <1>12, <1>13, <1>14, <1>15, <1>16 DEF IInv

(* A page leaves the queue, or the tail moves, for the call's reserve.     *)
LEMMA AllocPageStep ==
  ASSUME OneInsertion, IInv, NEW p \in Inserters, AllocPage(p)
  PROVE  IInv'
<1> DEFINE known == {PageOfId(i) : i \in ins[p].new_nhood}
<1>1. PICK pid \in Pages :
        /\ ins' = [ins EXCEPT ![p].at = "lock", ![p].new_topo_pid = pid,
                     ![p].pages = {pid} \cup known]
        /\ pid < cur_page' /\ Unused(pid) /\ cur_page' \in 0 .. MaxPages
        /\ empty_pages_topo' \in Seq(Pages)
        /\ \A j, k \in DOMAIN empty_pages_topo' : empty_pages_topo'[j] = empty_pages_topo'[k] => j = k
        /\ \A q \in Pages : (\E k \in DOMAIN empty_pages_topo' : empty_pages_topo'[k] = q) <=>
                              Queued(q) /\ q # pid
        /\ \A q \in Pages : q < cur_page' <=> q < cur_page \/ q = pid
  <2>0. /\ empty_pages_topo \in Seq(Pages) /\ cur_page \in 0 .. MaxPages /\ MaxPages \in Nat
        /\ \A j, k \in DOMAIN empty_pages_topo : empty_pages_topo[j] = empty_pages_topo[k] => j = k
        /\ \A q \in Pages : Queued(q) => q < cur_page /\ Unused(q)
        /\ \A q \in Pages : q >= cur_page => Unused(q)
        /\ \A q \in Pages : q \in Nat
    BY SetFacts, TopoInsertAssumption DEF IInv, TypeOK, PagesKept
  <2>1. CASE empty_pages_topo # <<>>
    <3> DEFINE e == empty_pages_topo
               h == Head(e)
    <3>1. /\ empty_pages_topo' = Tail(e) /\ cur_page' = cur_page
          /\ ins' = [ins EXCEPT ![p].at = "lock", ![p].new_topo_pid = h, ![p].pages = {h} \cup known]
      BY <2>1 DEF AllocPage
    <3>2. /\ e \in Seq(Pages) /\ e # <<>> /\ h = e[1] /\ h \in Pages /\ Len(e) \in Nat \ {0}
          /\ DOMAIN e = 1 .. Len(e)
      BY <2>0, <2>1
    <3>3. /\ Tail(e) \in Seq(Pages) /\ DOMAIN Tail(e) = 1 .. Len(e) - 1
          /\ \A k \in 1 .. Len(e) - 1 : Tail(e)[k] = e[k + 1]
      BY ONLY <3>2
    <3>4. \A j, k \in 1 .. Len(e) : e[j] = e[k] => j = k
      BY <2>0, <3>2
    <3>5. \A q \in Pages : Queued(q) <=> \E k \in 1 .. Len(e) : e[k] = q
      BY <3>2 DEF Queued
    <3> HIDE DEF e, h
    <3>6. \A j, k \in 1 .. Len(e) - 1 : Tail(e)[j] = Tail(e)[k] => j = k
      BY ONLY <3>2, <3>3, <3>4
    <3>7. \A q \in Pages : (\E k \in 1 .. Len(e) - 1 : Tail(e)[k] = q) <=>
                              (\E k \in 1 .. Len(e) : e[k] = q) /\ q # h
      <4> SUFFICES ASSUME NEW q \in Pages
                   PROVE  (\E k \in 1 .. Len(e) - 1 : Tail(e)[k] = q) <=>
                              (\E k \in 1 .. Len(e) : e[k] = q) /\ q # h
        OBVIOUS
      <4>1. ASSUME NEW k \in 1 .. Len(e) - 1, Tail(e)[k] = q
            PROVE  (\E j \in 1 .. Len(e) : e[j] = q) /\ q # h
        <5>1. k + 1 \in 1 .. Len(e) /\ 1 \in 1 .. Len(e) /\ k + 1 # 1 /\ e[k + 1] = q
          BY <3>2, <3>3, <4>1
        <5> QED BY <3>2, <3>4, <5>1
      <4>2. ASSUME NEW k \in 1 .. Len(e), e[k] = q, q # h
            PROVE  \E j \in 1 .. Len(e) - 1 : Tail(e)[j] = q
        <5>1. k # 1
          BY <3>2, <4>2
        <5>2. k - 1 \in 1 .. Len(e) - 1 /\ (k - 1) + 1 = k
          BY <3>2, <5>1
        <5>3. Tail(e)[k - 1] = q
          BY <3>3, <4>2, <5>2
        <5> QED BY <5>2, <5>3
      <4> QED BY <4>1, <4>2
    <3>8. h < cur_page /\ Unused(h)
      <4>1. Queued(h)
        BY <3>2, <3>5
      <4> QED BY <2>0, <3>2, <4>1
    <3>9. \A q \in Pages : q < cur_page' <=> q < cur_page \/ q = h
      BY <3>1, <3>8
    <3>10. \A q \in Pages : (\E k \in DOMAIN empty_pages_topo' : empty_pages_topo'[k] = q) <=> Queued(q) /\ q # h
      BY <3>1, <3>3, <3>5, <3>7
    <3>11. \A j, k \in DOMAIN empty_pages_topo' : empty_pages_topo'[j] = empty_pages_topo'[k] => j = k
      BY <3>1, <3>3, <3>6
    <3> QED BY <2>0, <3>1, <3>2, <3>3, <3>8, <3>9, <3>10, <3>11
  <2>2. CASE empty_pages_topo = <<>>
    <3>1. /\ cur_page \in Pages /\ cur_page' = cur_page + 1 /\ UNCHANGED empty_pages_topo
          /\ ins' = [ins EXCEPT ![p].at = "lock", ![p].new_topo_pid = cur_page,
                       ![p].pages = {cur_page} \cup known]
      BY <2>2 DEF AllocPage
    <3>2. cur_page' \in 0 .. MaxPages /\ \A q \in Pages : q < cur_page' <=> q < cur_page \/ q = cur_page
      BY <2>0, <3>1 DEF Pages
    <3>3. cur_page < cur_page' /\ Unused(cur_page)
      BY <2>0, <3>1
    <3>4. ~Queued(cur_page)
      BY <2>0, <3>1
    <3> QED BY <2>0, <3>1, <3>2, <3>3, <3>4 DEF Queued
  <2> QED BY <2>1, <2>2
<1> DEFINE c == [at |-> "lock", target |-> ins[p].target, new_nhood |-> ins[p].new_nhood,
                 new_topo_pid |-> pid, pages |-> {pid} \cup known,
                 buf |-> ins[p].buf, upd |-> ins[p].upd]
<1>2. /\ ins[p].at = "alloc" /\ tags' = tags \cup {ins[p].target}
      /\ UNCHANGED <<tableVars, deleteVars, mergeVars, topo, cur_id, medoid>>
  BY DEF AllocPage
<1>3. \A q \in Inserters : q = p /\ Inserting(q) /\ ~Reserving(q)
  BY <1>2 DEF OneInsertion, Inserting, Reserving
<1>4. /\ Placement /\ merge = "idle" /\ ins[p].target \in Ids /\ ins[p].target < cur_id
      /\ ins[p].target \notin Placed /\ ins[p].new_nhood \subseteq Placed
  BY <1>2, <1>3, PlaceFacts DEF IInv, CallsOK
<1>5. known \subseteq Pages
  BY <1>4 DEF Placement
<1>6. IsCall(ins[p])
  BY DEF IInv, TypeOK
<1>7. IsCall(c)
  BY <1>5, <1>6 DEF IsCall
<1> HIDE DEF known
<1>8. ins' = [ins EXCEPT ![p] = c]
  <2>1. [ins[p] EXCEPT !.at = "lock", !.new_topo_pid = pid, !.pages = {pid} \cup known] = c
    <3>1. Fields(ins[p])
      BY <1>6 DEF IsCall, Fields
    <3>2. Locked(ins[p], "lock", pid, {pid} \cup known)
            = LockedFields(ins[p], "lock", pid, {pid} \cup known)
      BY ONLY <3>1, SetLocked
    <3> QED BY <3>2 DEF Locked, LockedFields
  <2>2. ins' = [ins EXCEPT ![p] =
                  [ins[p] EXCEPT !.at = "lock", !.new_topo_pid = pid, !.pages = {pid} \cup known]]
    BY ONLY <1>1
  <2> QED BY ONLY <2>1, <2>2
<1>9. \A q \in Inserters : /\ ins'[q].at = "lock" /\ ins'[q].target = ins[q].target
                           /\ ins'[q].new_nhood = ins[q].new_nhood /\ ins'[q].new_topo_pid = pid
  <2>1. \A q \in Inserters : q = p /\ ins'[q] = c
    <3> HIDE DEF c
    <3> QED BY <1>7, <1>8, OnlyCall DEF IInv
  <2>2. /\ c.at = "lock" /\ c.target = ins[p].target /\ c.new_nhood = ins[p].new_nhood
        /\ c.new_topo_pid = pid
    OBVIOUS
  <2> QED BY ONLY <2>1, <2>2
<1>10. CallsTyped'
  <2> HIDE DEF c
  <2> QED BY <1>7, <1>8, OnlyCall DEF IInv
<1> HIDE DEF c
<1>11. \A q \in Inserters : Reserving(q)' /\ Inserting(q)'
  BY <1>9 DEF Reserving, Inserting
<1>12. TypeOK'
  BY <1>1, <1>2, <1>4, <1>10, TypeNext DEF IInv, TypeOK, tableVars
<1>13. TablesAgree' /\ TagsPlaced'
  <2>1. tags \subseteq Placed
    BY <1>3 DEF IInv, TagsPlaced
  <2>2. Placed' = Placed /\ tags' = tags \cup {ins[p].target}
    BY <1>2, SameTables
  <2>3. ins'[p].target = ins[p].target /\ Reserving(p)'
    BY <1>9, <1>11
  <2>4. TagsPlaced'
    BY <2>1, <2>2, <2>3 DEF TagsPlaced
  <2> QED BY <1>2, <2>4, SameTables DEF IInv
<1>14. PagesKept'
  <2>1. \A q \in Pages : Queued(q)' <=> Queued(q) /\ q # pid
    BY <1>1 DEF Queued
  <2>2. \A q \in Pages : InReserve(q)' <=> q = pid
    BY <1>9, <1>11 DEF InReserve
  <2>3. \A q \in Pages : ~InReserve(q) /\ q \in Nat
    BY <1>3, SetFacts DEF InReserve
  <2>4. \A q : Unused(q)' = Unused(q)
    BY <1>2, SameTables
  <2>5. cur_page \in Int /\ cur_page' \in Int
    BY <1>1 DEF IInv, TypeOK
  <2>6. \A q \in Pages : q >= cur_page' => q >= cur_page
    BY ONLY <1>1, <2>3, <2>5
  <2>7. \A q \in Pages : q >= cur_page' => Unused(q)'
    BY <2>4, <2>6 DEF IInv, PagesKept
  <2>8. \A q \in Pages : Queued(q)' => q < cur_page' /\ Unused(q)' /\ ~InReserve(q)'
    BY <1>1, <2>1, <2>2, <2>4 DEF IInv, PagesKept
  <2>9. \A q \in Pages : q < cur_page' /\ Unused(q)' => Queued(q)' \/ InReserve(q)'
    BY <1>1, <2>1, <2>2, <2>3, <2>4 DEF IInv, PagesKept
  <2>10. \A q \in Inserters : /\ ins'[q].new_topo_pid \in Pages /\ ins'[q].new_topo_pid < cur_page'
                              /\ Unused(ins[q].new_topo_pid)'
    BY <1>1, <1>9, <2>4
  <2> QED BY <1>1, <2>7, <2>8, <2>9, <2>10, SameSets DEF PagesKept
<1>15. CallsOK'
  BY <1>2, <1>3, <1>4, <1>9, SameTables, SameSets DEF IInv, CallsOK, mergeVars
<1>16. ListsKept' /\ DeletionOK'
  BY <1>2, <1>3, <1>4, <1>9, <1>11, SameTables, SameSets
     DEF IInv, ListsKept, DeletionOK, tableVars, mergeVars
<1>17. DeletedPlaced'
  BY <1>2, <1>4, SameTables, DeletedKept
<1> QED BY <1>12, <1>13, <1>14, <1>15, <1>16, <1>17 DEF IInv

(* A copy of a page holds the lists of the page, or lists of the update.   *)
AreCopies(buf, upd, N, known) ==
  /\ DOMAIN buf = known /\ buf = [pid \in known |-> buf[pid]]
  /\ \A pid \in known :
       /\ buf[pid] = [s \in Slots |-> buf[pid][s]]
       /\ \A s \in Slots : buf[pid][s] = topo[pid][s] \/ \E i \in N : buf[pid][s] = upd[i]

(* The copies that the update of the neighbours makes.                     *)
LEMMA PagesWithIs ==
  ASSUME NEW upd, NEW N, DOMAIN upd = N
  PROVE  AreCopies(PagesWith(upd), upd, N, {PageOfId(i) : i \in N})
<1> DEFINE buf == PagesWith(upd)
           known == {PageOfId(i) : i \in N}
           Here(pid, s) == {i \in N : id2loc_topo_[i] = Loc(pid, s)}
<1>1. buf = [pid \in known |-> [s \in Slots |->
               IF Here(pid, s) = {} THEN topo[pid][s] ELSE upd[CHOOSE i \in Here(pid, s) : TRUE]]]
  BY DEF PagesWith
<1>2. ASSUME NEW pid, NEW s, Here(pid, s) # {}
      PROVE  (CHOOSE i \in Here(pid, s) : TRUE) \in N
  <2>1. (CHOOSE i \in Here(pid, s) : TRUE) \in Here(pid, s)
    BY <1>2
  <2> QED BY <2>1
<1> HIDE DEF buf, known, Here
<1>3. /\ DOMAIN buf = known /\ buf = [pid \in known |-> buf[pid]]
      /\ \A pid \in known : buf[pid] = [s \in Slots |-> buf[pid][s]]
  BY ONLY <1>1
<1>4. ASSUME NEW pid \in known, NEW s \in Slots
      PROVE  buf[pid][s] = topo[pid][s] \/ \E i \in N : buf[pid][s] = upd[i]
  <2>1. buf[pid][s] =
          IF Here(pid, s) = {} THEN topo[pid][s] ELSE upd[CHOOSE i \in Here(pid, s) : TRUE]
    BY ONLY <1>1, pid \in known, s \in Slots
  <2> QED BY <1>2, <2>1
<1>5. AreCopies(buf, upd, N, known)
  BY ONLY <1>3, <1>4 DEF AreCopies
<1> QED BY <1>5 DEF buf, known

(* The lists that are extended are in the buffers of their pages.          *)
LEMMA UpdateNeighboursStep ==
  ASSUME OneInsertion, IInv, NEW p \in Inserters, UpdateNeighbours(p)
  PROVE  IInv'
<1> DEFINE N == ins[p].new_nhood
           t == ins[p].target
           known == {PageOfId(i) : i \in N}
<1>1. PICK out : LET upd == UpdatedLists(p, out) IN
                 ins' = [ins EXCEPT ![p].at = "place", ![p].upd = upd, ![p].buf = PagesWith(upd)]
  BY DEF UpdateNeighbours
<1> DEFINE upd == UpdatedLists(p, out)
           buf == PagesWith(upd)
<1>2. /\ ins[p].at = "lock"
      /\ UNCHANGED <<tableVars, pageVars, deleteVars, mergeVars, topo, cur_id, tags, medoid>>
  BY DEF UpdateNeighbours
<1>3. \A q \in Inserters : q = p /\ Inserting(q) /\ Reserving(q)
  BY <1>2 DEF OneInsertion, Inserting, Reserving
<1>4. /\ Placement /\ merge = "idle" /\ t \in Ids /\ t < cur_id
      /\ t \notin Placed /\ N \subseteq Placed
  BY <1>2, <1>3, PlaceFacts DEF IInv, CallsOK
<1>5. known \subseteq Pages
  BY <1>4 DEF Placement
<1>6. \A pid \in Pages : topo[pid] \in [Slots -> SUBSET Ids]
  BY DEF IInv, TypeOK
<1>7. \A i \in N : /\ PageOfId(i) \in known /\ PageOfId(i) \in Pages /\ SlotOfId(i) \in Slots
                   /\ page_layout_topo[PageOfId(i)][SlotOfId(i)] = i /\ i # Invalid /\ i # t
  BY <1>4 DEF Placement
<1>8. \A pid \in Pages, s \in Slots : page_layout_topo[pid][s] # Invalid => topo[pid][s] \subseteq Placed
  BY <1>3, <1>4 DEF IInv, ListsKept, Placement
<1>9. \A i \in N : upd[i] \subseteq Placed \cup {t} /\ upd[i] \subseteq Ids
  <2> SUFFICES ASSUME NEW i \in N PROVE upd[i] \subseteq Placed \cup {t}
    BY <1>4 DEF Placement
  <2>1. upd[i] = (topo[PageOfId(i)][SlotOfId(i)] \cup {t}) \ {out[i]}
    BY DEF UpdatedLists, Extended, Record
  <2>2. topo[PageOfId(i)][SlotOfId(i)] \subseteq Placed
    BY <1>7, <1>8
  <2> HIDE DEF upd
  <2> QED BY <2>1, <2>2
<1>10. /\ DOMAIN upd = N /\ upd = [i \in N |-> upd[i]]
  BY DEF UpdatedLists
<1>11. /\ DOMAIN buf = known /\ buf = [pid \in known |-> buf[pid]]
       /\ \A pid \in known :
            /\ buf[pid] = [s \in Slots |-> buf[pid][s]]
            /\ \A s \in Slots : buf[pid][s] = topo[pid][s] \/ \E i \in N : buf[pid][s] = upd[i]
  <2> HIDE DEF upd
  <2>1. DOMAIN upd = N
    BY <1>10
  <2>2. AreCopies(buf, upd, N, known)
    BY ONLY <2>1, PagesWithIs
  <2> HIDE DEF buf
  <2> QED BY ONLY <2>2 DEF AreCopies
<1> HIDE DEF upd, buf
<1>12. \A pid \in known, s \in Slots :
         /\ buf[pid][s] \in SUBSET Ids
         /\ buf[pid][s] = topo[pid][s] \/ buf[pid][s] \subseteq Placed \cup {t}
  <2> SUFFICES ASSUME NEW pid \in known, NEW s \in Slots
               PROVE  /\ buf[pid][s] \in SUBSET Ids
                      /\ buf[pid][s] = topo[pid][s] \/ buf[pid][s] \subseteq Placed \cup {t}
    OBVIOUS
  <2>1. topo[pid][s] \in SUBSET Ids
    BY <1>5, <1>6
  <2>2. buf[pid][s] = topo[pid][s] \/ \E i \in N : buf[pid][s] = upd[i]
    BY <1>11
  <2>3. CASE buf[pid][s] = topo[pid][s]
    BY <2>1, <2>3
  <2>4. CASE \E i \in N : buf[pid][s] = upd[i]
    BY <1>9, <2>4
  <2> QED BY <2>2, <2>3, <2>4
<1>13. ins' = [ins EXCEPT ![p].at = "place", ![p].upd = upd, ![p].buf = buf]
  BY <1>1 DEF upd, buf
<1> DEFINE c == [at |-> "place", target |-> t, new_nhood |-> N,
                 new_topo_pid |-> ins[p].new_topo_pid, pages |-> ins[p].pages,
                 buf |-> buf, upd |-> upd]
<1>14. IsCall(ins[p])
  BY DEF IInv, TypeOK
<1>15. IsCall(c)
  <2>1. ArePages(buf)
    <3>1. \A pid \in known : buf[pid] \in [Slots -> SUBSET Ids]
      BY <1>11, <1>12
    <3> QED BY <1>5, <1>11, <3>1 DEF ArePages
  <2>2. IsIdLists(upd)
    BY <1>4, <1>9, <1>10 DEF IsIdLists, Placement
  <2> QED BY <1>14, <2>1, <2>2 DEF IsCall
<1>16. ins' = [ins EXCEPT ![p] = c]
  <2>1. [ins[p] EXCEPT !.at = "place", !.upd = upd, !.buf = buf] = c
    <3>1. Fields(ins[p])
      BY <1>14 DEF IsCall, Fields
    <3>2. Updated(ins[p], "place", upd, buf) = UpdatedFields(ins[p], "place", upd, buf)
      BY ONLY <3>1, SetUpdated
    <3> QED BY <3>2 DEF Updated, UpdatedFields
  <2>2. ins' = [ins EXCEPT ![p] = [ins[p] EXCEPT !.at = "place", !.upd = upd, !.buf = buf]]
    BY ONLY <1>13
  <2> QED BY ONLY <2>1, <2>2
<1>17. \A q \in Inserters : /\ ins'[q].at = "place" /\ ins'[q].target = t
                            /\ ins'[q].new_nhood = N /\ ins'[q].buf = buf
                            /\ ins'[q].new_topo_pid = ins[q].new_topo_pid
  <2>1. \A q \in Inserters : q = p /\ ins'[q] = c
    <3> HIDE DEF c
    <3> QED BY <1>15, <1>16, OnlyCall DEF IInv
  <2>2. /\ c.at = "place" /\ c.target = t /\ c.new_nhood = N /\ c.buf = buf
        /\ c.new_topo_pid = ins[p].new_topo_pid
    OBVIOUS
  <2> QED BY ONLY <2>1, <2>2
<1>18. CallsTyped'
  <2> HIDE DEF c
  <2> QED BY <1>15, <1>16, OnlyCall DEF IInv
<1> HIDE DEF c
<1>19. \A q \in Inserters : Reserving(q)' /\ Inserting(q)' /\ ins'[q].target = ins[q].target
  BY <1>3, <1>17 DEF Reserving, Inserting
<1>20. TypeOK'
  BY <1>2, <1>18, TypeNext DEF IInv, TypeOK, tableVars, pageVars
<1>21. TablesAgree' /\ TagsPlaced'
  <2>1. Placed' = Placed /\ tags' = tags
    BY <1>2, SameTables
  <2>2. TagsPlaced'
    BY <1>3, <1>19, <2>1 DEF IInv, TagsPlaced
  <2> QED BY <1>2, <2>2, SameTables DEF IInv
<1>22. PagesKept'
  BY <1>2, <1>3, <1>17, <1>19, SameTables, SameSets
     DEF IInv, PagesKept, Queued, InReserve, pageVars
<1>23. CallsOK'
  <2>1. \A i : PageOfId(i)' = PageOfId(i)
    BY <1>2 DEF PageOfId, PageOf, tableVars
  <2>2. {PageOfId(i) : i \in N}' = known
    BY <1>17, <2>1
  <2>3. \A q \in Inserters : DOMAIN ins'[q].buf = {PageOfId(i)' : i \in ins'[q].new_nhood}
    BY <1>11, <1>17, <2>1
  <2>4. merge' = "idle" /\ cur_id' = cur_id /\ Placed' = Placed
    BY <1>2, <1>4, SameTables DEF mergeVars
  <2> QED BY <1>4, <1>17, <2>3, <2>4, SameSets DEF IInv, CallsOK
<1>24. ListsKept'
  <2>1. Placed' = Placed /\ topo' = topo /\ page_layout_topo' = page_layout_topo
    BY <1>2, SameTables DEF tableVars
  <2>2. \A pid \in known, s \in Slots :
          page_layout_topo'[pid][s] # Invalid => buf[pid][s] \subseteq Placed' \cup {t}
    BY <1>5, <1>8, <1>12, <2>1
  <2>3. \A q \in Inserters : \A pid \in DOMAIN ins'[q].buf, s \in Slots :
          page_layout_topo'[pid][s] # Invalid =>
            ins'[q].buf[pid][s] \subseteq Placed' \cup {ins'[q].target}
    BY <1>11, <1>17, <2>2
  <2>4. \A q \in Inserters : ins'[q].at # "write"
    BY <1>17
  <2>5. \A pid \in Pages, s \in Slots : page_layout_topo'[pid][s] # Invalid => topo'[pid][s] \subseteq Placed'
    BY <1>8, <2>1
  <2> HIDE DEF known, N, t
  <2> QED BY <2>3, <2>4, <2>5, SameSets DEF ListsKept, ListsIn, Invalid
<1>25. DeletionOK'
  BY <1>2, <1>4 DEF DeletionOK, mergeVars
<1>26. DeletedPlaced'
  BY <1>2, <1>4, SameTables, DeletedKept
<1> QED BY <1>20, <1>21, <1>22, <1>23, <1>24, <1>25, <1>26 DEF IInv

(* The target fills a hole, and the page in reserve is queued.             *)
LEMMA PlaceStep ==
  ASSUME OneInsertion, IInv, NEW p \in Inserters, Place(p)
  PROVE  IInv'
<1> DEFINE N == ins[p].new_nhood
           t == ins[p].target
           w == ins[p].new_topo_pid
           known == {PageOfId(i) : i \in N}
<1>1. PICK pid \in known \cap DOMAIN ins[p].buf, s \in Slots :
        /\ page_layout_topo[pid][s] = Invalid
        /\ page_layout_topo' = [page_layout_topo EXCEPT ![pid][s] = t]
        /\ id2loc_topo_' = [id2loc_topo_ EXCEPT ![t] = Loc(pid, s)]
        /\ ins' = [ins EXCEPT ![p].at = "write", ![p].buf[pid][s] = N]
  BY DEF Place, Holes
<1> DEFINE buf == [ins[p].buf EXCEPT ![pid] = [ins[p].buf[pid] EXCEPT ![s] = N]]
<1>2. /\ ins[p].at = "place" /\ empty_pages_topo' = Append(empty_pages_topo, w)
      /\ UNCHANGED <<cur_page, deleteVars, mergeVars, topo, cur_id, tags, medoid>>
  BY DEF Place, GiveBack
<1>3. \A q \in Inserters : q = p /\ Inserting(q) /\ Reserving(q)
  BY <1>2 DEF OneInsertion, Inserting, Reserving
<1>4. /\ Placement /\ merge = "idle" /\ t \in Ids /\ t < cur_id
      /\ t \notin Placed /\ N \subseteq Placed /\ DOMAIN ins[p].buf = known
  BY <1>2, <1>3, PlaceFacts DEF IInv, CallsOK
<1>5. known \subseteq Pages /\ pid \in Pages /\ s \in Slots /\ page_layout_topo[pid][s] = Invalid
  BY <1>1, <1>4 DEF Placement
<1>6. t # Invalid /\ Loc(pid, s) \in Locs
  BY <1>4, <1>5, SetFacts, LocFacts
<1>7. /\ ins[p].buf \in [known -> [Slots -> SUBSET Ids]]
      /\ IsCall(ins[p])
  BY <1>4 DEF IInv, TypeOK, IsCall, ArePages
<1>8. /\ buf \in [known -> [Slots -> SUBSET Ids]] /\ DOMAIN buf = known
      /\ \A q \in known, x \in Slots : buf[q][x] = IF q = pid /\ x = s THEN N ELSE ins[p].buf[q][x]
  <2> HIDE DEF known
  <2>1. N \in SUBSET Ids
    BY <1>4 DEF Placement
  <2> HIDE DEF N
  <2> QED BY <1>5, <1>7, <2>1
<1>9. ins' = [ins EXCEPT ![p].at = "write", ![p].buf = buf]
  <2>1. DOMAIN ins[p].buf = known /\ ins = [q \in Inserters |-> ins[q]]
    BY <1>4 DEF IInv, TypeOK
  <2> QED BY <1>1
<1> HIDE DEF buf
<1> DEFINE c == [at |-> "write", target |-> t, new_nhood |-> N,
                 new_topo_pid |-> w, pages |-> ins[p].pages,
                 buf |-> buf, upd |-> ins[p].upd]
<1>10. IsCall(c)
  <2>1. ArePages(buf)
    BY <1>5, <1>8 DEF ArePages
  <2> QED BY <1>7, <2>1 DEF IsCall
<1>11. ins' = [ins EXCEPT ![p] = c]
  <2>1. [ins[p] EXCEPT !.at = "write", !.buf = buf] = c
    <3>1. Fields(ins[p])
      BY <1>7 DEF IsCall, Fields
    <3>2. ToWrite(ins[p], "write", buf) = WrittenFields(ins[p], "write", buf)
      BY ONLY <3>1, SetWritten
    <3> QED BY <3>2 DEF ToWrite, WrittenFields
  <2>2. ins' = [ins EXCEPT ![p] = [ins[p] EXCEPT !.at = "write", !.buf = buf]]
    BY ONLY <1>9
  <2> QED BY ONLY <2>1, <2>2
<1>12. \A q \in Inserters : /\ ins'[q].at = "write" /\ ins'[q].target = t
                            /\ ins'[q].new_nhood = N /\ ins'[q].buf = buf
  <2>1. \A q \in Inserters : q = p /\ ins'[q] = c
    <3> HIDE DEF c
    <3> QED BY <1>10, <1>11, OnlyCall DEF IInv
  <2>2. c.at = "write" /\ c.target = t /\ c.new_nhood = N /\ c.buf = buf
    OBVIOUS
  <2> QED BY ONLY <2>1, <2>2
<1>13. CallsTyped'
  <2> HIDE DEF c
  <2> QED BY <1>10, <1>11, OnlyCall DEF IInv
<1> HIDE DEF c
<1>14. \A q \in Inserters : ~Reserving(q)' /\ Inserting(q)'
  BY <1>12 DEF Reserving, Inserting
<1>15. /\ page_layout_topo' \in [Pages -> [Slots -> Ids \cup {Invalid}]]
       /\ \A q \in Pages, x \in Slots :
            page_layout_topo'[q][x] = IF q = pid /\ x = s THEN t ELSE page_layout_topo[q][x]
  BY <1>1, <1>4, <1>5 DEF IInv, TypeOK
<1>16. /\ id2loc_topo_' \in [Ids -> Locs \cup {Invalid}]
       /\ \A i \in Ids : id2loc_topo_'[i] = IF i = t THEN Loc(pid, s) ELSE id2loc_topo_[i]
  BY <1>1, <1>4, <1>6 DEF IInv, TypeOK
<1>17. /\ empty_pages_topo \in Seq(Pages) /\ w \in Pages /\ w < cur_page /\ Unused(w)
       /\ ~Queued(w) /\ \A q \in Pages : InReserve(q) <=> q = w
  BY <1>3 DEF IInv, TypeOK, PagesKept, InReserve
<1>18. TypeOK'
  <2>1. empty_pages_topo' \in Seq(Pages)
    BY <1>2, <1>17
  <2> QED BY <1>2, <1>13, <1>15, <1>16, <2>1, TypeNext DEF IInv, TypeOK
<1>19. Placed' = Placed \cup {t}
  <2>1. \A i \in Placed' : i \in Placed \cup {t}
    <3>1. \A i \in Placed' : \E q \in Pages, x \in Slots : i = page_layout_topo'[q][x] /\ i # Invalid
      BY PlacedNext
    <3> QED BY <1>15, <3>1, PlacedIs
  <2>2. \A q \in Pages, x \in Slots : page_layout_topo'[q][x] # Invalid => page_layout_topo'[q][x] \in Placed'
    BY SameSets DEF Placed, IdsOn, Invalid
  <2>3. t \in Placed'
    BY <1>5, <1>6, <1>15, <2>2
  <2>4. \A i \in Placed : i \in Placed'
    <3>1. \A i \in Placed : \E q \in Pages, x \in Slots : i = page_layout_topo[q][x] /\ i # Invalid
      BY PlacedIs
    <3> QED BY <1>5, <1>15, <2>2, <3>1
  <2> QED BY <2>1, <2>3, <2>4
<1>20. TablesAgree'
  <2>1. \A q \in Pages, x \in Slots : page_layout_topo'[q][x] # Invalid =>
           id2loc_topo_'[page_layout_topo'[q][x]] = Loc(q, x)
    <3> SUFFICES ASSUME NEW q \in Pages, NEW x \in Slots, page_layout_topo'[q][x] # Invalid
                 PROVE  id2loc_topo_'[page_layout_topo'[q][x]] = Loc(q, x)
      OBVIOUS
    <3>1. CASE q = pid /\ x = s
      BY <1>4, <1>15, <1>16, <3>1
    <3>2. CASE ~(q = pid /\ x = s)
      <4>1. page_layout_topo'[q][x] = page_layout_topo[q][x] /\ page_layout_topo[q][x] \in Placed
        BY <1>4, <1>15, <3>2 DEF Placement
      <4>2. page_layout_topo[q][x] \in Ids /\ page_layout_topo[q][x] # t
        BY <1>4, <4>1 DEF Placement
      <4> QED BY <1>16, <4>1, <4>2 DEF IInv, TablesAgree
    <3> QED BY <3>1, <3>2
  <2> QED BY <2>1, SameSets DEF TablesAgree, Loc, Invalid
<1>21. TagsPlaced'
  BY <1>2, <1>3, <1>19 DEF IInv, TagsPlaced
<1>22. PagesKept'
  <2> DEFINE e == empty_pages_topo
  <2>1. \A q \in Pages : Unused(q)' <=> Unused(q)
    <3> SUFFICES ASSUME NEW q \in Pages PROVE Unused(q)' <=> Unused(q)
      OBVIOUS
    <3>1. CASE q # pid
      <4>1. page_layout_topo'[q] = page_layout_topo[q]
        BY <1>1, <3>1 DEF IInv, TypeOK
      <4> QED BY <4>1, SameSets DEF Unused
    <3>2. CASE q = pid
      <4>1. PICK i \in N : PageOfId(i) = pid
        OBVIOUS
      <4>2. /\ SlotOfId(i) \in Slots /\ page_layout_topo[pid][SlotOfId(i)] = i
            /\ i # Invalid /\ i # t
        BY <1>4, <4>1 DEF Placement
      <4>3. page_layout_topo'[pid][SlotOfId(i)] = i
        BY <1>5, <1>15, <4>2
      <4> QED BY <3>2, <4>2, <4>3, SameSets DEF Unused, EmptyLayout
    <3> QED BY <3>1, <3>2
  <2>2. /\ DOMAIN e' = 1 .. Len(e) + 1 /\ e'[Len(e) + 1] = w /\ Len(e) \in Nat
        /\ DOMAIN e = 1 .. Len(e) /\ \A k \in 1 .. Len(e) : e'[k] = e[k]
    BY <1>2, <1>17
  <2>3. /\ \A j, k \in 1 .. Len(e) : e[j] = e[k] => j = k
        /\ \A k \in 1 .. Len(e) : e[k] # w
    BY <1>17, <2>2 DEF IInv, PagesKept, Queued
  <2>4. \A j, k \in DOMAIN e' : e'[j] = e'[k] => j = k
    <3> HIDE DEF e
    <3>1. \A k \in 1 .. Len(e) + 1 : k \in 1 .. Len(e) \/ k = Len(e) + 1
      BY <2>2
    <3> QED BY <2>2, <2>3, <3>1
  <2>5. \A q \in Pages : Queued(q)' <=> Queued(q) \/ q = w
    <3> SUFFICES ASSUME NEW q \in Pages
                 PROVE  (\E k \in DOMAIN e' : e'[k] = q) <=> (\E k \in DOMAIN e : e[k] = q) \/ q = w
      BY DEF Queued
    <3> HIDE DEF e, w
    <3>1. \A k \in 1 .. Len(e) + 1 : k \in 1 .. Len(e) \/ k = Len(e) + 1
      BY <2>2
    <3>2. \A k \in 1 .. Len(e) : k \in 1 .. Len(e) + 1
      BY <2>2
    <3>3. Len(e) + 1 \in 1 .. Len(e) + 1
      BY <2>2
    <3> QED BY <2>2, <3>1, <3>2, <3>3
  <2>6. \A q \in Pages : ~InReserve(q)'
    BY <1>14 DEF InReserve
  <2>7. cur_page' = cur_page
    BY <1>2
  <2> HIDE DEF e
  <2>8. /\ \A q \in Pages : q >= cur_page' => Unused(q)'
        /\ \A q \in Pages : Queued(q)' => q < cur_page' /\ Unused(q)' /\ ~InReserve(q)'
        /\ \A q \in Pages : q < cur_page' /\ Unused(q)' => Queued(q)' \/ InReserve(q)'
    BY <1>17, <2>1, <2>5, <2>6, <2>7 DEF IInv, PagesKept
  <2> QED BY <1>14, <2>4, <2>8, SameSets DEF PagesKept, e
<1>23. CallsOK'
  <2>1. merge' = "idle" /\ cur_id' = cur_id
    BY <1>2, <1>4 DEF mergeVars
  <2> QED BY <1>4, <1>12, <1>19, <2>1, SameSets DEF IInv, CallsOK
<1>24. ListsKept'
  <2>1. \A q \in Pages, x \in Slots :
          page_layout_topo'[q][x] # Invalid /\ page_layout_topo'[q][x] # t => topo[q][x] \subseteq Placed
    BY <1>3, <1>15 DEF IInv, ListsKept
  <2>2. topo' = topo
    BY <1>2
  <2>3. \A q \in Pages, x \in Slots :
          LET i == page_layout_topo'[q][x] IN
          i # Invalid /\ (\A r \in Inserters : Inserting(r)' => i # ins'[r].target) => topo'[q][x] \subseteq Placed'
    BY <1>12, <1>14, <1>19, <2>1, <2>2
  <2>4. \A q \in known, x \in Slots : page_layout_topo[q][x] # Invalid => ins[p].buf[q][x] \subseteq Placed \cup {t}
    BY <1>2, <1>4 DEF IInv, ListsKept, ListsIn
  <2>5. \A q \in known, x \in Slots : page_layout_topo'[q][x] # Invalid => buf[q][x] \subseteq Placed'
    BY <1>4, <1>5, <1>8, <1>15, <1>19, <2>4
  <2>6. PageOf(id2loc_topo_'[t]) = pid
    <3>1. id2loc_topo_'[t] = Loc(pid, s)
      BY <1>4, <1>16
    <3> QED BY <1>5, <3>1, LocFacts
  <2>7. \A q \in Inserters :
          /\ \A r \in DOMAIN ins'[q].buf, x \in Slots :
               page_layout_topo'[r][x] # Invalid => ins'[q].buf[r][x] \subseteq Placed'
          /\ PageOf(id2loc_topo_'[ins'[q].target]) \in DOMAIN ins'[q].buf
    BY <1>8, <1>12, <2>5, <2>6
  <2>8. \A q \in Inserters : ins'[q].at = "write"
    BY <1>12
  <2> HIDE DEF known, N, t
  <2> QED BY <2>3, <2>7, <2>8, SameSets DEF ListsKept, ListsIn, PageOfId, PageOf, Invalid
<1>25. DeletionOK'
  BY <1>2, <1>4 DEF DeletionOK, mergeVars
<1>26. DeletedPlaced'
  BY <1>2, <1>4, <1>19, DeletedKept
<1> QED BY <1>18, <1>20, <1>21, <1>22, <1>23, <1>24, <1>25, <1>26 DEF IInv

-----------------------------------------------------------------------------
(* A page that splits.                                                     *)

(* A sequence that has each element of a set once has all of them.         *)
LEMMA SeqOfSet ==
  ASSUME NEW S, IsFiniteSet(S), NEW order \in SetToSeqs(S)
  PROVE  /\ Cardinality(S) \in Nat /\ order \in [1 .. Cardinality(S) -> S]
         /\ \A j, k \in 1 .. Cardinality(S) : order[j] = order[k] => j = k
         /\ \A x \in S : \E k \in 1 .. Cardinality(S) : order[k] = x
<1> DEFINE n == Cardinality(S)
<1>1. n \in Nat
  BY FS_CardinalityType
<1>2. order \in [1 .. n -> S] /\ \A j, k \in 1 .. n : order[j] = order[k] => j = k
  BY DEF SetToSeqs
<1>3. Cardinality(1 .. n) = n
  BY <1>1, FS_Interval
<1>4. order \in Injection(1 .. n, S)
  BY <1>2 DEF Injection, IsInjective
<1>5. order \in Surjection(1 .. n, S)
  BY <1>3, <1>4, FS_Injection
<1> QED BY <1>1, <1>2, <1>5 DEF Surjection

(* A page without holes has as many ids as places.                         *)
LEMMA FullPage ==
  ASSUME TypeOK, TablesAgree, NEW pid \in Pages, Holes(pid) = {}
  PROVE  IsFiniteSet(IdsOn(pid)) /\ Cardinality(IdsOn(pid)) = ntopo_per_sector
<1>1. Placement
  BY PlaceFacts
<1>2. \A s \in Slots : page_layout_topo[pid][s] # Invalid
  BY DEF Holes
<1> DEFINE f == [s \in Slots |-> page_layout_topo[pid][s]]
<1>3. f \in [Slots -> IdsOn(pid)] /\ \A i \in IdsOn(pid) : \E s \in Slots : f[s] = i
  BY <1>2 DEF IdsOn
<1>4. \A r, s \in Slots : f[r] = f[s] => r = s
  BY <1>1, <1>2 DEF Placement
<1>5. f \in Surjection(Slots, IdsOn(pid)) /\ f \in Injection(Slots, IdsOn(pid))
  <2> HIDE DEF f
  <2> QED BY <1>3, <1>4 DEF Surjection, Injection, IsInjective
<1>6. IsFiniteSet(Slots) /\ Cardinality(Slots) = ntopo_per_sector
  <2>1. 0 \in Int /\ ntopo_per_sector - 1 \in Int /\ ntopo_per_sector \in Nat \ {0}
    BY TopoInsertAssumption
  <2> QED BY <2>1, FS_Interval DEF Slots
<1> QED BY <1>5, <1>6, FS_Surjection

(* The ids of a page: at most one to a place, and each once.               *)
IsList(seq) ==
  /\ seq \in Seq(Ids) /\ Len(seq) \in 1 .. ntopo_per_sector
  /\ \A j, k \in 1 .. Len(seq) : seq[j] = seq[k] => j = k

Members(seq) == {seq[k] : k \in 1 .. Len(seq)}

(* The ids of a group.                                                     *)
LEMMA MembersIs == ASSUME NEW seq \in Seq(Ids) PROVE ToSet(seq) = Members(seq)
BY DEF ToSet, Members

(* A list with one more id.                                                *)
LEMMA AppendList ==
  ASSUME NEW seq \in Seq(Ids), Len(seq) < ntopo_per_sector, NEW t \in Ids, t \notin Members(seq),
         \A j, k \in 1 .. Len(seq) : seq[j] = seq[k] => j = k
  PROVE  IsList(Append(seq, t)) /\ Members(Append(seq, t)) = Members(seq) \cup {t}
<1> DEFINE a == Append(seq, t)
           n == Len(seq)
<1>1. /\ n \in Nat /\ ntopo_per_sector \in Nat /\ a \in Seq(Ids) /\ Len(a) = n + 1 /\ a[n + 1] = t
      /\ \A k \in 1 .. n : a[k] = seq[k]
  BY TopoInsertAssumption
<1> HIDE DEF a
<1>2. /\ \A k \in 1 .. n + 1 : k \in 1 .. n \/ k = n + 1
      /\ \A k \in 1 .. n : k \in 1 .. n + 1
      /\ n + 1 \in 1 .. n + 1 /\ n + 1 \in 1 .. ntopo_per_sector
  BY ONLY <1>1, Len(seq) < ntopo_per_sector
<1>3. \A k \in 1 .. n : seq[k] # t
  BY DEF Members
<1> HIDE DEF n
<1>4. \A j, k \in 1 .. n + 1 : a[j] = a[k] => j = k
  BY <1>1, <1>2, <1>3 DEF n
<1>5. \A x : x \in Members(a) <=> x \in Members(seq) \/ x = t
  BY <1>1, <1>2 DEF Members, n
<1> QED BY <1>1, <1>2, <1>4, <1>5 DEF IsList, a

(* The two groups of a full page with the target.                          *)
LEMMA Groups ==
  ASSUME NEW S, S \subseteq Ids, NEW t \in Ids, t \notin S, IsFiniteSet(S),
         Cardinality(S) = ntopo_per_sector, NEW order \in SetToSeqs(S),
         NEW k \in 1 .. ntopo_per_sector, NEW nearest
  PROVE  LET group1 == SubSeq(order, 1, k)
             group2 == SubSeq(order, k + 1, ntopo_per_sector)
             first == nearest \in ToSet(group1) /\ Len(group1) < ntopo_per_sector
             ids1 == IF first THEN Append(group1, t) ELSE group1
             ids2 == IF first THEN group2 ELSE Append(group2, t)
         IN  /\ IsList(ids1) /\ IsList(ids2) /\ Members(ids1) \cap Members(ids2) = {}
             /\ Members(ids1) \cup Members(ids2) = S \cup {t}
<1> DEFINE n == ntopo_per_sector
           group1 == SubSeq(order, 1, k)
           group2 == SubSeq(order, k + 1, n)
<1>1. n \in Nat \ {0} /\ k \in 1 .. n
  BY TopoInsertAssumption
<1>2. /\ order \in [1 .. n -> S] /\ \A i, j \in 1 .. n : order[i] = order[j] => i = j
      /\ \A x \in S : \E j \in 1 .. n : order[j] = x
  BY SeqOfSet
<1>3. order \in Seq(Ids) /\ Len(order) = n
  <2>1. order \in [1 .. n -> Ids]
    BY <1>2
  <2> QED BY <1>1, <2>1
<1>4. /\ group1 \in Seq(Ids) /\ Len(group1) = k /\ \A j \in 1 .. k : group1[j] = order[j]
      /\ group2 \in Seq(Ids) /\ Len(group2) = n - k
      /\ \A j \in 1 .. n - k : group2[j] = order[k + j]
  <2> HIDE DEF n
  <2>1. group1 \in Seq(Ids) /\ Len(group1) = k /\ \A j \in 1 .. k : group1[j] = order[j]
    BY ONLY <1>1, <1>3
  <2>2. /\ group2 \in Seq(Ids) /\ Len(group2) = n - k
        /\ \A j \in 1 .. n - k : group2[j] = order[k + j]
    BY ONLY <1>1, <1>3
  <2> QED BY <2>1, <2>2
<1> HIDE DEF group1, group2
<1>5. /\ \A j \in 1 .. k : j \in 1 .. n
      /\ \A j \in 1 .. n - k : k + j \in 1 .. n /\ k + j \notin 1 .. k
      /\ \A j \in 1 .. n : j \in 1 .. k \/ (j - k \in 1 .. n - k /\ k + (j - k) = j)
  BY ONLY <1>1
<1>6. /\ \A i, j \in 1 .. k : group1[i] = group1[j] => i = j
      /\ \A i, j \in 1 .. n - k : group2[i] = group2[j] => i = j
  <2>1. \A i, j \in 1 .. n - k : k + i = k + j => i = j
    BY ONLY <1>1
  <2> HIDE DEF n
  <2>2. ASSUME NEW i \in 1 .. k, NEW j \in 1 .. k, group1[i] = group1[j] PROVE i = j
    <3>1. order[i] = order[j] /\ i \in 1 .. n /\ j \in 1 .. n
      BY ONLY <1>4, <1>5, <2>2, i \in 1 .. k, j \in 1 .. k
    <3> QED BY ONLY <1>2, <3>1
  <2>3. ASSUME NEW i \in 1 .. n - k, NEW j \in 1 .. n - k, group2[i] = group2[j] PROVE i = j
    <3>1. order[k + i] = order[k + j] /\ k + i \in 1 .. n /\ k + j \in 1 .. n
      BY ONLY <1>4, <1>5, <2>3, i \in 1 .. n - k, j \in 1 .. n - k
    <3> QED BY ONLY <1>2, <2>1, <3>1, i \in 1 .. n - k, j \in 1 .. n - k
  <2> QED BY <2>2, <2>3
<1>7. Members(group1) \cap Members(group2) = {} /\ Members(group1) \cup Members(group2) = S
  <2> HIDE DEF n
  <2>1. \A i \in 1 .. k, j \in 1 .. n - k : group1[i] # group2[j]
    <3>1. \A i \in 1 .. k, j \in 1 .. n - k : order[i] # order[k + j]
      BY <1>2, <1>5
    <3> QED BY <1>4, <3>1
  <2>2. \A i \in 1 .. k : group1[i] \in S
    BY <1>2, <1>4, <1>5
  <2>3. \A i \in 1 .. n - k : group2[i] \in S
    BY <1>2, <1>4, <1>5
  <2>4. ASSUME NEW x \in S
        PROVE  (\E i \in 1 .. k : group1[i] = x) \/ (\E i \in 1 .. n - k : group2[i] = x)
    <3>1. PICK j \in 1 .. n : order[j] = x
      BY <1>2
    <3>2. CASE j \in 1 .. k
      BY <1>4, <3>1, <3>2
    <3>3. CASE j - k \in 1 .. n - k /\ k + (j - k) = j
      BY <1>4, <3>1, <3>3
    <3> QED BY <1>5, <3>2, <3>3
  <2>5. Members(group1) = {group1[i] : i \in 1 .. k} /\ Members(group2) = {group2[i] : i \in 1 .. n - k}
    BY <1>4 DEF Members
  <2> QED BY <2>1, <2>2, <2>3, <2>4, <2>5
<1>8. CASE nearest \in ToSet(group1) /\ Len(group1) < n
  <2>1. IsList(Append(group1, t)) /\ Members(Append(group1, t)) = Members(group1) \cup {t}
    BY <1>4, <1>6, <1>7, <1>8, AppendList
  <2>2. IsList(group2)
    <3>1. Len(group2) \in 1 .. n
      BY <1>1, <1>4, <1>8
    <3> QED BY <1>4, <1>6, <3>1 DEF IsList
  <2>3. t \notin Members(group2)
    BY <1>7
  <2> QED BY <1>7, <1>8, <2>1, <2>2, <2>3 DEF group1, group2
<1>9. CASE ~(nearest \in ToSet(group1) /\ Len(group1) < n)
  <2>1. Len(group2) < n
    BY <1>1, <1>4
  <2>2. IsList(Append(group2, t)) /\ Members(Append(group2, t)) = Members(group2) \cup {t}
    BY <1>4, <1>6, <1>7, <2>1, AppendList
  <2>3. IsList(group1)
    BY <1>1, <1>4, <1>6 DEF IsList
  <2>4. t \notin Members(group1)
    BY <1>7
  <2> QED BY <1>7, <1>9, <2>2, <2>3, <2>4 DEF group1, group2
<1> QED BY <1>8, <1>9

(* The place that a list gives to an id.                                   *)
LEMMA PlaceInIs ==
  ASSUME NEW seq, IsList(seq), NEW pid, NEW s \in Slots, s < Len(seq)
  PROVE  seq[s + 1] \in Members(seq) /\ PlaceIn(seq[s + 1], seq, pid) = Loc(pid, s)
<1>1. Len(seq) \in Nat /\ s \in Nat /\ s + 1 \in 1 .. Len(seq)
  BY SetFacts DEF IsList
<1>2. ASSUME NEW x \in Slots, x < Len(seq), seq[x + 1] = seq[s + 1]
      PROVE  x = s
  <2>1. x \in Nat /\ x + 1 \in 1 .. Len(seq)
    BY <1>1, <1>2, SetFacts
  <2>2. x + 1 = s + 1
    BY <1>1, <1>2, <2>1 DEF IsList
  <2> QED BY <1>1, <2>1, <2>2
<1>3. (CHOOSE x \in Slots : x < Len(seq) /\ seq[x + 1] = seq[s + 1]) = s
  BY <1>2
<1> QED BY <1>1, <1>3 DEF PlaceIn, Members

(* The layout that a list makes.                                           *)
LEMMA LayoutOfIs ==
  ASSUME NEW seq, IsList(seq), NEW pid
  PROVE  /\ LayoutOf(pid, seq) \in [Slots -> Ids \cup {Invalid}]
         /\ \A s \in Slots : LayoutOf(pid, seq)[s] = IF s < Len(seq) THEN seq[s + 1] ELSE Invalid
         /\ \A s \in Slots : s < Len(seq) => seq[s + 1] \in Ids
         /\ \A i \in Members(seq) : \E s \in Slots : s < Len(seq) /\ seq[s + 1] = i
<1>1. /\ Len(seq) \in Nat /\ Len(seq) <= ntopo_per_sector /\ ntopo_per_sector \in Nat
      /\ \A s \in Slots : s \in Nat
  BY TopoInsertAssumption, SetFacts DEF IsList
<1>2. \A s \in Slots : s < Len(seq) => s + 1 \in 1 .. Len(seq)
  BY <1>1
<1>3. \A s \in Slots : s < Len(seq) => seq[s + 1] \in Ids
  BY <1>2 DEF IsList
<1>4. ASSUME NEW k \in 1 .. Len(seq)
      PROVE  k - 1 \in Slots /\ k - 1 < Len(seq) /\ (k - 1) + 1 = k
  BY <1>1 DEF Slots
<1>5. \A i \in Members(seq) : \E s \in Slots : s < Len(seq) /\ seq[s + 1] = i
  BY <1>4 DEF Members
<1> QED BY <1>3, <1>5 DEF LayoutOf

(* A page's ids and the target are spread over it and the new page.        *)
LEMMA SplitStep ==
  ASSUME OneInsertion, IInv, NEW p \in Inserters, Split(p)
  PROVE  IInv'
<1> DEFINE N == ins[p].new_nhood
           t == ins[p].target
           new == ins[p].new_topo_pid
           old == ins[p].buf
           known == {PageOfId(i) : i \in N}
<1>1. /\ ins[p].at = "place"
      /\ UNCHANGED <<pageVars, deleteVars, mergeVars, cur_id, tags, medoid>>
      /\ \A i \in N : Holes(PageOfId(i)) = {}
  BY DEF Split
<1>2. \A q \in Inserters : q = p /\ Inserting(q) /\ Reserving(q)
  BY <1>1 DEF OneInsertion, Inserting, Reserving
<1>3. /\ Placement /\ merge = "idle" /\ t \in Ids /\ t < cur_id
      /\ t \notin Placed /\ N \subseteq Placed /\ DOMAIN old = known
  BY <1>1, <1>2, PlaceFacts DEF IInv, CallsOK
<1>4. known \subseteq Pages /\ t # Invalid
  <2>1. \A i \in Placed : PageOfId(i) \in Pages
    BY <1>3 DEF Placement
  <2>2. t # Invalid
    BY <1>3, SetFacts
  <2> QED BY <1>3, <2>1, <2>2
<1>5. PICK nearest \in N :
        \E order \in SetToSeqs(IdsOn(PageOfId(nearest))),
           k \in {m \in 1 .. ntopo_per_sector : GroupSize(m)} :
         LET group1 == SubSeq(order, 1, k)
             group2 == SubSeq(order, k + 1, ntopo_per_sector)
             first == nearest \in ToSet(group1) /\ Len(group1) < ntopo_per_sector
         IN  SplitInto(p, PageOfId(nearest), IF first THEN Append(group1, t) ELSE group1,
                                             IF first THEN group2 ELSE Append(group2, t))
  BY DEF Split
<1> DEFINE pid == PageOfId(nearest)
           S == IdsOn(pid)
<1>6. pid \in Pages /\ pid \in known /\ Holes(pid) = {}
  BY <1>1, <1>4
<1>7. /\ IsFiniteSet(S) /\ Cardinality(S) = ntopo_per_sector /\ S \subseteq Placed /\ S \subseteq Ids
      /\ t \notin S
  <2>1. S \subseteq Placed
    BY <1>6 DEF Placed
  <2> QED BY <1>3, <1>6, <2>1, FullPage DEF IInv, Placement
<1>8a. PICK ids1, ids2 :
        /\ IsList(ids1) /\ IsList(ids2) /\ Members(ids1) \cap Members(ids2) = {}
        /\ Members(ids1) \cup Members(ids2) = S \cup {t}
        /\ SplitInto(p, pid, ids1, ids2)
  <2>1. PICK order \in SetToSeqs(S), k \in {m \in 1 .. ntopo_per_sector : GroupSize(m)} :
         LET group1 == SubSeq(order, 1, k)
             group2 == SubSeq(order, k + 1, ntopo_per_sector)
             first == nearest \in ToSet(group1) /\ Len(group1) < ntopo_per_sector
         IN  SplitInto(p, pid, IF first THEN Append(group1, t) ELSE group1,
                               IF first THEN group2 ELSE Append(group2, t))
    BY <1>5
  <2> DEFINE group1 == SubSeq(order, 1, k)
             group2 == SubSeq(order, k + 1, ntopo_per_sector)
             first == nearest \in ToSet(group1) /\ Len(group1) < ntopo_per_sector
             ids1 == IF first THEN Append(group1, t) ELSE group1
             ids2 == IF first THEN group2 ELSE Append(group2, t)
  <2>2. k \in 1 .. ntopo_per_sector
    OBVIOUS
  <2>3. /\ IsList(ids1) /\ IsList(ids2) /\ Members(ids1) \cap Members(ids2) = {}
        /\ Members(ids1) \cup Members(ids2) = S \cup {t}
    <3> HIDE DEF S, t
    <3> QED BY <1>3, <1>7, <2>2, Groups
  <2>4. SplitInto(p, pid, ids1, ids2)
    BY <2>1
  <2> HIDE DEF ids1, ids2
  <2> QED BY <2>3, <2>4
<1>8. /\ IsList(ids1) /\ IsList(ids2) /\ Members(ids1) \cap Members(ids2) = {}
      /\ Members(ids1) \cup Members(ids2) = S \cup {t}
      /\ page_layout_topo' = [page_layout_topo EXCEPT ![pid] = LayoutOf(pid, ids1),
                                                      ![new] = LayoutOf(new, ids2)]
      /\ id2loc_topo_' = Relocated(pid, ids1, new, ids2)
      /\ topo' = [topo EXCEPT ![pid] = old[pid], ![new] = Copied(old[pid], ids1, ids2, N)]
      /\ ins' = [ins EXCEPT ![p].at = "write",
                            ![p].buf = Over([pg \in {new} |-> Copied(old[pid], ids1, ids2, N)], old)]
  BY <1>8a DEF SplitInto
<1> DEFINE copied == Copied(old[pid], ids1, ids2, N)
           buf == Over([pg \in {new} |-> copied], old)
           After == Placed \cup {t}
<1>9. /\ new \in Pages /\ new < cur_page /\ Unused(new) /\ ~Queued(new)
      /\ \A q \in Pages : InReserve(q) <=> q = new
  BY <1>2 DEF IInv, PagesKept, InReserve
<1>10. new # pid /\ new \notin known
  <2>1. \A i \in N : ~Unused(PageOfId(i))
    BY <1>3 DEF Placement, Unused, EmptyLayout
  <2> QED BY <1>9, <2>1
<1>11. old \in [known -> [Slots -> SUBSET Ids]] /\ IsCall(ins[p]) /\ N \in SUBSET Ids
  BY <1>3 DEF IInv, TypeOK, IsCall, ArePages
<1>12. \A q \in known, x \in Slots : page_layout_topo[q][x] # Invalid => old[q][x] \subseteq After
  BY <1>1, <1>3 DEF IInv, ListsKept, ListsIn
<1>13. \A x \in Slots : old[pid][x] \subseteq After
  BY <1>6, <1>12 DEF Holes
<1>14. copied \in [Slots -> SUBSET Ids] /\ \A x \in Slots : copied[x] \subseteq After
  <2>1. ASSUME NEW x \in Slots
        PROVE  copied[x] \in SUBSET Ids /\ copied[x] \subseteq After
    <3>1. \/ \E y \in Slots : copied[x] = old[pid][y]
          \/ copied[x] = N
          \/ copied[x] = {}
      <4> HIDE DEF N, old, pid
      <4> QED BY DEF Copied
    <3> HIDE DEF copied
    <3> QED BY <1>3, <1>6, <1>11, <1>13, <3>1
  <2>2. copied = [x \in Slots |-> copied[x]]
    BY DEF Copied
  <2> HIDE DEF copied, After
  <2> QED BY <2>1, <2>2
<1> HIDE DEF copied
<1>15. /\ DOMAIN buf = known \cup {new} /\ buf[new] = copied /\ \A q \in known : buf[q] = old[q]
       /\ buf \in [known \cup {new} -> [Slots -> SUBSET Ids]]
  <2> HIDE DEF known
  <2>1. DOMAIN old = known /\ new \notin known
    BY <1>3, <1>10
  <2>2. /\ DOMAIN buf = known \cup {new} /\ buf[new] = copied /\ \A q \in known : buf[q] = old[q]
        /\ buf = [q \in known \cup {new} |-> buf[q]]
    <3> HIDE DEF new, old
    <3> QED BY <2>1 DEF Over
  <2> HIDE DEF buf
  <2> QED BY <1>11, <1>14, <2>2
<1>16. ins' = [ins EXCEPT ![p].at = "write", ![p].buf = buf]
  BY <1>8 DEF copied
<1> HIDE DEF buf
<1> DEFINE c == [at |-> "write", target |-> t, new_nhood |-> N,
                 new_topo_pid |-> new, pages |-> ins[p].pages,
                 buf |-> buf, upd |-> ins[p].upd]
<1>17. IsCall(c)
  <2>1. ArePages(buf)
    BY <1>4, <1>9, <1>15 DEF ArePages
  <2> QED BY <1>11, <2>1 DEF IsCall
<1>18. ins' = [ins EXCEPT ![p] = c]
  <2>1. [ins[p] EXCEPT !.at = "write", !.buf = buf] = c
    <3>1. Fields(ins[p])
      BY <1>11 DEF IsCall, Fields
    <3>2. ToWrite(ins[p], "write", buf) = WrittenFields(ins[p], "write", buf)
      BY ONLY <3>1, SetWritten
    <3> QED BY <3>2 DEF ToWrite, WrittenFields
  <2>2. ins' = [ins EXCEPT ![p] = [ins[p] EXCEPT !.at = "write", !.buf = buf]]
    BY ONLY <1>16
  <2> QED BY ONLY <2>1, <2>2
<1>19. \A q \in Inserters : /\ ins'[q].at = "write" /\ ins'[q].target = t
                            /\ ins'[q].new_nhood = N /\ ins'[q].buf = buf
  <2>1. \A q \in Inserters : q = p /\ ins'[q] = c
    <3> HIDE DEF c
    <3> QED BY <1>17, <1>18, OnlyCall DEF IInv
  <2>2. c.at = "write" /\ c.target = t /\ c.new_nhood = N /\ c.buf = buf
    OBVIOUS
  <2> QED BY ONLY <2>1, <2>2
<1>20. CallsTyped'
  <2> HIDE DEF c
  <2> QED BY <1>17, <1>18, OnlyCall DEF IInv
<1> HIDE DEF c
<1>21. \A q \in Inserters : ~Reserving(q)' /\ Inserting(q)'
  BY <1>19 DEF Reserving, Inserting
<1>22. /\ page_layout_topo' \in [Pages -> [Slots -> Ids \cup {Invalid}]]
       /\ page_layout_topo'[pid] = LayoutOf(pid, ids1)
       /\ page_layout_topo'[new] = LayoutOf(new, ids2)
       /\ \A q \in Pages : q # pid /\ q # new => page_layout_topo'[q] = page_layout_topo[q]
  <2>1. LayoutOf(pid, ids1) \in [Slots -> Ids \cup {Invalid}] /\ LayoutOf(new, ids2) \in [Slots -> Ids \cup {Invalid}]
    BY <1>8, LayoutOfIs
  <2>2. page_layout_topo \in [Pages -> [Slots -> Ids \cup {Invalid}]]
    BY DEF IInv, TypeOK
  <2>3. page_layout_topo' = [page_layout_topo EXCEPT ![pid] = LayoutOf(pid, ids1), ![new] = LayoutOf(new, ids2)]
    BY <1>8
  <2> HIDE DEF pid, new
  <2> QED BY ONLY <2>1, <2>2, <2>3, <1>6, <1>9, <1>10
<1>23. /\ topo' \in [Pages -> [Slots -> SUBSET Ids]]
       /\ topo'[pid] = old[pid] /\ topo'[new] = copied
       /\ \A q \in Pages : q # pid /\ q # new => topo'[q] = topo[q]
  <2>1. topo' = [topo EXCEPT ![pid] = old[pid], ![new] = copied]
    BY <1>8 DEF copied
  <2>2. topo \in [Pages -> [Slots -> SUBSET Ids]] /\ old[pid] \in [Slots -> SUBSET Ids]
    BY <1>6, <1>11 DEF IInv, TypeOK
  <2> HIDE DEF pid, new, old
  <2> QED BY ONLY <2>1, <2>2, <1>6, <1>9, <1>10, <1>14
<1>24. \A i \in Ids : id2loc_topo_'[i] = IF i \in Members(ids1) THEN PlaceIn(i, ids1, pid)
                                         ELSE IF i \in Members(ids2) THEN PlaceIn(i, ids2, new)
                                         ELSE id2loc_topo_[i]
  <2>1. ToSet(ids1) = Members(ids1) /\ ToSet(ids2) = Members(ids2)
    BY <1>8, MembersIs DEF IsList
  <2>2. id2loc_topo_' = Relocated(pid, ids1, new, ids2)
    BY <1>8
  <2> SUFFICES ASSUME NEW i \in Ids
               PROVE  id2loc_topo_'[i] = IF i \in Members(ids1) THEN PlaceIn(i, ids1, pid)
                                         ELSE IF i \in Members(ids2) THEN PlaceIn(i, ids2, new)
                                         ELSE id2loc_topo_[i]
    OBVIOUS
  <2>3. Relocated(pid, ids1, new, ids2)[i] =
           CASE i \in Members(ids1) -> PlaceIn(i, ids1, pid)
             [] i \in Members(ids2) -> PlaceIn(i, ids2, new)
             [] OTHER -> id2loc_topo_[i]
    <3> HIDE DEF pid, new
    <3> QED BY <2>1 DEF Relocated
  <2>4. ~(i \in Members(ids1) /\ i \in Members(ids2))
    BY <1>8
  <2> HIDE DEF pid, new
  <2> QED BY ONLY <2>2, <2>3, <2>4
<1>25. \A q \in Pages, x \in Slots : page_layout_topo'[q][x] # Invalid =>
         /\ page_layout_topo'[q][x] \in After
         /\ id2loc_topo_'[page_layout_topo'[q][x]] = Loc(q, x)
  <2> SUFFICES ASSUME NEW q \in Pages, NEW x \in Slots, page_layout_topo'[q][x] # Invalid
               PROVE  /\ page_layout_topo'[q][x] \in After
                      /\ id2loc_topo_'[page_layout_topo'[q][x]] = Loc(q, x)
    OBVIOUS
  <2>1. CASE q = pid
    <3>1. x < Len(ids1) /\ page_layout_topo'[q][x] = ids1[x + 1] /\ ids1[x + 1] \in Ids
      BY <1>8, <1>22, <2>1, LayoutOfIs
    <3>2. ids1[x + 1] \in Members(ids1) /\ PlaceIn(ids1[x + 1], ids1, pid) = Loc(pid, x)
      BY <1>8, <3>1, PlaceInIs
    <3> QED BY <1>7, <1>8, <1>24, <2>1, <3>1, <3>2
  <2>2. CASE q = new
    <3>1. x < Len(ids2) /\ page_layout_topo'[q][x] = ids2[x + 1] /\ ids2[x + 1] \in Ids
      BY <1>8, <1>22, <2>2, LayoutOfIs
    <3>2. ids2[x + 1] \in Members(ids2) /\ PlaceIn(ids2[x + 1], ids2, new) = Loc(new, x)
      BY <1>8, <3>1, PlaceInIs
    <3> QED BY <1>7, <1>8, <1>24, <2>2, <3>1, <3>2
  <2>3. CASE q # pid /\ q # new
    <3> DEFINE i == page_layout_topo[q][x]
    <3>1. page_layout_topo'[q][x] = i /\ i # Invalid
      BY <1>22, <2>3
    <3>2. i \in Placed /\ i \in Ids /\ PageOfId(i) = q /\ id2loc_topo_[i] = Loc(q, x)
      BY <1>3, <3>1 DEF Placement, IInv, TablesAgree
    <3>3. i \notin S
      BY <1>3, <1>6, <2>3, <3>2 DEF Placement, IdsOn
    <3>4. i # t
      BY <1>3, <3>2
    <3> HIDE DEF i
    <3>5. i \notin Members(ids1) /\ i \notin Members(ids2)
      BY <1>8, <3>3, <3>4
    <3> QED BY <1>24, <3>1, <3>2, <3>5
  <2> QED BY <2>1, <2>2, <2>3
<1>26. Placed' = After
  <2>1. \A i \in Placed' : i \in After
    BY <1>25, PlacedNext
  <2>2. \A q \in Pages, x \in Slots : page_layout_topo'[q][x] # Invalid => page_layout_topo'[q][x] \in Placed'
    BY PlacedNext
  <2>3. \A i \in Members(ids1) : i \in Placed'
    <3> SUFFICES ASSUME NEW i \in Members(ids1) PROVE i \in Placed'
      OBVIOUS
    <3>1. PICK x \in Slots : x < Len(ids1) /\ ids1[x + 1] = i
      BY <1>8, LayoutOfIs
    <3>2. page_layout_topo'[pid][x] = i
      BY <1>8, <1>22, <3>1, LayoutOfIs
    <3>3. i # Invalid
      BY <1>7, <1>8, <1>3, SetFacts
    <3> QED BY <1>6, <2>2, <3>2, <3>3
  <2>4. \A i \in Members(ids2) : i \in Placed'
    <3> SUFFICES ASSUME NEW i \in Members(ids2) PROVE i \in Placed'
      OBVIOUS
    <3>1. PICK x \in Slots : x < Len(ids2) /\ ids2[x + 1] = i
      BY <1>8, LayoutOfIs
    <3>2. page_layout_topo'[new][x] = i
      BY <1>8, <1>22, <3>1, LayoutOfIs
    <3>3. i # Invalid
      BY <1>7, <1>8, <1>3, SetFacts
    <3> QED BY <1>9, <2>2, <3>2, <3>3
  <2>5. \A i \in Placed : i \in Placed'
    <3> SUFFICES ASSUME NEW i \in Placed PROVE i \in Placed'
      OBVIOUS
    <3>1. CASE i \in S
      BY <1>8, <2>3, <2>4, <3>1
    <3>2. CASE i \notin S
      <4> DEFINE q == PageOfId(i)
                 x == SlotOfId(i)
      <4>1. q \in Pages /\ x \in Slots /\ page_layout_topo[q][x] = i /\ i # Invalid
        BY <1>3 DEF Placement
      <4> HIDE DEF q, x
      <4>2. q # pid
        BY <3>2, <4>1 DEF IdsOn
      <4>3. q # new
        BY <1>9, <4>1 DEF Unused, EmptyLayout
      <4> QED BY <1>22, <2>2, <4>1, <4>2, <4>3
    <3> QED BY <3>1, <3>2
  <2>6. t \in Placed'
    BY <1>8, <2>3, <2>4
  <2> QED BY <2>1, <2>5, <2>6
<1> HIDE DEF After
<1>27. TypeOK'
  <2>1. id2loc_topo_' \in [Ids -> Locs \cup {Invalid}]
    <3>1. id2loc_topo_' = [i \in Ids |-> id2loc_topo_'[i]]
      BY <1>8 DEF Relocated
    <3>2. ASSUME NEW seq, IsList(seq), NEW q \in Pages, NEW i \in Members(seq)
          PROVE  PlaceIn(i, seq, q) \in Locs
      <4>1. PICK x \in Slots : x < Len(seq) /\ seq[x + 1] = i
        BY <3>2, LayoutOfIs
      <4> QED BY <3>2, <4>1, PlaceInIs, LocFacts
    <3>3. \A i \in Ids : id2loc_topo_'[i] \in Locs \cup {Invalid}
      <4>1. IsList(ids1) /\ IsList(ids2) /\ pid \in Pages /\ new \in Pages
        BY <1>6, <1>8, <1>9
      <4>2. \A i \in Members(ids1) : PlaceIn(i, ids1, pid) \in Locs
        BY <3>2, <4>1
      <4>3. \A i \in Members(ids2) : PlaceIn(i, ids2, new) \in Locs
        BY <3>2, <4>1
      <4>4. \A i \in Ids : id2loc_topo_[i] \in Locs \cup {Invalid}
        BY DEF IInv, TypeOK
      <4> QED BY ONLY <1>24, <4>2, <4>3, <4>4
    <3> QED BY <3>1, <3>3
  <2> QED BY <1>1, <1>20, <1>22, <1>23, <2>1, TypeNext DEF IInv, TypeOK, pageVars
<1>28. TablesAgree'
  BY <1>25, SameSets DEF TablesAgree, Loc, Invalid
<1>29. TagsPlaced'
  BY <1>1, <1>2, <1>26 DEF IInv, TagsPlaced, After
<1>30. PagesKept'
  <2>1. \A q \in Pages : Unused(q)' <=> Unused(q) /\ q # new
    <3> SUFFICES ASSUME NEW q \in Pages PROVE Unused(q)' <=> Unused(q) /\ q # new
      OBVIOUS
    <3>1. 0 \in Slots /\ 0 < Len(ids1) /\ 0 < Len(ids2)
      BY <1>8, SetFacts DEF IsList
    <3>2. page_layout_topo'[pid][0] \in Ids /\ page_layout_topo'[new][0] \in Ids
      BY <1>8, <1>22, <3>1, LayoutOfIs
    <3>3. page_layout_topo'[pid][0] # Invalid /\ page_layout_topo'[new][0] # Invalid
      BY <3>2, SetFacts
    <3>4. ~Unused(pid)
      BY <1>6, <3>1 DEF Unused, EmptyLayout, Holes
    <3>5. CASE q = pid
      BY <3>1, <3>3, <3>4, <3>5, SameSets DEF Unused, EmptyLayout
    <3>6. CASE q = new
      BY <3>1, <3>3, <3>6, SameSets DEF Unused, EmptyLayout
    <3>7. CASE q # pid /\ q # new
      BY <1>22, <3>7, SameSets DEF Unused
    <3> QED BY <3>5, <3>6, <3>7
  <2>2. /\ \A q \in Pages : Queued(q)' <=> Queued(q)
        /\ \A q \in Pages : ~InReserve(q)'
        /\ cur_page' = cur_page /\ empty_pages_topo' = empty_pages_topo
    BY <1>1, <1>21 DEF Queued, InReserve, pageVars
  <2>3. /\ \A q \in Pages : q >= cur_page' => Unused(q)'
        /\ \A q \in Pages : Queued(q)' => q < cur_page' /\ Unused(q)' /\ ~InReserve(q)'
        /\ \A q \in Pages : q < cur_page' /\ Unused(q)' => Queued(q)' \/ InReserve(q)'
    <3>1. cur_page \in Int /\ new \in Int /\ ~(new >= cur_page)
      BY <1>9, SetFacts DEF IInv, TypeOK
    <3> QED BY <1>9, <2>1, <2>2, <3>1 DEF IInv, PagesKept
  <2> QED BY <1>21, <2>2, <2>3, SameSets DEF IInv, PagesKept
<1>31. CallsOK'
  <2>1. merge' = "idle" /\ cur_id' = cur_id
    BY <1>1, <1>3 DEF mergeVars
  <2> QED BY <1>3, <1>19, <1>26, <2>1, SameSets DEF IInv, CallsOK, After
<1>32. ListsKept'
  <2>1. \A q \in Pages, x \in Slots :
          page_layout_topo'[q][x] # Invalid /\ page_layout_topo'[q][x] # t => topo'[q][x] \subseteq Placed'
    <3> SUFFICES ASSUME NEW q \in Pages, NEW x \in Slots,
                        page_layout_topo'[q][x] # Invalid, page_layout_topo'[q][x] # t
                 PROVE  topo'[q][x] \subseteq After
      BY <1>26
    <3>1. CASE q = pid
      BY <1>13, <1>23, <3>1
    <3>2. CASE q = new
      BY <1>14, <1>23, <3>2
    <3>3. CASE q # pid /\ q # new
      <4>1. page_layout_topo[q][x] # Invalid /\ page_layout_topo[q][x] # t
        BY <1>22, <3>3
      <4>2. topo[q][x] \subseteq Placed
        BY <1>2, <4>1 DEF IInv, ListsKept
      <4> QED BY <1>23, <3>3, <4>2 DEF After
    <3> QED BY <3>1, <3>2, <3>3
  <2>2. \A q \in known \cup {new}, x \in Slots : page_layout_topo'[q][x] # Invalid => buf[q][x] \subseteq Placed'
    <3> SUFFICES ASSUME NEW q \in known \cup {new}, NEW x \in Slots, page_layout_topo'[q][x] # Invalid
                 PROVE  buf[q][x] \subseteq After
      BY <1>26
    <3>1. CASE q = new
      BY <1>14, <1>15, <3>1
    <3>2. CASE q = pid
      BY <1>6, <1>13, <1>15, <3>2
    <3>3. CASE q # pid /\ q # new
      <4>1. q \in known /\ page_layout_topo[q][x] # Invalid
        BY <1>4, <1>22, <3>3
      <4> QED BY <1>12, <1>15, <4>1
    <3> QED BY <3>1, <3>2, <3>3
  <2>3. PageOf(id2loc_topo_'[t]) \in known \cup {new}
    <3>1. t \in Placed'
      BY <1>26 DEF After
    <3>2. PICK q \in Pages, x \in Slots : t = page_layout_topo'[q][x]
      BY <3>1, PlacedNext
    <3>3. PageOf(id2loc_topo_'[t]) = q
      BY <1>4, <1>25, <3>2, LocFacts
    <3>4. q = pid \/ q = new
      <4> SUFFICES ASSUME q # pid, q # new PROVE FALSE
        OBVIOUS
      <4>1. page_layout_topo[q][x] = t
        BY <1>22, <3>2
      <4> QED BY <1>3, <1>4, <4>1 DEF Placement
    <3> QED BY <1>6, <3>3, <3>4
  <2>4. \A q \in Pages, x \in Slots :
          LET i == page_layout_topo'[q][x] IN
          i # Invalid /\ (\A r \in Inserters : Inserting(r)' => i # ins'[r].target) => topo'[q][x] \subseteq Placed'
    BY <1>19, <1>21, <2>1
  <2>5. \A q \in Inserters :
          /\ \A r \in DOMAIN ins'[q].buf, x \in Slots :
               page_layout_topo'[r][x] # Invalid => ins'[q].buf[r][x] \subseteq Placed'
          /\ PageOf(id2loc_topo_'[ins'[q].target]) \in DOMAIN ins'[q].buf
    BY <1>15, <1>19, <2>2, <2>3
  <2>6. \A q \in Inserters : ins'[q].at = "write"
    BY <1>19
  <2> HIDE DEF known, N, t, pid, new
  <2> QED BY <2>4, <2>5, <2>6, SameSets DEF ListsKept, ListsIn, PageOfId, PageOf, Invalid
<1>33. DeletionOK'
  BY <1>1, <1>3 DEF DeletionOK, mergeVars
<1>34. DeletedPlaced'
  <2>1. Placed \subseteq Placed'
    BY <1>26 DEF After
  <2> QED BY <1>1, <1>3, <2>1, DeletedKept
<1> QED BY <1>27, <1>28, <1>29, <1>30, <1>31, <1>32, <1>33, <1>34 DEF IInv

-----------------------------------------------------------------------------
(* The pages are written.                                                  *)

(* The buffers reach the file, and the call ends.                          *)
LEMMA WritePagesStep ==
  ASSUME OneInsertion, IInv, NEW p \in Inserters, WritePages(p)
  PROVE  IInv'
<1> DEFINE t == ins[p].target
           buf == ins[p].buf
<1>1. /\ ins[p].at = "write" /\ topo' = Over(buf, topo) /\ ins' = [ins EXCEPT ![p] = Idle]
      /\ UNCHANGED <<tableVars, pageVars, deleteVars, mergeVars, cur_id, tags, medoid>>
  BY DEF WritePages
<1>2. \A q \in Inserters : q = p /\ Inserting(q) /\ ~Reserving(q)
  BY <1>1 DEF OneInsertion, Inserting, Reserving
<1>3. Placement /\ merge = "idle" /\ t \in Placed
  BY <1>1, <1>2, PlaceFacts DEF IInv, CallsOK
<1>4. IsCall(Idle)
  BY DEF IsCall, Idle, ArePages, IsIdLists
<1>5. CallsTyped' /\ \A q \in Inserters : ins'[q] = Idle
  <2> HIDE DEF t, buf
  <2> QED BY <1>1, <1>4, OnlyCall DEF IInv
<1>6. \A q \in Inserters : ~Reserving(q)' /\ ~Inserting(q)' /\ ins'[q].at = "idle"
  BY <1>5 DEF Idle, Reserving, Inserting
<1>7. DOMAIN buf \subseteq Pages /\ buf \in [DOMAIN buf -> [Slots -> SUBSET Ids]]
  BY DEF IInv, TypeOK, IsCall, ArePages
<1>8. /\ topo' \in [Pages -> [Slots -> SUBSET Ids]]
      /\ \A q \in Pages : topo'[q] = IF q \in DOMAIN buf THEN buf[q] ELSE topo[q]
  <2>1. topo \in [Pages -> [Slots -> SUBSET Ids]]
    BY DEF IInv, TypeOK
  <2>2. topo' = [q \in Pages |-> IF q \in DOMAIN buf THEN buf[q] ELSE topo[q]]
    <3>1. DOMAIN buf \cup DOMAIN topo = Pages
      BY <1>7, <2>1
    <3> HIDE DEF buf
    <3> QED BY <1>1, <3>1 DEF Over
  <2> HIDE DEF buf
  <2> QED BY <1>7, <2>1, <2>2
<1>9. TypeOK'
  BY <1>1, <1>5, <1>8, TypeNext DEF IInv, TypeOK, tableVars, pageVars
<1>10. TablesAgree' /\ TagsPlaced'
  <2>1. Placed' = Placed /\ tags' = tags
    BY <1>1, SameTables
  <2>2. TagsPlaced'
    BY <1>2, <2>1 DEF IInv, TagsPlaced
  <2> QED BY <1>1, <2>2, SameTables DEF IInv
<1>11. PagesKept'
  BY <1>1, <1>2, <1>6, SameTables, SameSets
     DEF IInv, PagesKept, Queued, InReserve, pageVars
<1>12. CallsOK'
  <2>1. Placed' = Placed /\ cur_id' = cur_id
    BY <1>1, SameTables
  <2> QED BY <1>6, <2>1 DEF IInv, CallsOK
<1>13. ListsKept'
  <2>1. ASSUME NEW q \in Pages, NEW s \in Slots, page_layout_topo[q][s] # Invalid
        PROVE  topo'[q][s] \subseteq Placed
    <3>1. CASE q \in DOMAIN buf
      BY <1>1, <1>8, <2>1, <3>1 DEF IInv, ListsKept, ListsIn
    <3>2. CASE q \notin DOMAIN buf
      <4>1. page_layout_topo[q][s] # t
        <5>1. PageOfId(t) \in DOMAIN buf
          BY <1>1 DEF IInv, ListsKept
        <5> QED BY <1>3, <2>1, <3>2, <5>1 DEF Placement
      <4>2. topo[q][s] \subseteq Placed
        BY <1>2, <2>1, <4>1 DEF IInv, ListsKept
      <4> QED BY <1>8, <3>2, <4>2
    <3> QED BY <3>1, <3>2
  <2>2. page_layout_topo' = page_layout_topo /\ Placed' = Placed
    BY <1>1, SameTables DEF tableVars
  <2> HIDE DEF t, buf
  <2> QED BY <1>6, <2>1, <2>2, SameSets DEF ListsKept, Invalid
<1>14. DeletionOK'
  BY <1>1, <1>3 DEF DeletionOK, mergeVars
<1>15. DeletedPlaced'
  BY <1>1, <1>3, SameTables, DeletedKept
<1> QED BY <1>9, <1>10, <1>11, <1>12, <1>13, <1>14, <1>15 DEF IInv

-----------------------------------------------------------------------------
(* The deletions.                                                          *)

(* A step that leaves the tables, the pages and the calls alone.           *)
LEMMA SameIndex ==
  ASSUME UNCHANGED <<tableVars, pageVars, cur_id, tags, medoid, ins>>
  PROVE  /\ (TablesAgree => TablesAgree') /\ (TagsPlaced => TagsPlaced') /\ (PagesKept => PagesKept')
         /\ Placed' = Placed /\ page_layout_topo' = page_layout_topo
         /\ \A p \in Inserters : (Inserting(p)' <=> Inserting(p)) /\ ins'[p] = ins[p]
         /\ \A i : PageOfId(i)' = PageOfId(i)
<1>1. /\ Placed' = Placed /\ (TablesAgree => TablesAgree') /\ \A pid : Unused(pid)' = Unused(pid)
      /\ page_layout_topo' = page_layout_topo /\ id2loc_topo_' = id2loc_topo_
  BY SameTables DEF tableVars
<1>2. \A p \in Inserters : /\ Inserting(p)' <=> Inserting(p) /\ ins'[p] = ins[p]
                           /\ Reserving(p)' <=> Reserving(p)
  BY DEF Inserting, Reserving
<1>3. TagsPlaced => TagsPlaced'
  BY <1>1, <1>2 DEF TagsPlaced
<1>4. PagesKept => PagesKept'
  BY <1>1, <1>2, SameSets DEF PagesKept, Queued, InReserve, pageVars
<1> QED BY <1>1, <1>2, <1>3, <1>4 DEF PageOfId, PageOf

(* What is said of the calls, too.                                         *)
LEMMA SameCalls ==
  ASSUME UNCHANGED <<tableVars, pageVars, cur_id, tags, medoid, ins, topo>>, CallsOK, ListsKept,
         \A p \in Inserters : Inserting(p) => merge' = "idle"
  PROVE  CallsOK' /\ ListsKept'
<1>1. /\ Placed' = Placed /\ page_layout_topo' = page_layout_topo /\ cur_id' = cur_id /\ topo' = topo
      /\ \A p \in Inserters : (Inserting(p)' <=> Inserting(p)) /\ ins'[p] = ins[p]
      /\ \A i : PageOfId(i)' = PageOfId(i)
  BY SameIndex
<1>2. CallsOK'
  <2>1. \A p \in Inserters : DOMAIN ins'[p].buf = {PageOfId(i)' : i \in ins'[p].new_nhood}
                           <=> DOMAIN ins[p].buf = {PageOfId(i) : i \in ins[p].new_nhood}
    BY <1>1
  <2> QED BY <1>1, <2>1, SameSets DEF CallsOK
<1>3. \A p \in Inserters : PageOf(id2loc_topo_'[ins'[p].target]) = PageOf(id2loc_topo_[ins[p].target])
  BY DEF tableVars
<1>4. ListsKept'
  BY <1>1, <1>3, SameSets DEF ListsKept, ListsIn, PageOfId, PageOf, Invalid
<1> QED BY <1>2, <1>4

(* A point is marked; it stays placed.                                     *)
LEMMA LazyDeleteStep ==
  ASSUME IInv, NEW i \in Ids, LazyDelete(i)
  PROVE  IInv'
<1>1. /\ deletion_sets' = [deletion_sets EXCEPT ![active_delete_set] = @ \cup {i}]
      /\ UNCHANGED <<tableVars, pageVars, active_delete_set, mergeVars, topo, cur_id, tags,
                     medoid, ins>>
  BY DEF LazyDelete
<1>2. TypeOK'
  <2>1. deletion_sets' \in [Sides -> SUBSET Ids]
    BY <1>1 DEF IInv, TypeOK
  <2>2. CallsTyped'
    BY <1>1, SameSets DEF IInv, TypeOK, CallsTyped, IsCall, ArePages, IsIdLists, Invalid
  <2> QED BY <1>1, <2>1, <2>2, SameSets
          DEF IInv, TypeOK, CallsTyped, IsIdLists, tableVars, pageVars, mergeVars, Invalid
<1>3. TablesAgree' /\ TagsPlaced' /\ PagesKept'
  BY <1>1, SameIndex DEF IInv
<1>4. CallsOK' /\ ListsKept'
  <2>1. \A p \in Inserters : Inserting(p) => merge' = "idle"
    BY <1>1 DEF IInv, CallsOK, mergeVars
  <2> QED BY <1>1, <2>1, SameCalls DEF IInv
<1>5. /\ Merged' = Merged
      /\ deletion_sets'[active_delete_set'] = deletion_sets[active_delete_set] \cup {i}
  <2>1. /\ 1 - active_delete_set # active_delete_set /\ 1 - active_delete_set \in Sides
        /\ active_delete_set \in Sides
    BY DEF IInv, TypeOK, Sides
  <2> QED BY <1>1, <2>1 DEF IInv, TypeOK, Merged
<1>6. DeletionOK'
  BY <1>1, <1>5, SameTables, SameSets DEF IInv, DeletionOK, mergeVars
<1>7. DeletedPlaced'
  <2>1. i \in Placed /\ i \notin Merged
    <3>1. 1 - active_delete_set \in Sides
      BY DEF IInv, TypeOK, Sides
    <3> QED BY <3>1 DEF LazyDelete, Merged
  <2>2. Placed' = Placed /\ merge' = merge
    BY <1>1, SameTables DEF mergeVars
  <2> QED BY <1>5, <2>1, <2>2 DEF IInv, DeletedPlaced
<1> QED BY <1>2, <1>3, <1>4, <1>6, <1>7 DEF IInv

(* The two sets of deleted points change their roles.                      *)
LEMMA SaveDelSetStep ==
  ASSUME IInv, SaveDelSet
  PROVE  IInv'
<1>1. /\ \A p \in Inserters : ~Inserting(p)
      /\ deletion_sets' = [deletion_sets EXCEPT ![1 - active_delete_set] = {}]
      /\ active_delete_set' = 1 - active_delete_set /\ merge' = "populate"
      /\ UNCHANGED <<tableVars, pageVars, deleted_nhoods, topo, cur_id, tags, medoid, ins>>
  BY DEF SaveDelSet, Inserting
<1>2. TypeOK'
  <2>1. deletion_sets' \in [Sides -> SUBSET Ids] /\ active_delete_set' \in Sides
    BY <1>1 DEF IInv, TypeOK, Sides
  <2>2. CallsTyped'
    BY <1>1, SameSets DEF IInv, TypeOK, CallsTyped, IsCall, ArePages, IsIdLists, Invalid
  <2> QED BY <1>1, <2>1, <2>2, SameSets
          DEF IInv, TypeOK, CallsTyped, IsIdLists, tableVars, pageVars, Invalid
<1>3. TablesAgree' /\ TagsPlaced' /\ PagesKept'
  BY <1>1, SameIndex DEF IInv
<1>4. CallsOK' /\ ListsKept'
  BY <1>1, SameCalls DEF IInv
<1>5. DeletionOK'
  BY <1>1 DEF DeletionOK
<1>6. DeletedPlaced'
  <2>1. /\ 1 - active_delete_set # active_delete_set /\ 1 - active_delete_set \in Sides
        /\ 1 - (1 - active_delete_set) = active_delete_set /\ active_delete_set \in Sides
    BY DEF IInv, TypeOK, Sides
  <2>2. Merged' = deletion_sets[active_delete_set] /\ deletion_sets'[active_delete_set'] = {}
    BY <1>1, <2>1 DEF IInv, TypeOK, Merged
  <2>3. Placed' = Placed
    BY <1>1, SameTables
  <2> QED BY <2>2, <2>3 DEF IInv, DeletedPlaced
<1> QED BY <1>2, <1>3, <1>4, <1>5, <1>6 DEF IInv

(* With no call in work, the lists are those of the file.                  *)
LEMMA QuietLists ==
  ASSUME IInv, merge # "idle"
  PROVE  /\ Placement /\ \A p \in Inserters : ~Inserting(p) /\ ~Reserving(p)
         /\ \A i \in Placed : Record(i) \subseteq Placed
         /\ tags \subseteq Placed
<1>1. Placement
  BY PlaceFacts DEF IInv
<1>2. \A p \in Inserters : ~Inserting(p) /\ ~Reserving(p)
  BY DEF IInv, CallsOK, Inserting, Reserving
<1>3. \A i \in Placed : Record(i) \subseteq Placed
  BY <1>1, <1>2 DEF IInv, ListsKept, Placement, Record
<1>4. tags \subseteq Placed
  BY <1>2 DEF IInv, TagsPlaced
<1> QED BY <1>1, <1>2, <1>3, <1>4

(* The neighbours of a deleted point that stay are placed.                 *)
LEMMA PopulateStep ==
  ASSUME IInv, Populate
  PROVE  IInv'
<1> DEFINE deleted == Placed \cap Merged
<1>1. /\ merge = "populate" /\ merge' = "prune"
      /\ UNCHANGED <<tableVars, pageVars, deleteVars, topo, cur_id, tags, medoid, ins>>
  BY DEF Populate
<1>2. /\ DOMAIN deleted_nhoods' = deleted /\ deleted_nhoods' = [d \in deleted |-> deleted_nhoods'[d]]
      /\ \A d \in deleted : deleted_nhoods'[d] \subseteq Record(d) \ Merged
  BY DEF Populate
<1>3. /\ Placement /\ \A p \in Inserters : ~Inserting(p)
      /\ \A i \in Placed : Record(i) \subseteq Placed
  BY <1>1, QuietLists
<1>4. \A d \in deleted : deleted_nhoods'[d] \subseteq Placed \ Merged
  BY <1>2, <1>3
<1>5. Placed \subseteq Ids
  BY <1>3 DEF Placement
<1>6. TypeOK'
  <2>1. IsIdLists(deleted_nhoods)'
    <3> HIDE DEF deleted
    <3>1. deleted \subseteq Ids
      BY <1>5 DEF deleted
    <3>2. \A d \in deleted : deleted_nhoods'[d] \in SUBSET Ids
      BY <1>4, <1>5
    <3>3. deleted_nhoods' \in [deleted -> SUBSET Ids]
      BY <1>2, <3>2
    <3> QED BY <1>2, <3>1, <3>3, SameSets DEF IsIdLists
  <2>2. CallsTyped'
    BY <1>1, SameSets DEF IInv, TypeOK, CallsTyped, IsCall, ArePages, IsIdLists, Invalid
  <2> QED BY <1>1, <2>1, <2>2, SameSets
          DEF IInv, TypeOK, CallsTyped, tableVars, pageVars, deleteVars, Invalid
<1>7. TablesAgree' /\ TagsPlaced' /\ PagesKept'
  BY <1>1, SameIndex DEF IInv
<1>8. CallsOK' /\ ListsKept'
  BY <1>1, <1>3, SameCalls DEF IInv
<1>9. DeletionOK'
  <2>1. Merged' = Merged /\ Placed' = Placed
    BY <1>1, SameTables DEF Merged, deleteVars
  <2> QED BY <1>1, <1>2, <1>4, <2>1 DEF DeletionOK
<1>10. DeletedPlaced'
  BY <1>1, SameTables DEF IInv, DeletedPlaced, Merged, deleteVars
<1> QED BY <1>6, <1>7, <1>8, <1>9, <1>10 DEF IInv

(* After the pruning no list names a deleted point.                        *)
LEMMA PruneStep ==
  ASSUME IInv, Prune
  PROVE  IInv'
<1> DEFINE left == Placed \ Merged
           changed == {i \in left : Record(i) \cap Merged # {}}
           long == {i \in changed : Cardinality(Candidates(i)) > range}
<1>1. /\ merge = "prune" /\ merge' = "erase"
      /\ UNCHANGED <<tableVars, pageVars, deleteVars, deleted_nhoods, cur_id, tags, medoid, ins>>
  BY DEF Prune
<1>2. /\ Placement /\ \A p \in Inserters : ~Inserting(p) /\ ~Reserving(p)
      /\ \A i \in Placed : Record(i) \subseteq Placed
      /\ tags \subseteq Placed
  BY <1>1, QuietLists
<1>3. /\ DOMAIN deleted_nhoods = Placed \cap Merged
      /\ \A d \in DOMAIN deleted_nhoods : deleted_nhoods[d] \subseteq left
  BY <1>1 DEF IInv, DeletionOK
<1>4. \A i \in Placed : Candidates(i) \subseteq left
  BY <1>2, <1>3 DEF Candidates
<1>5. PICK pruned :
        /\ \A i \in long : pruned[i] \subseteq Candidates(i)
        /\ LET List(i) == CASE i \in Merged -> {}
                           [] i \in long -> pruned[i]
                           [] i \in changed -> Candidates(i)
                           [] OTHER -> Record(i)
               Written(pid, s) == IF page_layout_topo[pid][s] = Invalid THEN topo[pid][s]
                                  ELSE List(page_layout_topo[pid][s])
           IN  topo' = [pid \in Pages |-> [s \in Slots |-> Written(pid, s)]]
  BY DEF Prune
<1> DEFINE List(i) == CASE i \in Merged -> {}
                       [] i \in long -> pruned[i]
                       [] i \in changed -> Candidates(i)
                       [] OTHER -> Record(i)
           Pruned(pid, s) == IF page_layout_topo[pid][s] = Invalid THEN topo[pid][s]
                             ELSE List(page_layout_topo[pid][s])
<1>6. \A i \in Placed : List(i) \subseteq left
  <2> SUFFICES ASSUME NEW i \in Placed PROVE List(i) \subseteq left
    OBVIOUS
  <2>1. CASE i \in Merged
    <3>1. i \notin long /\ i \notin changed
      BY <2>1
    <3>2. List(i) = {}
      BY <2>1, <3>1
    <3> QED BY <3>2
  <2>2. CASE i \in long
    <3>1. i \notin Merged /\ pruned[i] \subseteq Candidates(i)
      BY <1>5, <2>2
    <3> HIDE DEF changed, long, left
    <3>2. List(i) = pruned[i] \/ List(i) = Candidates(i)
      BY <2>2, <3>1
    <3> HIDE DEF List
    <3> QED BY <1>4, <3>1, <3>2
  <2>3. CASE i \in changed /\ i \notin long
    <3>1. i \notin Merged
      BY <2>3
    <3> HIDE DEF changed, long, left
    <3>2. List(i) = Candidates(i)
      BY <2>3, <3>1
    <3> HIDE DEF List
    <3> QED BY <1>4, <3>2
  <2>4. CASE i \notin Merged /\ i \notin changed
    <3>1. i \notin long /\ Record(i) \subseteq left
      BY <1>2, <2>4
    <3> HIDE DEF changed, long, left
    <3>2. List(i) = Record(i)
      BY <2>4, <3>1
    <3> HIDE DEF List
    <3> QED BY <3>1, <3>2
  <2> HIDE DEF List
  <2>5. i \in long => i \in changed
    OBVIOUS
  <2> QED BY <2>1, <2>2, <2>3, <2>4, <2>5
<1> HIDE DEF List, changed, long
<1>7. /\ topo' \in [Pages -> [Slots -> SUBSET Ids]]
      /\ \A pid \in Pages, s \in Slots : page_layout_topo[pid][s] # Invalid => topo'[pid][s] \subseteq left
  <2>1. topo' = [pid \in Pages |-> [s \in Slots |-> Pruned(pid, s)]]
    BY <1>5 DEF List
  <2>2. ASSUME NEW pid \in Pages, NEW s \in Slots
        PROVE  /\ Pruned(pid, s) \in SUBSET Ids
               /\ page_layout_topo[pid][s] # Invalid => Pruned(pid, s) \subseteq left
    <3>1. CASE page_layout_topo[pid][s] = Invalid
      BY <3>1 DEF IInv, TypeOK
    <3>2. CASE page_layout_topo[pid][s] # Invalid
      <4>1. page_layout_topo[pid][s] \in Placed /\ left \subseteq Ids
        BY <1>2, <3>2 DEF Placement
      <4>2. Pruned(pid, s) = List(page_layout_topo[pid][s])
        BY <3>2
      <4> HIDE DEF left, Pruned
      <4> QED BY <1>6, <4>1, <4>2
    <3> QED BY <3>1, <3>2
  <2> HIDE DEF Pruned, left
  <2> QED BY <2>1, <2>2
<1>8. TypeOK'
  <2>1. CallsTyped' /\ IsIdLists(deleted_nhoods)'
    BY <1>1, SameSets DEF IInv, TypeOK, CallsTyped, IsCall, ArePages, IsIdLists, Invalid
  <2> QED BY <1>1, <1>7, <2>1, SameSets
          DEF IInv, TypeOK, CallsTyped, tableVars, pageVars, deleteVars, Invalid
<1>9. TablesAgree' /\ TagsPlaced' /\ PagesKept'
  BY <1>1, SameIndex DEF IInv
<1>10. /\ Placed' = Placed /\ Merged' = Merged /\ page_layout_topo' = page_layout_topo
       /\ \A p \in Inserters : ~Inserting(p)' /\ ins'[p] = ins[p] /\ ins'[p].at = "idle"
  BY <1>1, <1>2, SameIndex DEF Merged, deleteVars, Inserting
<1>11. CallsOK' /\ ListsKept'
  <2>1. CallsOK'
    BY <1>1, <1>10 DEF IInv, CallsOK
  <2>2. ListsKept'
    BY <1>7, <1>10, SameSets DEF ListsKept, Invalid
  <2> QED BY <2>1, <2>2
<1>12. DeletionOK'
  BY <1>1, <1>3, <1>7, <1>10, SameSets DEF DeletionOK, ListsIn, Invalid
<1>13. DeletedPlaced'
  BY <1>1, <1>10 DEF IInv, DeletedPlaced, deleteVars
<1> QED BY <1>8, <1>9, <1>11, <1>12, <1>13 DEF IInv

-----------------------------------------------------------------------------
(* The deleted ids leave the tables.                                       *)

(* What is left, and which pages are empty by it.                          *)
LEMMA LayoutLeftIs ==
  ASSUME TypeOK, TablesAgree, DOMAIN deleted_nhoods = Placed \cap Merged
  PROVE  /\ LayoutLeft \in [Pages -> [Slots -> Ids \cup {Invalid}]]
         /\ \A pid \in Pages, s \in Slots :
              LayoutLeft[pid][s] =
                IF page_layout_topo[pid][s] \in Merged THEN Invalid ELSE page_layout_topo[pid][s]
         /\ IsFiniteSet(Emptied) /\ Emptied \subseteq Pages
         /\ \A pid \in Pages : pid \in Emptied <=> ~Unused(pid) /\ LayoutLeft[pid] = EmptyLayout
<1>1. Placement /\ \A d \in Sides : Merged \subseteq Ids
  BY PlaceFacts DEF TypeOK, Merged, Sides
<1>2. /\ page_layout_topo \in [Pages -> [Slots -> Ids \cup {Invalid}]]
      /\ Merged \subseteq Ids /\ Invalid \notin Merged
  <2>1. 1 - active_delete_set \in Sides
    BY DEF TypeOK, Sides
  <2>2. Merged \subseteq Ids
    BY <2>1 DEF TypeOK, Merged
  <2> QED BY <2>2, SetFacts DEF TypeOK
<1>3. ASSUME NEW pid \in Pages, NEW s \in Slots
      PROVE  Loc(pid, s) \in ErasedLocs <=> page_layout_topo[pid][s] \in Merged
  <2>1. ASSUME Loc(pid, s) \in ErasedLocs
        PROVE  page_layout_topo[pid][s] \in Merged
    <3>1. PICK i \in Placed \cap Merged : id2loc_topo_[i] = Loc(pid, s)
      BY <2>1 DEF ErasedLocs
    <3>2. PageOfId(i) = pid /\ SlotOfId(i) = s
      BY <3>1, LocFacts DEF PageOfId, SlotOfId
    <3> QED BY <1>1, <3>1, <3>2 DEF Placement
  <2>2. ASSUME page_layout_topo[pid][s] \in Merged
        PROVE  Loc(pid, s) \in ErasedLocs
    <3>1. page_layout_topo[pid][s] # Invalid
      BY <1>2, <2>2
    <3>2. page_layout_topo[pid][s] \in Placed \cap Merged
      BY <1>1, <2>2, <3>1 DEF Placement
    <3> QED BY <3>1, <3>2 DEF ErasedLocs, TablesAgree
  <2> QED BY <2>1, <2>2
<1>4. \A pid \in Pages, s \in Slots :
        LayoutLeft[pid][s] =
          IF page_layout_topo[pid][s] \in Merged THEN Invalid ELSE page_layout_topo[pid][s]
  BY <1>3 DEF LayoutLeft
<1>5. LayoutLeft \in [Pages -> [Slots -> Ids \cup {Invalid}]]
  <2>1. \A pid \in Pages, s \in Slots : LayoutLeft[pid][s] \in Ids \cup {Invalid}
    BY <1>2, <1>4
  <2>2. LayoutLeft = [pid \in Pages |-> [s \in Slots |-> LayoutLeft[pid][s]]]
    BY DEF LayoutLeft
  <2> QED BY <2>1, <2>2
<1>6. Emptied \subseteq Pages
  BY <1>1 DEF Emptied, ErasedLocs, Placement, PageOfId
<1>7. IsFiniteSet(Emptied)
  <2>1. MaxPages - 1 \in Int /\ 0 \in Int
    BY TopoInsertAssumption
  <2>2. IsFiniteSet(Pages)
    BY <2>1, FS_Interval DEF Pages
  <2> QED BY <1>6, <2>2, FS_Subset
<1>8. ASSUME NEW pid \in Pages
      PROVE  pid \in Emptied <=> ~Unused(pid) /\ LayoutLeft[pid] = EmptyLayout
  <2>1. ASSUME pid \in Emptied
        PROVE  ~Unused(pid) /\ LayoutLeft[pid] = EmptyLayout
    <3>1. PICK i \in Placed \cap Merged : PageOfId(i) = pid
      BY <2>1 DEF Emptied, ErasedLocs, PageOfId
    <3>2. SlotOfId(i) \in Slots /\ page_layout_topo[pid][SlotOfId(i)] = i /\ i # Invalid
      BY <1>1, <3>1 DEF Placement
    <3> QED BY <2>1, <3>2 DEF Emptied, Unused, EmptyLayout
  <2>2. ASSUME ~Unused(pid), LayoutLeft[pid] = EmptyLayout
        PROVE  pid \in Emptied
    <3>1. PICK s \in Slots : page_layout_topo[pid][s] # Invalid
      <4>1. page_layout_topo[pid] = [s \in Slots |-> page_layout_topo[pid][s]]
        BY <1>2
      <4> QED BY <2>2, <4>1 DEF Unused, EmptyLayout
    <3>2. page_layout_topo[pid][s] \in Merged
      <4>1. LayoutLeft[pid][s] = Invalid
        BY <2>2 DEF EmptyLayout
      <4> QED BY <1>4, <3>1, <4>1
    <3>3. Loc(pid, s) \in ErasedLocs
      BY <1>3, <3>2
    <3>4. PageOf(Loc(pid, s)) = pid
      BY LocFacts
    <3> QED BY <2>2, <3>3, <3>4 DEF Emptied
  <2> QED BY <2>1, <2>2
<1> QED BY <1>4, <1>5, <1>6, <1>7, <1>8

(* The deleted points lose their places, and no list names them.           *)
LEMMA EraseStep ==
  ASSUME IInv, Erase
  PROVE  IInv'
<1> DEFINE left == Placed \ Merged
           e == empty_pages_topo
<1>1. PICK order \in SetToSeqs(Emptied) : e' = e \o order
  <2>1. \E order \in SetToSeqs(Emptied) : empty_pages_topo' = empty_pages_topo \o order
    BY DEF Erase
  <2> QED BY <2>1
<1>2. /\ merge = "erase" /\ merge' = "idle" /\ deleted_nhoods' = <<>>
      /\ medoid' = medoid \/ (medoid \in Merged /\ medoid' \in deleted_nhoods[medoid])
      /\ page_layout_topo' = LayoutLeft /\ tags' = tags \ DOMAIN deleted_nhoods
      /\ UNCHANGED <<id2loc_topo_, cur_page, deleteVars, topo, cur_id, ins>>
  BY DEF Erase
<1>3. /\ Placement /\ \A p \in Inserters : ~Inserting(p) /\ ~Reserving(p)
      /\ tags \subseteq Placed
  BY <1>2, QuietLists
<1>4. /\ DOMAIN deleted_nhoods = Placed \cap Merged
      /\ \A pid \in Pages, s \in Slots : page_layout_topo[pid][s] # Invalid => topo[pid][s] \subseteq left
  BY <1>2 DEF IInv, DeletionOK, ListsIn
<1>5. /\ page_layout_topo' \in [Pages -> [Slots -> Ids \cup {Invalid}]]
      /\ \A pid \in Pages, s \in Slots :
           page_layout_topo'[pid][s] =
             IF page_layout_topo[pid][s] \in Merged THEN Invalid ELSE page_layout_topo[pid][s]
      /\ IsFiniteSet(Emptied) /\ Emptied \subseteq Pages
      /\ \A pid \in Pages : pid \in Emptied <=> ~Unused(pid) /\ page_layout_topo'[pid] = EmptyLayout
  BY <1>2, <1>4, LayoutLeftIs DEF IInv
<1>6. Placed' = left
  <2>1. \A i : i \in Placed' <=> \E pid \in Pages, s \in Slots : i = page_layout_topo'[pid][s] /\ i # Invalid
    BY PlacedNext
  <2>2. \A i : i \in Placed <=> \E pid \in Pages, s \in Slots : i = page_layout_topo[pid][s] /\ i # Invalid
    BY PlacedIs
  <2>3. \A i \in Placed' : i \in left
    BY <1>5, <2>1, <2>2
  <2>4. \A i \in left : i \in Placed'
    BY <1>5, <2>1, <2>2
  <2> QED BY <2>3, <2>4
<1>7. TablesAgree'
  BY <1>2, <1>5, SameSets DEF IInv, TablesAgree, Loc, Invalid
<1>8. TagsPlaced'
  BY <1>2, <1>3, <1>4, <1>6 DEF TagsPlaced
<1>9. \A p \in Inserters : ~Inserting(p)' /\ ~Reserving(p)' /\ ins'[p] = ins[p] /\ ins'[p].at = "idle"
  BY <1>2, <1>3 DEF Inserting, Reserving
<1>10. /\ e \in Seq(Pages) /\ Len(e) \in Nat /\ DOMAIN e = 1 .. Len(e)
       /\ \A j, k \in 1 .. Len(e) : e[j] = e[k] => j = k
       /\ \A q \in Pages : Queued(q) <=> \E k \in 1 .. Len(e) : e[k] = q
       /\ \A k \in 1 .. Len(e) : e[k] \in Pages /\ Unused(e[k])
  <2>1. e \in Seq(Pages)
    BY DEF IInv, TypeOK
  <2>2. Len(e) \in Nat /\ DOMAIN e = 1 .. Len(e) /\ \A k \in 1 .. Len(e) : e[k] \in Pages
    BY <2>1
  <2>3. \A q \in Pages : Queued(q) <=> \E k \in 1 .. Len(e) : e[k] = q
    BY <2>2 DEF Queued
  <2>4. \A q \in Pages : Queued(q) => Unused(q)
    BY DEF IInv, PagesKept
  <2>5. \A j, k \in 1 .. Len(e) : e[j] = e[k] => j = k
    BY <2>2 DEF IInv, PagesKept
  <2> QED BY <2>1, <2>2, <2>3, <2>4, <2>5
<1> DEFINE n == Cardinality(Emptied)
<1>11. /\ n \in Nat /\ order \in [1 .. n -> Emptied]
       /\ \A j, k \in 1 .. n : order[j] = order[k] => j = k
       /\ \A x \in Emptied : \E k \in 1 .. n : order[k] = x
  BY <1>5, SeqOfSet
<1> HIDE DEF n, e
<1>12. order \in Seq(Pages) /\ Len(order) = n
  <2>1. order \in [1 .. n -> Pages]
    BY <1>5, <1>11
  <2> QED BY <1>11, <2>1
<1> DEFINE m == Len(e)
<1>13. /\ m \in Nat /\ e' \in Seq(Pages) /\ DOMAIN e' = 1 .. m + n
       /\ \A k \in 1 .. m : e'[k] = e[k] /\ k \in 1 .. m + n
       /\ \A k \in 1 .. n : e'[m + k] = order[k] /\ m + k \in 1 .. m + n
  <2>1. e \in Seq(Pages) /\ m \in Nat /\ n \in Nat
    BY <1>10, <1>11
  <2>2. /\ e \o order \in Seq(Pages) /\ DOMAIN (e \o order) = 1 .. Len(e) + Len(order)
        /\ \A k \in 1 .. Len(e) + Len(order) :
             (e \o order)[k] = IF k <= Len(e) THEN e[k] ELSE order[k - Len(e)]
    BY ONLY <1>12, <2>1
  <2>3. /\ \A k \in 1 .. m : k \in 1 .. m + n /\ k <= m
        /\ \A k \in 1 .. n : m + k \in 1 .. m + n /\ ~(m + k <= m) /\ m + k - m = k
    BY ONLY <2>1
  <2> QED BY ONLY <1>1, <1>12, <2>1, <2>2, <2>3
<1>14. \A k \in 1 .. m + n : k \in 1 .. m \/ (k - m \in 1 .. n /\ m + (k - m) = k)
  BY <1>11, <1>13
<1> HIDE DEF m
<1>15. \A j, k \in DOMAIN e' : e'[j] = e'[k] => j = k
  <2>1. \A j \in 1 .. m, k \in 1 .. n : e[j] # order[k]
    BY <1>5, <1>10, <1>11 DEF m
  <2> SUFFICES ASSUME NEW j \in 1 .. m + n, NEW k \in 1 .. m + n, e'[j] = e'[k]
               PROVE  j = k
    BY <1>13
  <2>2. CASE j \in 1 .. m /\ k \in 1 .. m
    BY <1>10, <1>13, <2>2 DEF m
  <2>3. CASE j \in 1 .. m /\ k \notin 1 .. m
    <3>1. e'[j] = e[j] /\ k - m \in 1 .. n /\ e'[k] = order[k - m]
      BY <1>13, <1>14, <2>3
    <3> QED BY <2>1, <2>3, <3>1
  <2>4. CASE j \notin 1 .. m /\ k \in 1 .. m
    <3>1. e'[k] = e[k] /\ j - m \in 1 .. n /\ e'[j] = order[j - m]
      BY <1>13, <1>14, <2>4
    <3> QED BY <2>1, <2>4, <3>1
  <2>5. CASE j \notin 1 .. m /\ k \notin 1 .. m
    <3>1. /\ k - m \in 1 .. n /\ e'[k] = order[k - m] /\ m + (k - m) = k
          /\ j - m \in 1 .. n /\ e'[j] = order[j - m] /\ m + (j - m) = j
      BY <1>13, <1>14, <2>5
    <3>2. k - m = j - m
      BY <1>11, <3>1
    <3> QED BY <3>1, <3>2
  <2> QED BY <2>2, <2>3, <2>4, <2>5
<1>16. \A q \in Pages : Queued(q)' <=> Queued(q) \/ q \in Emptied
  <2> SUFFICES ASSUME NEW q \in Pages
               PROVE  (\E k \in 1 .. m + n : e'[k] = q) <=> (\E k \in 1 .. m : e[k] = q) \/ q \in Emptied
    BY <1>10, <1>13 DEF Queued, e, m
  <2>1. ASSUME NEW k \in 1 .. m + n, e'[k] = q
        PROVE  (\E j \in 1 .. m : e[j] = q) \/ q \in Emptied
    <3>1. CASE k \in 1 .. m
      BY <1>13, <2>1, <3>1
    <3>2. CASE k - m \in 1 .. n /\ m + (k - m) = k
      <4>1. order[k - m] = q /\ order[k - m] \in Emptied
        BY <1>11, <1>13, <2>1, <3>2
      <4> QED BY <4>1
    <3> QED BY <1>14, <3>1, <3>2
  <2>2. ASSUME NEW k \in 1 .. m, e[k] = q
        PROVE  \E j \in 1 .. m + n : e'[j] = q
    BY <1>13, <2>2
  <2>3. ASSUME q \in Emptied
        PROVE  \E j \in 1 .. m + n : e'[j] = q
    <3>1. PICK k \in 1 .. n : order[k] = q
      BY <1>11, <2>3
    <3> QED BY <1>13, <3>1
  <2> QED BY <2>1, <2>2, <2>3
<1>17. TypeOK'
  <2>1. medoid' \in Ids
    <3>1. medoid \in Ids
      BY DEF IInv, TypeOK
    <3>2. CASE medoid \in Merged /\ medoid' \in deleted_nhoods[medoid]
      <4>1. medoid \in DOMAIN deleted_nhoods
        BY <1>2, <1>4, <3>2 DEF IInv, DeletedPlaced
      <4> QED BY <3>2, <4>1 DEF IInv, TypeOK, IsIdLists
    <3> QED BY <1>2, <3>1, <3>2
  <2>2. CallsTyped'
    BY <1>2, SameSets DEF IInv, TypeOK, CallsTyped, IsCall, ArePages, IsIdLists, Invalid
  <2>3. IsIdLists(<<>>)
    BY DEF IsIdLists
  <2>4. IsIdLists(deleted_nhoods)'
    BY <1>2, <2>3, SameSets DEF IsIdLists
  <2> QED BY <1>2, <1>5, <1>13, <2>1, <2>2, <2>4, SameSets
          DEF IInv, TypeOK, CallsTyped, deleteVars, e, Invalid
<1>18. PagesKept'
  <2>1. \A q \in Pages : Unused(q)' <=> Unused(q) \/ q \in Emptied
    <3> SUFFICES ASSUME NEW q \in Pages
                 PROVE  page_layout_topo'[q] = EmptyLayout <=> Unused(q) \/ q \in Emptied
      BY SameSets DEF Unused
    <3>1. ASSUME Unused(q) PROVE page_layout_topo'[q] = EmptyLayout
      <4>1. \A s \in Slots : page_layout_topo'[q][s] = Invalid
        BY <1>5, <3>1 DEF Unused, EmptyLayout
      <4>2. page_layout_topo'[q] = [s \in Slots |-> page_layout_topo'[q][s]]
        BY <1>5
      <4> QED BY <4>1, <4>2 DEF EmptyLayout
    <3> QED BY <1>5, <3>1
  <2>2. \A q \in Pages : ~InReserve(q)' /\ ~InReserve(q)
    BY <1>3, <1>9 DEF InReserve
  <2>3. \A q \in Emptied : q < cur_page
    <3> SUFFICES ASSUME NEW q \in Emptied PROVE q < cur_page
      OBVIOUS
    <3>1. q \in Pages /\ ~Unused(q) /\ q \in Int /\ cur_page \in Int
      BY <1>5, SetFacts DEF IInv, TypeOK
    <3>2. ~(q >= cur_page)
      BY <3>1 DEF IInv, PagesKept
    <3> QED BY <3>1, <3>2
  <2>4. cur_page' = cur_page
    BY <1>2
  <2>5. /\ \A q \in Pages : q >= cur_page' => Unused(q)'
        /\ \A q \in Pages : Queued(q)' => q < cur_page' /\ Unused(q)' /\ ~InReserve(q)'
        /\ \A q \in Pages : q < cur_page' /\ Unused(q)' => Queued(q)' \/ InReserve(q)'
    BY <1>16, <2>1, <2>2, <2>3, <2>4 DEF IInv, PagesKept
  <2> QED BY <1>9, <1>15, <2>5, SameSets DEF PagesKept, e
<1>19. CallsOK' /\ ListsKept'
  <2>1. CallsOK'
    BY <1>2, <1>6, <1>9 DEF IInv, CallsOK
  <2>2. \A pid \in Pages, s \in Slots : page_layout_topo'[pid][s] # Invalid => topo'[pid][s] \subseteq Placed'
    <3>1. Invalid \notin Ids /\ topo' = topo
      BY <1>2, SetFacts
    <3> QED BY <1>4, <1>5, <1>6, <3>1
  <2>3. ListsKept'
    BY <1>9, <2>2, SameSets DEF ListsKept, Invalid
  <2> QED BY <2>1, <2>3
<1>20. DeletionOK'
  BY <1>2 DEF DeletionOK
<1>21. DeletedPlaced'
  <2>1. Merged' = Merged
    BY <1>2 DEF Merged, deleteVars
  <2> QED BY <1>2, <1>6, <2>1 DEF IInv, DeletedPlaced, deleteVars
<1> QED BY <1>7, <1>8, <1>17, <1>18, <1>19, <1>20, <1>21 DEF IInv

-----------------------------------------------------------------------------
(* What follows for one insertion at a time.                               *)

(* A step that changes nothing.                                            *)
LEMMA StutterStep == IInv /\ UNCHANGED vars => IInv'
<1> SUFFICES ASSUME IInv, UNCHANGED vars PROVE IInv'
  OBVIOUS
<1>1. UNCHANGED <<tableVars, pageVars, deleteVars, mergeVars, topo, cur_id, tags, medoid, ins>>
  BY DEF vars
<1>2. TypeOK'
  <2>1. CallsTyped'
    BY <1>1, SameSets DEF IInv, TypeOK, CallsTyped, IsCall, ArePages, IsIdLists, Invalid
  <2> QED BY <1>1, <2>1, TypeNext DEF IInv, TypeOK, tableVars, pageVars
<1>3. TablesAgree' /\ TagsPlaced' /\ PagesKept'
  BY <1>1, SameIndex DEF IInv
<1>4. CallsOK' /\ ListsKept'
  <2>1. \A p \in Inserters : Inserting(p) => merge' = "idle"
    BY <1>1 DEF IInv, CallsOK, mergeVars
  <2> QED BY <1>1, <2>1, SameCalls DEF IInv
<1>5. Placed' = Placed /\ Merged' = Merged
  BY <1>1, SameTables DEF Merged, deleteVars
<1>6. DeletionOK' /\ DeletedPlaced'
  BY <1>1, <1>5, SameTables, SameSets DEF IInv, DeletionOK, DeletedPlaced, mergeVars, deleteVars
<1> QED BY <1>2, <1>3, <1>4, <1>6 DEF IInv

(* Every step preserves the invariant.                                     *)
LEMMA StepInv == OneInsertion /\ IInv /\ [Next]_vars => IInv'
<1> SUFFICES ASSUME OneInsertion, IInv, [Next]_vars PROVE IInv'
  OBVIOUS
<1>1. ASSUME NEW p \in Inserters, Search(p) PROVE IInv'
  BY <1>1, SearchStep
<1>2. ASSUME NEW p \in Inserters, AllocPage(p) PROVE IInv'
  BY <1>2, AllocPageStep
<1>3. ASSUME NEW p \in Inserters, UpdateNeighbours(p) PROVE IInv'
  BY <1>3, UpdateNeighboursStep
<1>4. ASSUME NEW p \in Inserters, Place(p) PROVE IInv'
  BY <1>4, PlaceStep
<1>5. ASSUME NEW p \in Inserters, Split(p) PROVE IInv'
  BY <1>5, SplitStep
<1>6. ASSUME NEW p \in Inserters, WritePages(p) PROVE IInv'
  BY <1>6, WritePagesStep
<1>7. ASSUME NEW i \in Ids, LazyDelete(i) PROVE IInv'
  BY <1>7, LazyDeleteStep
<1>8. CASE SaveDelSet
  BY <1>8, SaveDelSetStep
<1>9. CASE Populate
  BY <1>9, PopulateStep
<1>10. CASE Prune
  BY <1>10, PruneStep
<1>11. CASE Erase
  BY <1>11, EraseStep
<1>12. CASE UNCHANGED vars
  BY <1>12, StutterStep
<1> QED BY <1>1, <1>2, <1>3, <1>4, <1>5, <1>6, <1>7, <1>8, <1>9, <1>10, <1>11, <1>12 DEF Next

(* With one insertion at a time, the inductive invariant holds in every    *)
(* state: the tables, the queue of empty pages, the lists and what a call  *)
(* of insert_to_topo_in_place() or trigger_deletion_in_place() has in its  *)
(* buffers belong together.                                                *)
LEMMA IndexInvariant == ASSUME OneInsertion PROVE Spec => []IInv
<1>1. IInv /\ [Next]_vars => IInv'
  BY StepInv
<1> QED BY <1>1, InitInv, PTL DEF Spec

(* The variables have their types: no page, place or id leaves its range,  *)
(* and the entry point stays an id (direct_to_topo_insert.cpp and          *)
(* trigger_deletion.cpp of DGAI).                                          *)
LEMMA OneInsertionTypes == ASSUME OneInsertion PROVE Spec => []TypeOK
<1>1. IInv => TypeOK
  BY DEF IInv
<1> QED BY <1>1, IndexInvariant, PTL

(* The two topology tables stay inverse to one another through placements, *)
(* page splits and the erasure of deleted ids, and a tag has a place       *)
(* (set_loc2id_topo() and id2loc_topo_ in insert_to_topo_in_place(), and   *)
(* erase_loc2id_topo()).                                                   *)
LEMMA OneInsertionLayout == ASSUME OneInsertion PROVE Spec => []LayoutConsistent
<1>1. IInv => LayoutConsistent
  BY DEF IInv, TablesAgree, TagsPlaced, LayoutConsistent
<1> QED BY <1>1, IndexInvariant, PTL

(* No page of the topology file is lost or given out twice: a page before  *)
(* the tail holds ids, or is once in the queue of empty pages, or is in    *)
(* reserve for the split of one insertion (empty_pages_topo).              *)
LEMMA OneInsertionPages == ASSUME OneInsertion PROVE Spec => []PagesAccounted
<1>1. IInv /\ OneInsertion => PagesAccounted
  <2> SUFFICES ASSUME IInv, OneInsertion, NEW pid \in Pages
               PROVE  LET queued == {k \in DOMAIN empty_pages_topo : empty_pages_topo[k] = pid}
                          held == {p \in Inserters : Reserving(p) /\ ins[p].new_topo_pid = pid}
                      IN  Cardinality(queued) + Cardinality(held)
                            = IF pid < cur_page /\ IdsOn(pid) = {} THEN 1 ELSE 0
    BY DEF PagesAccounted
  <2> DEFINE queued == {k \in DOMAIN empty_pages_topo : empty_pages_topo[k] = pid}
             held == {p \in Inserters : Reserving(p) /\ ins[p].new_topo_pid = pid}
  <2>1. IF Queued(pid) THEN \E k : queued = {k} ELSE queued = {}
    BY DEF IInv, PagesKept, Queued
  <2>2. IF InReserve(pid) THEN \E p : held = {p} ELSE held = {}
    BY DEF OneInsertion, InReserve
  <2>3. IdsOn(pid) = {} <=> Unused(pid)
    <3>1. page_layout_topo[pid] = [s \in Slots |-> page_layout_topo[pid][s]]
      BY DEF IInv, TypeOK
    <3>2. IdsOn(pid) = {} <=> \A s \in Slots : page_layout_topo[pid][s] = Invalid
      BY DEF IdsOn
    <3> QED BY <3>1, <3>2 DEF Unused, EmptyLayout
  <2>4. Cardinality({}) = 0 /\ \A x : Cardinality({x}) = 1
    BY FS_EmptySet, FS_Singleton
  <2>5. /\ ~(Queued(pid) /\ InReserve(pid))
        /\ pid < cur_page /\ Unused(pid) <=> Queued(pid) \/ InReserve(pid)
    BY DEF IInv, PagesKept, InReserve
  <2>6. CASE Queued(pid)
    <3>1. Cardinality(queued) = 1 /\ Cardinality(held) = 0
      BY <2>1, <2>2, <2>4, <2>5, <2>6
    <3> QED BY <2>3, <2>5, <2>6, <3>1
  <2>7. CASE InReserve(pid)
    <3>1. Cardinality(queued) = 0 /\ Cardinality(held) = 1
      BY <2>1, <2>2, <2>4, <2>5, <2>7
    <3> QED BY <2>3, <2>5, <2>7, <3>1
  <2>8. CASE ~Queued(pid) /\ ~InReserve(pid)
    <3>1. Cardinality(queued) = 0 /\ Cardinality(held) = 0
      BY <2>1, <2>2, <2>4, <2>8
    <3> QED BY <2>3, <2>5, <2>8, <3>1
  <2> QED BY <2>6, <2>7, <2>8
<1> QED BY <1>1, IndexInvariant, PTL

(* Between deletions no list names an id that is gone, whose place another *)
(* node may take, however the lists were moved by splits in between        *)
(* (trigger_deletion_in_place(), which rewrites the lists in place).       *)
LEMMA OneInsertionLinks == ASSUME OneInsertion PROVE Spec => []NoDeletedLinks
<1>1. IInv => NoDeletedLinks
  <2> SUFFICES ASSUME IInv, NEW i \in Placed \ {ins[p].target : p \in Inserters}
               PROVE  Record(i) \subseteq Placed
    BY DEF NoDeletedLinks
  <2>1. Placement
    BY PlaceFacts DEF IInv
  <2>2. \A p \in Inserters : i # ins[p].target
    OBVIOUS
  <2>3. /\ PageOfId(i) \in Pages /\ SlotOfId(i) \in Slots /\ i # Invalid
        /\ page_layout_topo[PageOfId(i)][SlotOfId(i)] = i
    BY <2>1 DEF Placement
  <2> QED BY <2>2, <2>3 DEF IInv, ListsKept, Record
<1> QED BY <1>1, IndexInvariant, PTL

=============================================================================
