--------------------------- MODULE LocTableProofs ---------------------------
(***************************************************************************)
(* Proofs about LocTable for every number of inserters, page size and      *)
(* index size: its safety properties hold in every reachable state.        *)
(*                                                                         *)
(* IInv is the inductive invariant; one lemma per action shows that the    *)
(* action preserves it.  That no empty page is lost (EmptyPagesQueued) is  *)
(* inductive relative to IInv, and is proved after it by counting slots.   *)
(***************************************************************************)
EXTENDS LocTable, FiniteSetTheorems, TLAPS

-----------------------------------------------------------------------------
(* Arithmetic of pages.                                                    *)

(* A set of numbers has a least one.                                       *)
LEMMA LeastNatural ==
  ASSUME NEW S, S # {}, S \subseteq Nat
  PROVE  \E x \in S : \A y \in S : x <= y
<1> DEFINE R == StrictSubsetOrdering(Nat)
           T == {0 .. x : x \in S}
<1>1. \A x \in Nat : 0 .. x \in FiniteSubsetsOf(Nat)
  BY FS_Interval DEF FiniteSubsetsOf
<1>2. T \subseteq FiniteSubsetsOf(Nat) /\ T # {}
  BY <1>1
<1>3. \E X \in T : \A Y \in T : ~(<<Y, X>> \in R)
  <2> HIDE DEF R, T
  <2> QED BY ONLY <1>2, FS_StrictSubsetOrderingWellFounded, WFMin DEF R
<1>4. PICK x \in S : \A y \in S : ~(<<0 .. y, 0 .. x>> \in R)
  BY <1>3
<1>5. \A y \in S : ~(y < x)
  <2> SUFFICES ASSUME NEW y \in S, y < x PROVE FALSE
    OBVIOUS
  <2>1. /\ 0 .. y \in SUBSET Nat /\ 0 .. x \in SUBSET Nat
        /\ 0 .. y \subseteq 0 .. x /\ x \in 0 .. x /\ x \notin 0 .. y
    OBVIOUS
  <2>2. <<0 .. y, 0 .. x>> \in R
    BY <2>1 DEF StrictSubsetOrdering
  <2> QED BY <1>4, <2>2
<1>6. \A y \in S : x <= y
  BY ONLY <1>5, S \subseteq Nat, x \in S
<1> QED BY <1>6

(* Integer division by a page size.                                        *)
LEMMA DivBounds ==
  ASSUME NEW x \in Nat, NEW n \in Nat \ {0}
  PROVE  /\ x \div n \in Nat
         /\ n * (x \div n) <= x
         /\ x < n * (x \div n) + n
  OBVIOUS

(* Multiplication by a page size keeps the order.                          *)
LEMMA MulMonotone ==
  ASSUME NEW n \in Nat, NEW q \in Nat, NEW r \in Nat, q <= r
  PROVE  n * q <= n * r
  OBVIOUS

(* A later location is not in an earlier page (loc_sector_no()).           *)
LEMMA DivMonotone ==
  ASSUME NEW x \in Nat, NEW y \in Nat, NEW n \in Nat \ {0}, x <= y
  PROVE  x \div n <= y \div n
<1> DEFINE q == x \div n
           r == y \div n
<1>1. q \in Nat /\ r \in Nat /\ n * q <= x /\ y < n * r + n
  BY DivBounds
<1> HIDE DEF q, r
<1>2. ~(r + 1 <= q)
  <2> SUFFICES ASSUME r + 1 <= q PROVE FALSE
    OBVIOUS
  <2>1. n * (r + 1) <= n * q
    BY <1>1, MulMonotone
  <2>2. n * (r + 1) = n * r + n
    BY <1>1
  <2> QED BY <2>1, <2>2, <1>1
<1> QED BY <1>1, <1>2 DEF q, r

(* The padding at the end of alloc_loc() never moves cur_loc back.         *)
LEMMA AlignUpType ==
  ASSUME NEW x \in Nat
  PROVE  /\ AlignUp(x) \in Nat /\ x <= AlignUp(x)
         /\ \E q \in Nat : AlignUp(x) = NodesPerPage * q
  BY DivBounds, LocTableAssumption DEF AlignUp

(* A longer allocation needs at least as much of the file: the bound that  *)
(* alloc_loc() checks for all its slots holds for the fresh ones alone.    *)
LEMMA AlignUpMonotone ==
  ASSUME NEW x \in Nat, NEW y \in Nat, x <= y
  PROVE  AlignUp(x) <= AlignUp(y)
<1> DEFINE N == NodesPerPage
           q == (x + N - 1) \div N
           r == (y + N - 1) \div N
<1>1. N \in Nat \ {0}
  BY LocTableAssumption
<1>2. q \in Nat /\ r \in Nat /\ q <= r
  BY <1>1, DivBounds, DivMonotone
<1>3. AlignUp(x) = N * q /\ AlignUp(y) = N * r
  BY <1>1, <1>2 DEF AlignUp
<1> HIDE DEF N, q, r
<1> QED BY <1>1, <1>2, <1>3, MulMonotone

(* The tail of the file is the end of a page.                              *)
LEMMA PageBelow ==
  ASSUME NEW l \in Nat, NEW m \in Nat, NEW q \in Nat,
         PageOf(l) = PageOf(m), m < NodesPerPage * q
  PROVE  l < NodesPerPage * q
<1> DEFINE N == NodesPerPage
           g == m \div N
<1>1. N \in Nat \ {0}
  BY LocTableAssumption
<1>2. g \in Nat /\ N * g <= m /\ l < N * g + N
  BY <1>1, DivBounds DEF PageOf
<1>3. m < N * q
  OBVIOUS
<1> HIDE DEF N, g
<1>4. ~(q <= g)
  <2> SUFFICES ASSUME q <= g PROVE FALSE
    OBVIOUS
  <2>1. N * q <= N * g
    BY <1>1, <1>2, MulMonotone
  <2> QED BY <1>1, <1>2, <1>3, <2>1
<1>5. N * (g + 1) <= N * q
  BY <1>1, <1>2, <1>4, MulMonotone
<1>6. N * (g + 1) = N * g + N
  BY <1>1, <1>2
<1>7. l < N * q
  BY <1>1, <1>2, <1>5, <1>6
<1> QED BY <1>7 DEF N

(* Step 1 of alloc_loc() pops no more pages than there are.                *)
LEMMA CeilDivBound ==
  ASSUME NEW x \in Nat, NEW len \in Nat, x <= NodesPerPage * len
  PROVE  (x + NodesPerPage - 1) \div NodesPerPage \in 0 .. len
<1> DEFINE N == NodesPerPage
           q == (x + N - 1) \div N
<1>1. N \in Nat \ {0}
  BY LocTableAssumption
<1>2. q \in Nat /\ N * q <= x + N - 1
  BY <1>1, DivBounds
<1>3. ~(len + 1 <= q)
  <2> HIDE DEF N, q
  <2> SUFFICES ASSUME len + 1 <= q PROVE FALSE
    OBVIOUS
  <2>1. N * (len + 1) <= N * q
    BY <1>1, <1>2, MulMonotone
  <2>2. N * (len + 1) = N * len + N
    BY <1>1
  <2>3. x <= N * len
    BY DEF N
  <2>4. N * len \in Nat
    BY <1>1
  <2> QED BY <2>1, <2>2, <2>3, <2>4, <1>1, <1>2
<1> QED BY <1>2, <1>3

(* A page of the file has a first slot, and it is a location.              *)
LEMMA FirstSlot ==
  ASSUME NEW g \in Pages
  PROVE  /\ g \in Nat
         /\ NodesPerPage * g \in Slots(g)
         /\ \A l \in Slots(g) : NodesPerPage * g <= l /\ l < NodesPerPage * g + NodesPerPage
<1> DEFINE N == NodesPerPage
<1>1. N \in Nat \ {0} /\ MaxLoc \in Nat /\ Locs \subseteq Nat
  BY LocTableAssumption DEF Locs
<1>2. PICK l \in Locs : g = l \div N
  BY DEF Pages, PageOf
<1>3. g \in Nat /\ N * g <= l /\ l < N * g + N
  BY <1>1, <1>2, DivBounds
<1> DEFINE f == N * g
           q == f \div N
<1>4. f \in Nat /\ f <= l
  BY <1>1, <1>3
<1>5. q \in Nat /\ N * q <= f /\ f < N * q + N
  BY <1>1, <1>4, DivBounds
<1>6. q = g
  <2> HIDE DEF N, q
  <2>1. ~(g + 1 <= q)
    <3> SUFFICES ASSUME g + 1 <= q PROVE FALSE
      OBVIOUS
    <3>1. N * (g + 1) <= N * q
      BY <1>1, <1>3, <1>5, MulMonotone
    <3>2. N * (g + 1) = N * g + N
      BY <1>1, <1>3
    <3> QED BY <3>1, <3>2, <1>1, <1>4, <1>5
  <2>2. ~(q + 1 <= g)
    <3> SUFFICES ASSUME q + 1 <= g PROVE FALSE
      OBVIOUS
    <3>1. N * (q + 1) <= N * g
      BY <1>1, <1>3, <1>5, MulMonotone
    <3>2. N * (q + 1) = N * q + N
      BY <1>1, <1>5
    <3> QED BY <3>1, <3>2, <1>1, <1>3, <1>4, <1>5
  <2> QED BY <2>1, <2>2, <1>3, <1>5
<1>7. f \in Slots(g)
  BY <1>1, <1>2, <1>4, <1>6 DEF Slots, PageOf, Locs
<1>8. ASSUME NEW m \in Slots(g)
      PROVE  N * g <= m /\ m < N * g + N
  BY <1>1, DivBounds DEF Slots, PageOf
<1> QED BY <1>3, <1>7, <1>8

(* A page that begins before the padded end begins before the records end. *)
LEMMA AlignUpFirst ==
  ASSUME NEW x \in Nat, NEW g \in Nat, NodesPerPage * g < AlignUp(x)
  PROVE  NodesPerPage * g < x
<1> DEFINE N == NodesPerPage
           q == (x + N - 1) \div N
<1>1. N \in Nat \ {0}
  BY LocTableAssumption
<1>2. q \in Nat /\ N * q <= x + N - 1
  BY <1>1, DivBounds
<1>3. N * g < N * q
  BY <1>1, <1>2 DEF AlignUp
<1> HIDE DEF N, q
<1>4. ~(q <= g)
  <2> SUFFICES ASSUME q <= g PROVE FALSE
    OBVIOUS
  <2>1. N * q <= N * g
    BY <1>1, <1>2, MulMonotone
  <2>2. N * q \in Nat /\ N * g \in Nat
    BY <1>1, <1>2
  <2> QED BY <2>1, <2>2, <1>3
<1>5. N * (g + 1) <= N * q
  BY <1>1, <1>2, <1>4, MulMonotone
<1>6. N * (g + 1) = N * g + N
  BY <1>1
<1>7. N * g < x
  <2>1. N * q \in Nat /\ N * g \in Nat
    BY <1>1, <1>2
  <2> QED BY <2>1, <1>1, <1>2, <1>5, <1>6
<1> QED BY <1>7 DEF N

-----------------------------------------------------------------------------
(* The inductive invariant.                                                *)

(* What the local variables of insert_in_place() hold at each place.       *)
LocalsOK ==
  \A p \in Inserters :
    /\ pc[p] = "idle" => target[p] = Invalid
    /\ pc[p] # "idle" => target[p] \in 0 .. cur_id - 1
    /\ target[p] \notin nbrs[p]
    /\ nbrs[p] \subseteq Visible
    /\ Owner(p) => locs[p] \in [MyIds(p) -> Locs]
    /\ pc[p] \in {"lock", "move", "erase"} => id2loc[target[p]] = locs[p][target[p]]

(* cur_id++ gives every insert an id of its own.                           *)
TargetsDistinct ==
  \A p, q \in Inserters : target[p] = target[q] /\ target[p] # Invalid => p = q

(* lock_idx() is exclusive.                                                *)
LocksDisjoint ==
  \A p, q \in Inserters :
    IdxLocked(p) /\ IdxLocked(q) /\ p # q => MyIds(p) \cap MyIds(q) = {}

(* A location names a target only after the commit.                        *)
NamesLinked ==
  \A l \in Locs : loc2id[l] \in Ids =>
    loc2id[l] < cur_id /\ \A p \in Inserters : target[p] # loc2id[l]

(* The file is made of whole pages, with nothing stored behind its tail    *)
(* and no empty page to be reused there.                                   *)
TailFree ==
  /\ \E q \in Nat : cur_loc = NodesPerPage * q
  /\ \A l \in Locs : l >= cur_loc => loc2id[l] = Invalid
  /\ \A k \in 1 .. Len(empty_pages) : \A l \in Slots(empty_pages[k]) : l < cur_loc

(* Between its two steps, a move has the ids at the new locations and the  *)
(* old locations still name the ids.                                       *)
Moving ==
  \A p \in Inserters : pc[p] = "erase" =>
    /\ orig_locs[p] \in [nbrs[p] -> Locs]
    /\ \A i \in nbrs[p] : id2loc[i] = locs[p][i] /\ loc2id[orig_locs[p][i]] = i

IInv ==
  /\ TypeOK
  /\ LocalsOK
  /\ TargetsDistinct
  /\ LocksDisjoint
  /\ NamesLinked
  /\ TailFree
  /\ Moving
  /\ MappingConsistent
  /\ NoDuplicateIds
  /\ AllocationsExclusive
  /\ NoLeakedSlot
  /\ QueuedPagesEmpty

(* The ids in play: what a search may visit has an id and a location.      *)
LEMMA VisibleLocated ==
  ASSUME IInv, NEW i \in Visible
  PROVE  i \in Ids /\ id2loc[i] \in Locs
<1>1. i \in Ids
  BY LocTableAssumption DEF IInv, TypeOK, Visible, Ids
<1>2. CASE i \in Settled
  <2>1. id2loc[i] \in 0 .. cur_loc - 1
    BY <1>2 DEF IInv, MappingConsistent
  <2> QED BY <1>1, <2>1, LocTableAssumption DEF IInv, TypeOK, Locs
<1>3. CASE i \notin Settled
  <2>1. PICK p \in Inserters : pc[p] = "erase" /\ i \in MyIds(p)
    BY <1>3 DEF Settled
  <2>2. locs[p] \in [MyIds(p) -> Locs]
    BY <2>1 DEF IInv, LocalsOK, Owner
  <2>3. id2loc[i] = locs[p][i]
    BY <2>1 DEF IInv, LocalsOK, Moving, MyIds
  <2> QED BY <1>1, <2>1, <2>2, <2>3
<1> QED BY <1>2, <1>3

(* There are finitely many pages, so each set of them can be enumerated.   *)
LEMMA PagesOrdered ==
  ASSUME NEW S \in SUBSET Pages, NEW order \in SetToSeqs(S)
  PROVE  /\ order \in Seq(S)
         /\ \A j, k \in 1 .. Len(order) : order[j] = order[k] => j = k
         /\ \A g \in S : \E k \in 1 .. Len(order) : order[k] = g
<1>1. ASSUME NEW l \in Locs
      PROVE  PageOf(l) \in 0 .. MaxLoc
  <2> DEFINE N == NodesPerPage
             q == l \div N
  <2>1. N \in Nat \ {0} /\ l \in Nat /\ l <= MaxLoc
    BY LocTableAssumption DEF Locs
  <2>2. q \in Nat /\ N * q <= l
    BY <2>1, DivBounds
  <2>3. q <= N * q
    <3> HIDE DEF N, q
    <3>1. q * 1 <= q * N
      BY <2>1, <2>2, MulMonotone
    <3> QED BY <3>1, <2>1, <2>2
  <2> QED BY <2>1, <2>2, <2>3, LocTableAssumption DEF PageOf
<1>2. S \subseteq 0 .. MaxLoc
  BY <1>1 DEF Pages
<1>3. IsFiniteSet(0 .. MaxLoc)
  BY FS_Interval, LocTableAssumption
<1>4. IsFiniteSet(S) /\ Cardinality(S) \in Nat
  BY <1>2, <1>3, FS_Subset, FS_CardinalityType
<1> DEFINE D == 1 .. Cardinality(S)
<1>5. /\ order \in [D -> S] /\ order \in Seq(S) /\ Len(order) = Cardinality(S)
      /\ \A j, k \in D : order[j] = order[k] => j = k
  BY <1>4 DEF SetToSeqs
<1>6. IsFiniteSet(D) /\ Cardinality(D) = Cardinality(S)
  BY <1>4, FS_Interval
<1> HIDE DEF D
<1>7. order \in Injection(D, S)
  BY <1>5 DEF Injection, IsInjective
<1>8. order \in Surjection(D, S)
  BY <1>4, <1>6, <1>7, FS_Injection
<1>9. \A g \in S : \E k \in D : order[k] = g
  BY <1>8 DEF Surjection
<1> QED
  BY <1>5, <1>9 DEF D

-----------------------------------------------------------------------------
(* The initial state.                                                      *)

(* A freshly loaded index (load_page_layout()) satisfies IInv.             *)
LEMMA InitIInv == Init => IInv
<1> SUFFICES ASSUME Init PROVE IInv
  OBVIOUS
<1> USE DEF Init, InitTables
<1>1. cur_loc \in Nat /\ NPoints <= cur_loc /\ cur_loc <= MaxLoc
  BY AlignUpType, LocTableAssumption
<1>2. \A p \in Inserters : pc[p] = "idle" /\ target[p] = Invalid /\ nbrs[p] = {}
  OBVIOUS
<1>3. TypeOK
  BY <1>1, LocTableAssumption
     DEF TypeOK, Ids, Locs, LocValue, IdValue, Invalid, Allocated, NoLocs
<1>4. LocalsOK
  BY <1>2 DEF LocalsOK, Owner
<1>5. TargetsDistinct /\ LocksDisjoint /\ Moving
  BY <1>2 DEF TargetsDistinct, LocksDisjoint, IdxLocked, Moving
<1>6. NamesLinked
  BY <1>2, LocTableAssumption DEF NamesLinked, Ids, Locs, Invalid
<1>7. TailFree
  <2>1. \E q \in Nat : cur_loc = NodesPerPage * q
    BY AlignUpType, LocTableAssumption
  <2>2. \A l \in Locs : l >= cur_loc => loc2id[l] = Invalid
    BY <1>1, LocTableAssumption DEF Locs
  <2> QED BY <2>1, <2>2 DEF TailFree
<1>8. MappingConsistent
  BY <1>1, LocTableAssumption
     DEF MappingConsistent, Settled, Visible, Ids, Locs
<1>9. NoDuplicateIds
  BY LocTableAssumption DEF NoDuplicateIds, Ids, Locs, Invalid
<1>10. AllocationsExclusive
  BY <1>2 DEF AllocationsExclusive, Owner
<1>11. NoLeakedSlot
  BY LocTableAssumption DEF NoLeakedSlot, Locs, Invalid, Allocated
<1>12. QueuedPagesEmpty
  BY DEF QueuedPagesEmpty
<1> QED
  BY <1>3, <1>4, <1>5, <1>6, <1>7, <1>8, <1>9, <1>10, <1>11, <1>12 DEF IInv

-----------------------------------------------------------------------------
(* The steps of insert_in_place().                                         *)

(* target_id = cur_id++ gives an id that nothing refers to.                *)
LEMMA BeginIInv ==
  ASSUME IInv, NEW p \in Inserters, Begin(p)
  PROVE  IInv'
<1> USE DEF Begin
<1>1. /\ cur_id \in Nat /\ cur_id < MaxId /\ cur_id' = cur_id + 1
      /\ \A q \in Inserters : target[q] # cur_id
  BY LocTableAssumption DEF IInv, TypeOK, LocalsOK, Invalid
<1>2. pc[p] = "idle" /\ pc'[p] = "search" /\ target'[p] = cur_id
  BY DEF IInv, TypeOK
<1>3. \A q \in Inserters : q # p => pc'[q] = pc[q] /\ target'[q] = target[q]
  BY DEF IInv, TypeOK
<1>4. UNCHANGED <<cur_loc, id2loc, loc2id, empty_pages, nbrs, hints, locs, orig_locs>>
  OBVIOUS
<1>5. Visible' = Visible
  BY <1>1, <1>2, <1>3 DEF IInv, LocalsOK, Visible, Unlinked
<1>6. \A q \in Inserters : Owner(q)' => q # p /\ Owner(q) /\ MyIds(q)' = MyIds(q)
  BY <1>2, <1>3, <1>4 DEF Owner, MyIds
<1>7. Settled' = Settled
  BY <1>2, <1>3, <1>4, <1>5 DEF Settled, MyIds
<1>8. TypeOK'
  BY <1>1, LocTableAssumption DEF IInv, TypeOK, Ids, IdValue
<1>9. LocalsOK'
  BY <1>1, <1>2, <1>3, <1>4, <1>5, <1>6 DEF IInv, TypeOK, LocalsOK, Owner, Visible
<1>10. TargetsDistinct'
  BY <1>1, <1>2, <1>3 DEF IInv, TargetsDistinct
<1>11. LocksDisjoint'
  BY <1>2, <1>3, <1>4 DEF IInv, LocksDisjoint, IdxLocked, MyIds
<1>12. NamesLinked'
  BY <1>1, <1>2, <1>3, <1>4 DEF IInv, NamesLinked, TypeOK, Ids
<1>13. TailFree'
  BY <1>4 DEF IInv, TailFree
<1>14. Moving'
  BY <1>2, <1>3, <1>4 DEF IInv, Moving
<1>15. MappingConsistent'
  BY <1>4, <1>7 DEF IInv, MappingConsistent
<1>16. NoDuplicateIds'
  BY <1>2, <1>3, <1>4 DEF IInv, NoDuplicateIds
<1>17. AllocationsExclusive'
  BY <1>4, <1>6 DEF IInv, AllocationsExclusive
<1>18. NoLeakedSlot'
  BY <1>2, <1>3, <1>4 DEF IInv, NoLeakedSlot, Owner, MyIds
<1>19. QueuedPagesEmpty'
  BY <1>4 DEF IInv, QueuedPagesEmpty
<1> QED
  BY <1>8, <1>9, <1>10, <1>11, <1>12, <1>13, <1>14, <1>15, <1>16, <1>17, <1>18,
     <1>19 DEF IInv

(* A search only adds ids that are linked and pages of the file.           *)
LEMMA VisitIInv ==
  ASSUME IInv, NEW p \in Inserters, NEW i \in Ids, Visit(p, i)
  PROVE  IInv'
<1> USE DEF Visit
<1>1. i \in Visible /\ id2loc[i] \in Locs
  BY VisibleLocated
<1>2. pc[p] = "search" /\ nbrs'[p] = nbrs[p] \cup {i}
  BY DEF IInv, TypeOK
<1>3. \A q \in Inserters : q # p => nbrs'[q] = nbrs[q]
  BY DEF IInv, TypeOK
<1>4. UNCHANGED <<tables, pc, target, locs, orig_locs>>
  OBVIOUS
<1> USE <1>4 DEF tables
<1>5. Visible' = Visible
  BY DEF Visible, Unlinked
<1>6. \A q \in Inserters : Owner(q)' => q # p /\ Owner(q) /\ MyIds(q)' = MyIds(q)
  BY <1>2, <1>3 DEF Owner, MyIds
<1>7. \A q \in Inserters : pc[q] = "erase" => MyIds(q)' = MyIds(q)
  BY <1>2, <1>3 DEF MyIds
<1>8. Settled' = Settled
  BY <1>5, <1>7 DEF Settled
<1>9. TypeOK'
  <2>1. PageOf(id2loc[i]) \in Pages
    BY <1>1 DEF Pages
  <2>2. hints' \in [Inserters -> Seq(Pages)]
    BY <2>1 DEF IInv, TypeOK
  <2> QED BY <2>2 DEF IInv, TypeOK
<1>10. LocalsOK'
  <2>1. target[p] # i
    BY <1>1, <1>2 DEF Visible, Unlinked
  <2>2. ASSUME NEW q \in Inserters
        PROVE  /\ target[q] \notin nbrs'[q]
               /\ nbrs'[q] \subseteq Visible
    BY <2>1, <1>1, <1>2, <1>3 DEF IInv, LocalsOK
  <2>3. ASSUME NEW q \in Inserters
        PROVE  Owner(q)' => locs[q] \in [MyIds(q)' -> Locs]
    BY <1>6 DEF IInv, LocalsOK
  <2> QED BY <2>2, <2>3, <1>5 DEF IInv, LocalsOK
<1>11. TargetsDistinct'
  BY DEF IInv, TargetsDistinct
<1>12. LocksDisjoint'
  BY <1>2, <1>3 DEF IInv, LocksDisjoint, IdxLocked, MyIds
<1>13. NamesLinked' /\ TailFree' /\ QueuedPagesEmpty'
  BY DEF IInv, NamesLinked, TailFree, QueuedPagesEmpty
<1>14. Moving'
  BY <1>2, <1>3 DEF IInv, Moving
<1>15. MappingConsistent'
  BY <1>8 DEF IInv, MappingConsistent
<1>16. NoDuplicateIds'
  BY <1>2, <1>3 DEF IInv, NoDuplicateIds
<1>17. AllocationsExclusive'
  BY <1>6 DEF IInv, AllocationsExclusive
<1>18. NoLeakedSlot'
  BY <1>2, <1>3 DEF IInv, NoLeakedSlot, Owner, MyIds
<1> QED
  BY <1>9, <1>10, <1>11, <1>12, <1>13, <1>14, <1>15, <1>16, <1>17, <1>18 DEF IInv

(* set_id2loc(target_id) concerns an id that no record links to yet.       *)
LEMMA SetTargetIInv ==
  ASSUME IInv, NEW p \in Inserters, SetTarget(p)
  PROVE  IInv'
<1> USE DEF SetTarget
<1> DEFINE t == target[p]
<1>1. /\ pc[p] = "write" /\ pc'[p] = "lock"
      /\ t \in MyIds(p) /\ t \in 0 .. cur_id - 1 /\ t \notin Visible
      /\ locs[p] \in [MyIds(p) -> Locs]
  BY DEF IInv, TypeOK, LocalsOK, Owner, MyIds, Visible, Unlinked
<1>2. \A q \in Inserters : q # p => pc'[q] = pc[q] /\ target[q] # t
  BY <1>1 DEF IInv, TypeOK, TargetsDistinct, Invalid
<1>3. t \in Ids
  BY <1>1, LocTableAssumption DEF IInv, TypeOK, Ids
<1>4. id2loc'[t] = locs[p][t] /\ \A i \in Ids : i # t => id2loc'[i] = id2loc[i]
  BY <1>3 DEF IInv, TypeOK
<1>5. UNCHANGED <<cur_id, cur_loc, loc2id, empty_pages, locals>>
  OBVIOUS
<1> USE <1>5 DEF locals
<1>6. Visible' = Visible
  BY <1>1, <1>2 DEF Visible, Unlinked
<1>7. \A q \in Inserters : Owner(q)' = Owner(q) /\ MyIds(q)' = MyIds(q)
  BY <1>1, <1>2 DEF Owner, MyIds
<1>8. Settled' = Settled
  BY <1>1, <1>2, <1>6, <1>7 DEF Settled
<1>9. TypeOK'
  BY <1>1 DEF IInv, TypeOK, LocValue
<1>10. LocalsOK'
  <2> DEFINE Place(q) ==
        pc[q] \in {"lock", "move", "erase"} => id2loc[target[q]] = locs[q][target[q]]
  <2>1. ASSUME NEW q \in Inserters
        PROVE  Place(q)'
    <3>1. CASE q = p
      BY <3>1, <1>4
    <3>2. CASE q # p
      <4>1. pc[q] # "idle" => target[q] \in Ids
        BY LocTableAssumption DEF IInv, LocalsOK, TypeOK, Ids
      <4> QED BY <3>2, <4>1, <1>2, <1>4 DEF IInv, LocalsOK
    <3> QED BY <3>1, <3>2
  <2>2. ASSUME NEW q \in Inserters
        PROVE  /\ pc'[q] = "idle" => target[q] = Invalid
               /\ pc'[q] # "idle" => target[q] \in 0 .. cur_id - 1
               /\ nbrs[q] \subseteq Visible'
               /\ Owner(q)' => locs[q] \in [MyIds(q)' -> Locs]
    BY <1>1, <1>2, <1>6, <1>7 DEF IInv, LocalsOK
  <2> QED BY <2>1, <2>2 DEF IInv, LocalsOK
<1>11. TargetsDistinct' /\ NamesLinked' /\ TailFree' /\ QueuedPagesEmpty'
  BY DEF IInv, TargetsDistinct, NamesLinked, TailFree, QueuedPagesEmpty
<1>12. LocksDisjoint'
  BY <1>1, <1>2, <1>7 DEF IInv, LocksDisjoint, IdxLocked
<1>13. Moving'
  <2>1. ASSUME NEW q \in Inserters, pc'[q] = "erase"
        PROVE  q # p /\ t \notin nbrs[q] /\ nbrs[q] \subseteq Ids
    BY <2>1, <1>1 DEF IInv, LocalsOK, TypeOK
  <2> QED BY <2>1, <1>2, <1>4 DEF IInv, Moving
<1>14. MappingConsistent'
  <2>1. ASSUME NEW i \in Settled
        PROVE  i \in Ids /\ i # t
    BY <1>1, VisibleLocated DEF Settled
  <2> QED BY <2>1, <1>4, <1>8 DEF IInv, MappingConsistent
<1>15. NoDuplicateIds'
  <2>1. ASSUME NEW l \in Locs, loc2id[l] \in Ids
        PROVE  id2loc'[loc2id[l]] = id2loc[loc2id[l]]
    BY <2>1, <1>4 DEF IInv, NamesLinked
  <2>2. \A q \in Inserters : pc[q] = "erase" => pc'[q] = "erase"
    BY <1>1, <1>2
  <2> QED BY <2>1, <2>2 DEF IInv, NoDuplicateIds
<1>16. AllocationsExclusive' /\ NoLeakedSlot'
  BY <1>7 DEF IInv, AllocationsExclusive, NoLeakedSlot
<1> QED
  BY <1>9, <1>10, <1>11, <1>12, <1>13, <1>14, <1>15, <1>16 DEF IInv

(* lock_idx() changes no table, and gives an insert its ids exclusively.   *)
LEMMA LockIdxIInv ==
  ASSUME IInv, NEW p \in Inserters, LockIdx(p)
  PROVE  IInv'
<1> USE DEF LockIdx
<1>1. /\ pc[p] = "lock" /\ pc'[p] = "move"
      /\ \A q \in Inserters : q # p => pc'[q] = pc[q]
  BY DEF IInv, TypeOK
<1>2. UNCHANGED <<tables, locals>>
  OBVIOUS
<1> USE <1>2 DEF tables, locals
<1>3. /\ Visible' = Visible
      /\ \A q \in Inserters : Owner(q)' = Owner(q) /\ MyIds(q)' = MyIds(q)
      /\ \A q \in Inserters : pc'[q] = "erase" <=> pc[q] = "erase"
  BY <1>1 DEF Visible, Unlinked, Owner, MyIds
<1>4. Settled' = Settled
  BY <1>3 DEF Settled
<1>5. TypeOK'
  BY DEF IInv, TypeOK
<1>6. LocalsOK'
  BY <1>1, <1>3 DEF IInv, LocalsOK
<1>7. TargetsDistinct' /\ NamesLinked' /\ TailFree' /\ QueuedPagesEmpty'
  BY DEF IInv, TargetsDistinct, NamesLinked, TailFree, QueuedPagesEmpty
<1>8. LocksDisjoint'
  <2>1. \A q \in Inserters : q # p /\ IdxLocked(q)' => MyIds(q) \cap MyIds(p) = {}
    BY <1>1 DEF IdxLocked
  <2>2. \A q \in Inserters : q # p /\ IdxLocked(q)' => IdxLocked(q)
    BY <1>1 DEF IdxLocked
  <2> QED BY <2>1, <2>2, <1>3 DEF IInv, LocksDisjoint
<1>9. Moving' /\ MappingConsistent' /\ NoDuplicateIds'
  BY <1>3, <1>4 DEF IInv, Moving, MappingConsistent, NoDuplicateIds
<1>10. AllocationsExclusive' /\ NoLeakedSlot'
  BY <1>3 DEF IInv, AllocationsExclusive, NoLeakedSlot
<1> QED
  BY <1>5, <1>6, <1>7, <1>8, <1>9, <1>10 DEF IInv

(* set_id2loc() of the neighbours moves ids that only this insert holds,   *)
(* to locations that only it was given.                                    *)
LEMMA MoveIdsIInv ==
  ASSUME IInv, NEW p \in Inserters, MoveIds(p)
  PROVE  IInv'
<1> USE DEF MoveIds
<1>1. /\ pc[p] = "move" /\ pc'[p] = "erase"
      /\ \A q \in Inserters : q # p => pc'[q] = pc[q]
  BY DEF IInv, TypeOK
<1>2. UNCHANGED <<cur_id, cur_loc, loc2id, empty_pages, target, nbrs, hints, locs>>
  OBVIOUS
<1> USE <1>2
<1>3. nbrs[p] \subseteq MyIds(p) /\ locs[p] \in [MyIds(p) -> Locs]
  BY <1>1 DEF IInv, LocalsOK, Owner, MyIds
<1>4. /\ \A i \in nbrs[p] : i \in Ids /\ id2loc[i] \in Locs /\ id2loc'[i] = locs[p][i]
      /\ \A i \in Ids : i \notin nbrs[p] => id2loc'[i] = id2loc[i]
  <2>1. \A i \in nbrs[p] : i \in Visible
    BY DEF IInv, LocalsOK
  <2> QED BY <2>1, VisibleLocated
(* The locks of p keep every other inserter from moving its neighbours.    *)
<1>5. \A q \in Inserters : q # p /\ IdxLocked(q) => MyIds(q) \cap MyIds(p) = {}
  BY <1>1 DEF IInv, LocksDisjoint, IdxLocked
<1>6. nbrs[p] \subseteq Settled
  BY <1>1, <1>3, <1>5 DEF IInv, LocalsOK, Settled, IdxLocked
<1>7. \A i \in nbrs[p] : loc2id[id2loc[i]] = i
  BY <1>6 DEF IInv, MappingConsistent
<1>8. \A q \in Inserters : Owner(q)' = Owner(q) /\ MyIds(q)' = MyIds(q)
  BY <1>1 DEF Owner, MyIds
<1>9. Visible' \subseteq Visible \cup {target[p]} /\ Visible \subseteq Visible'
  BY <1>1 DEF Visible, Unlinked
<1>10. Settled' \subseteq Settled \ MyIds(p)
  BY <1>1, <1>8, <1>9 DEF Settled, MyIds

<1>11. /\ orig_locs'[p] = [i \in nbrs[p] |-> id2loc[i]]
       /\ \A q \in Inserters : q # p => orig_locs'[q] = orig_locs[q]
  BY DEF IInv, TypeOK
<1>12. TypeOK'
  <2>1. id2loc' \in [Ids -> LocValue]
    BY <1>3 DEF IInv, TypeOK, LocValue
  <2>2. DOMAIN orig_locs' = Inserters
    BY DEF IInv, TypeOK
  <2>3. ASSUME NEW q \in Inserters
        PROVE  /\ DOMAIN orig_locs'[q] \subseteq Ids
               /\ \A i \in DOMAIN orig_locs'[q] : orig_locs'[q][i] \in Locs
    BY <1>4, <1>11 DEF IInv, TypeOK
  <2> QED BY <2>1, <2>2, <2>3 DEF IInv, TypeOK
<1>13. LocalsOK'
  <2> DEFINE Place(q) ==
        pc[q] \in {"lock", "move", "erase"} => id2loc[target[q]] = locs[q][target[q]]
  <2>1. ASSUME NEW q \in Inserters
        PROVE  Place(q)'
    <3>1. pc'[q] # "idle" => target[q] \in Ids /\ pc[q] # "idle"
      BY <1>1, LocTableAssumption DEF IInv, LocalsOK, TypeOK, Ids
    <3>2. pc'[q] # "idle" /\ pc'[q] # "erase" => target[q] \notin nbrs[p]
      <4>1. pc[q] \in {"idle", "search", "write", "lock", "move", "erase"}
        BY DEF IInv, TypeOK
      <4>2. pc'[q] # "idle" /\ pc'[q] # "erase" => Unlinked(q)
        BY <4>1, <1>1 DEF Unlinked
      <4> QED BY <4>2 DEF IInv, LocalsOK, Visible
    <3>3. pc'[q] = "erase" => target[q] \notin nbrs[p]
      BY <1>1, <1>5 DEF IInv, LocalsOK, IdxLocked, MyIds
    <3>4. pc'[q] # "idle" => id2loc'[target[q]] = id2loc[target[q]]
      BY <3>1, <3>2, <3>3, <1>4
    <3> QED BY <3>4, <1>1 DEF IInv, LocalsOK
  <2>2. ASSUME NEW q \in Inserters
        PROVE  /\ pc'[q] = "idle" => target[q] = Invalid
               /\ pc'[q] # "idle" => target[q] \in 0 .. cur_id - 1
               /\ nbrs[q] \subseteq Visible'
               /\ Owner(q)' => locs[q] \in [MyIds(q)' -> Locs]
    BY <1>1, <1>8, <1>9 DEF IInv, LocalsOK
  <2> QED BY <2>1, <2>2 DEF IInv, LocalsOK
<1>14. TargetsDistinct' /\ NamesLinked' /\ TailFree' /\ QueuedPagesEmpty'
  BY DEF IInv, TargetsDistinct, NamesLinked, TailFree, QueuedPagesEmpty
<1>15. LocksDisjoint'
  <2>1. \A q \in Inserters : IdxLocked(q)' = IdxLocked(q)
    BY <1>1 DEF IdxLocked
  <2> QED BY <2>1, <1>8 DEF IInv, LocksDisjoint
<1>16. Moving'
  <2>1. ASSUME NEW q \in Inserters, pc'[q] = "erase"
        PROVE  /\ orig_locs'[q] \in [nbrs'[q] -> Locs]
               /\ \A i \in nbrs'[q] :
                    id2loc'[i] = locs'[q][i] /\ loc2id'[orig_locs'[q][i]] = i
    <3>1. CASE q = p
      BY <3>1, <1>4, <1>7, <1>11
    <3>2. CASE q # p
      <4>1. pc[q] = "erase" /\ nbrs[q] \cap nbrs[p] = {} /\ nbrs[q] \subseteq Ids
        BY <3>2, <2>1, <1>1, <1>5 DEF IInv, TypeOK, IdxLocked, MyIds
      <4> QED BY <3>2, <4>1, <1>4, <1>11 DEF IInv, Moving
    <3> QED BY <3>1, <3>2
  <2> QED BY <2>1 DEF Moving
<1>17. MappingConsistent'
  <2>1. ASSUME NEW i \in Settled'
        PROVE  i \in Settled /\ i \in Ids /\ i \notin nbrs[p]
    BY <1>10, VisibleLocated DEF Settled, MyIds
  <2> QED BY <2>1, <1>4 DEF IInv, MappingConsistent
<1>18. NoDuplicateIds'
  <2> SUFFICES ASSUME NEW l \in Locs, loc2id[l] \in Ids
               PROVE  \/ id2loc'[loc2id[l]] = l
                      \/ \E q \in Inserters :
                           /\ pc'[q] = "erase" /\ loc2id[l] \in nbrs[q]
                           /\ orig_locs'[q][loc2id[l]] = l
    BY DEF NoDuplicateIds
  <2> DEFINE i == loc2id[l]
  <2>1. CASE \E q \in Inserters :
               pc[q] = "erase" /\ i \in nbrs[q] /\ orig_locs[q][i] = l
    BY <2>1, <1>1, <1>11
  <2>2. CASE id2loc[i] = l /\ i \in nbrs[p]
    BY <2>2, <1>1, <1>11
  <2>3. CASE id2loc[i] = l /\ i \notin nbrs[p]
    BY <2>3, <1>4
  <2> QED BY <2>1, <2>2, <2>3 DEF IInv, NoDuplicateIds
<1>19. AllocationsExclusive' /\ NoLeakedSlot'
  BY <1>8 DEF IInv, AllocationsExclusive, NoLeakedSlot
<1> QED
  BY <1>12, <1>13, <1>14, <1>15, <1>16, <1>17, <1>18, <1>19 DEF IInv

(* What erase_and_set_loc() does to each location: the new ones name their *)
(* ids, the old ones are holes, the others are left alone.                 *)
LEMMA CommittedFacts ==
  ASSUME IInv, NEW p \in Inserters, pc[p] = "erase"
  PROVE  /\ \A i \in MyIds(p) : Committed(p)[locs[p][i]] = i
         /\ \A i \in nbrs[p] : Committed(p)[orig_locs[p][i]] = Invalid
         /\ \A l \in Locs :
              (/\ \A i \in MyIds(p) : locs[p][i] # l
               /\ \A i \in nbrs[p] : orig_locs[p][i] # l)
              => Committed(p)[l] = loc2id[l]
         /\ Committed(p) \in [Locs -> MyIds(p) \cup {Invalid} \cup Ids \cup {Allocated}]
<1>1. /\ locs[p] \in [MyIds(p) -> Locs]
      /\ orig_locs[p] \in [nbrs[p] -> Locs]
      /\ nbrs[p] \subseteq Ids
  BY DEF IInv, LocalsOK, Owner, Moving, TypeOK
<1>2. \A i \in MyIds(p) : loc2id[locs[p][i]] = Allocated
  BY DEF IInv, AllocationsExclusive, Owner
<1>3. \A i \in nbrs[p] : loc2id[orig_locs[p][i]] = i
  BY DEF IInv, Moving
<1>4. Allocated \notin Ids
  BY LocTableAssumption DEF Allocated, Ids
<1>5. \A i \in MyIds(p), j \in nbrs[p] : locs[p][i] # orig_locs[p][j]
  BY <1>1, <1>2, <1>3, <1>4
<1>6. \A i, j \in MyIds(p) : locs[p][i] = locs[p][j] => i = j
  BY DEF IInv, AllocationsExclusive, Owner
<1>7. ASSUME NEW i \in MyIds(p)
      PROVE  Committed(p)[locs[p][i]] = i
  <2>1. Committed(p)[locs[p][i]] = CHOOSE j \in MyIds(p) : locs[p][j] = locs[p][i]
    BY <1>1, <1>5 DEF Committed
  <2> QED BY <2>1, <1>6
<1>8. loc2id \in [Locs -> Ids \cup {Invalid, Allocated}]
  BY DEF IInv, TypeOK
<1>9. ASSUME NEW l \in Locs, \A i \in MyIds(p) : locs[p][i] # l
      PROVE  Committed(p)[l] = IF \E i \in nbrs[p] : orig_locs[p][i] = l
                               THEN Invalid ELSE loc2id[l]
  BY <1>9 DEF Committed
<1>10. ASSUME NEW l \in Locs
       PROVE  Committed(p)[l] \in MyIds(p) \cup {Invalid} \cup Ids \cup {Allocated}
  <2>1. CASE \E i \in MyIds(p) : locs[p][i] = l
    BY <2>1, <1>7
  <2>2. CASE \A i \in MyIds(p) : locs[p][i] # l
    BY <2>2, <1>8, <1>9
  <2> QED BY <2>1, <2>2
<1>11. Committed(p) = [l \in Locs |-> Committed(p)[l]]
  BY DEF Committed
<1>12. Committed(p) \in [Locs -> MyIds(p) \cup {Invalid} \cup Ids \cup {Allocated}]
  BY <1>10, <1>11
<1>13. \A i \in nbrs[p] : Committed(p)[orig_locs[p][i]] = Invalid
  BY <1>1, <1>5, <1>9
<1> QED
  BY <1>7, <1>9, <1>12, <1>13

(* erase_and_set_loc() makes the new locations name their ids, turns the old*)
(* ones into holes, and queues a page only when it has become empty.       *)
LEMMA EraseAndSetLocIInv ==
  ASSUME IInv, NEW p \in Inserters, EraseAndSetLoc(p)
  PROVE  IInv'
<1> USE DEF EraseAndSetLoc, CommitTables
<1>1. /\ pc[p] = "erase" /\ pc'[p] = "idle"
      /\ target'[p] = Invalid /\ nbrs'[p] = {}
  BY DEF IInv, TypeOK
<1>2. \A q \in Inserters : q # p =>
        /\ pc'[q] = pc[q] /\ target'[q] = target[q] /\ nbrs'[q] = nbrs[q]
        /\ locs'[q] = locs[q] /\ orig_locs'[q] = orig_locs[q]
  BY DEF IInv, TypeOK
<1>3. UNCHANGED <<cur_id, cur_loc, id2loc, hints>>
  OBVIOUS
<1> USE <1>3
<1>4. /\ MyIds(p) = nbrs[p] \cup {target[p]}
      /\ MyIds(p) \subseteq 0 .. cur_id - 1
      /\ MyIds(p) \subseteq Ids
  <2>1. nbrs[p] \subseteq Visible /\ target[p] \in 0 .. cur_id - 1
    BY <1>1 DEF IInv, LocalsOK
  <2>2. cur_id \in Nat /\ cur_id <= MaxId
    BY LocTableAssumption DEF IInv, TypeOK
  <2> QED BY <2>1, <2>2, LocTableAssumption DEF MyIds, Visible, Ids
<1>5. /\ locs[p] \in [MyIds(p) -> Locs]
      /\ orig_locs[p] \in [nbrs[p] -> Locs]
      /\ \A i \in nbrs[p] : loc2id[orig_locs[p][i]] = i
      /\ \A i \in MyIds(p) : id2loc[i] = locs[p][i]
  BY <1>1 DEF IInv, LocalsOK, Owner, Moving, MyIds
<1>6. /\ loc2id' = Committed(p)
      /\ \A i \in MyIds(p) : loc2id'[locs[p][i]] = i
      /\ \A i \in nbrs[p] : loc2id'[orig_locs[p][i]] = Invalid
      /\ \A l \in Locs :
           (/\ \A i \in MyIds(p) : locs[p][i] # l
            /\ \A i \in nbrs[p] : orig_locs[p][i] # l) => loc2id'[l] = loc2id[l]
      /\ loc2id' \in [Locs -> Ids \cup {Invalid, Allocated}]
  BY <1>1, <1>4, CommittedFacts
<1>7. Visible' = Visible
  <2>1. \A q \in Inserters : Unlinked(q)' <=> Unlinked(q)
    BY <1>1, <1>2 DEF Unlinked
  <2>2. \A q \in Inserters : Unlinked(q) => target'[q] = target[q]
    BY <1>1, <1>2 DEF Unlinked
  <2> QED BY <2>1, <2>2 DEF Visible
<1>8. \A q \in Inserters : q # p => Owner(q)' = Owner(q) /\ MyIds(q)' = MyIds(q)
  BY <1>2 DEF Owner, MyIds
<1>9. ~Owner(p)'
  BY <1>1 DEF Owner
<1>10. \A q \in Inserters : q # p /\ IdxLocked(q) => MyIds(q) \cap MyIds(p) = {}
  BY <1>1 DEF IInv, LocksDisjoint, IdxLocked
(* The new locations are p's alone and are still reserved.                 *)
<1>11. /\ \A i \in MyIds(p) : loc2id[locs[p][i]] = Allocated
       /\ \A q \in Inserters : q # p /\ Owner(q) =>
            \A i \in MyIds(p), j \in MyIds(q) : locs[p][i] # locs[q][j]
  BY <1>1 DEF IInv, AllocationsExclusive, Owner
<1>12. Allocated \notin Ids /\ Invalid \notin Ids /\ Allocated # Invalid
  BY LocTableAssumption DEF Allocated, Invalid, Ids
<1>13. PICK order \in SetToSeqs(EmptiedPages(p)) : empty_pages' = empty_pages \o order
  OBVIOUS
<1>14. EmptiedPages(p) \subseteq Pages
  BY <1>5 DEF EmptiedPages, Pages
<1>15. /\ order \in Seq(EmptiedPages(p))
       /\ \A j, k \in 1 .. Len(order) : order[j] = order[k] => j = k
  BY <1>13, <1>14, PagesOrdered
<1>16. TypeOK'
  <2>1. empty_pages' \in Seq(Pages)
    BY <1>13, <1>14, <1>15 DEF IInv, TypeOK
  <2>2. /\ pc' \in [Inserters -> {"idle", "search", "write", "lock", "move", "erase"}]
        /\ target' \in [Inserters -> IdValue]
        /\ nbrs' \in [Inserters -> SUBSET Ids]
    BY DEF IInv, TypeOK, IdValue
  <2>3. DOMAIN locs' = Inserters /\ DOMAIN orig_locs' = Inserters
    BY DEF IInv, TypeOK
  <2>4. locs'[p] = NoLocs /\ orig_locs'[p] = NoLocs
    BY DEF IInv, TypeOK
  <2>5. ASSUME NEW q \in Inserters
        PROVE  /\ DOMAIN locs'[q] \subseteq Ids
               /\ \A i \in DOMAIN locs'[q] : locs'[q][i] \in Locs
               /\ DOMAIN orig_locs'[q] \subseteq Ids
               /\ \A i \in DOMAIN orig_locs'[q] : orig_locs'[q][i] \in Locs
    BY <1>2, <2>4 DEF IInv, TypeOK, NoLocs
  <2> QED BY <1>6, <2>1, <2>2, <2>3, <2>5 DEF IInv, TypeOK
<1>17. LocalsOK'
  <2>1. ASSUME NEW q \in Inserters, q # p
        PROVE  /\ pc'[q] = "idle" => target'[q] = Invalid
               /\ pc'[q] # "idle" => target'[q] \in 0 .. cur_id' - 1
               /\ target'[q] \notin nbrs'[q]
               /\ nbrs'[q] \subseteq Visible'
               /\ Owner(q)' => locs'[q] \in [MyIds(q)' -> Locs]
               /\ pc'[q] \in {"lock", "move", "erase"} =>
                    id2loc'[target'[q]] = locs'[q][target'[q]]
    BY <2>1, <1>2, <1>7, <1>8 DEF IInv, LocalsOK
  <2>2. /\ pc'[p] = "idle" /\ target'[p] = Invalid /\ nbrs'[p] = {}
        /\ ~Owner(p)'
    BY <1>1, <1>9
  <2> QED BY <2>1, <2>2 DEF LocalsOK
<1>18. TargetsDistinct'
  BY <1>1, <1>2 DEF IInv, TargetsDistinct
<1>19. LocksDisjoint'
  BY <1>1, <1>2, <1>8 DEF IInv, LocksDisjoint, IdxLocked
<1>20. NamesLinked'
  <2> SUFFICES ASSUME NEW l \in Locs, loc2id'[l] \in Ids
               PROVE  loc2id'[l] < cur_id /\ \A q \in Inserters : target'[q] # loc2id'[l]
    BY DEF NamesLinked
  <2>1. CASE \E i \in MyIds(p) : locs[p][i] = l
    <3>1. PICK i \in MyIds(p) : locs[p][i] = l
      BY <2>1
    <3>2. loc2id'[l] = i /\ i \in 0 .. cur_id - 1
      BY <3>1, <1>4, <1>6
    <3>3. ASSUME NEW q \in Inserters, q # p
          PROVE  target[q] # i
      <4>1. CASE pc[q] = "idle"
        BY <4>1, <3>2 DEF IInv, LocalsOK, Invalid
      <4>2. CASE Unlinked(q)
        <5>1. target[q] # target[p]
          BY <1>4, <3>2, <3>3, <4>2, <1>1 DEF IInv, LocalsOK, TargetsDistinct, Invalid
        <5>2. target[q] \notin nbrs[p]
          BY <4>2 DEF IInv, LocalsOK, Visible
        <5> QED BY <5>1, <5>2, <3>1, <1>4
      <4>3. CASE pc[q] = "erase"
        BY <4>3, <3>1, <3>3, <1>10 DEF IdxLocked, MyIds
      <4>4. pc[q] \in {"idle", "search", "write", "lock", "move", "erase"}
        BY DEF IInv, TypeOK
      <4> QED BY <4>1, <4>2, <4>3, <4>4 DEF Unlinked
    <3>4. target'[p] # i
      BY <1>1, <3>2 DEF Invalid
    <3>5. cur_id \in Nat
      BY LocTableAssumption DEF IInv, TypeOK
    <3> QED BY <3>2, <3>3, <3>4, <3>5, <1>2
  <2>2. CASE \A i \in MyIds(p) : locs[p][i] # l
    <3>1. loc2id'[l] = loc2id[l]
      BY <2>2, <1>6, <1>12
    <3> QED BY <3>1, <1>1, <1>2, <1>12 DEF IInv, NamesLinked
  <2> QED BY <2>1, <2>2

<1>21. TailFree'
  <2>1. ASSUME NEW l \in Locs, l >= cur_loc
        PROVE  loc2id'[l] = Invalid
    <3>1. loc2id[l] = Invalid
      BY <2>1 DEF IInv, TailFree
    <3>2. \A i \in MyIds(p) : locs[p][i] # l
      BY <3>1, <1>11, <1>12
    <3> QED BY <3>1, <3>2, <1>6
  (* An emptied page held a record, so it lies below the tail.             *)
  <2>2. ASSUME NEW g \in EmptiedPages(p), NEW l \in Slots(g)
        PROVE  l < cur_loc
    <3>1. PICK i \in nbrs[p] : g = PageOf(orig_locs[p][i])
      BY DEF EmptiedPages
    <3>2. orig_locs[p][i] \in Locs /\ loc2id[orig_locs[p][i]] = i /\ i \in Ids
      BY <1>4, <1>5
    <3>3. cur_loc \in Nat
      BY LocTableAssumption DEF IInv, TypeOK
    <3>4. orig_locs[p][i] < cur_loc
      BY <3>2, <3>3, <1>12, LocTableAssumption DEF IInv, TailFree, Locs
    <3>5. l \in Locs /\ PageOf(l) = PageOf(orig_locs[p][i])
      BY <3>1 DEF Slots
    <3>6. PICK q \in Nat : cur_loc = NodesPerPage * q
      BY DEF IInv, TailFree
    <3>7. orig_locs[p][i] \in Nat /\ l \in Nat
      BY <3>2, <3>5 DEF Locs
    <3> QED BY <3>4, <3>5, <3>6, <3>7, PageBelow
  <2>3. empty_pages \in Seq(Pages) /\ order \in Seq(EmptiedPages(p))
    BY <1>15 DEF IInv, TypeOK
  <2>4. ASSUME NEW k \in 1 .. Len(empty_pages')
        PROVE  \/ k \in 1 .. Len(empty_pages) /\ empty_pages'[k] = empty_pages[k]
               \/ empty_pages'[k] \in EmptiedPages(p)
    BY <2>3, <1>13, <1>14
  <2>5. ASSUME NEW k \in 1 .. Len(empty_pages'), NEW l \in Slots(empty_pages'[k])
        PROVE  l < cur_loc
    BY <2>2, <2>4 DEF IInv, TailFree
  <2> QED BY <2>1, <2>5 DEF IInv, TailFree, Slots
<1>22. Moving'
  <2>1. ASSUME NEW q \in Inserters, pc'[q] = "erase"
        PROVE  /\ orig_locs'[q] \in [nbrs'[q] -> Locs]
               /\ \A i \in nbrs'[q] :
                    id2loc'[i] = locs'[q][i] /\ loc2id'[orig_locs'[q][i]] = i
    <3>1. q # p /\ pc[q] = "erase" /\ nbrs'[q] = nbrs[q]
          /\ orig_locs'[q] = orig_locs[q] /\ locs'[q] = locs[q]
      BY <2>1, <1>1, <1>2
    <3>2. /\ orig_locs[q] \in [nbrs[q] -> Locs]
          /\ \A i \in nbrs[q] : id2loc[i] = locs[q][i] /\ loc2id[orig_locs[q][i]] = i
      BY <3>1 DEF IInv, Moving
    <3>3. nbrs[q] \subseteq Ids /\ nbrs[q] \cap nbrs[p] = {}
      BY <3>1, <1>10 DEF IInv, TypeOK, IdxLocked, MyIds
    <3>4. ASSUME NEW i \in nbrs[q]
          PROVE  loc2id'[orig_locs[q][i]] = i
      <4>1. orig_locs[q][i] \in Locs /\ loc2id[orig_locs[q][i]] = i /\ i \in Ids
        BY <3>2, <3>3
      <4>2. \A j \in MyIds(p) : locs[p][j] # orig_locs[q][i]
        BY <4>1, <1>11, <1>12
      <4>3. \A j \in nbrs[p] : orig_locs[p][j] # orig_locs[q][i]
        BY <4>1, <3>3, <1>5
      <4> QED BY <4>1, <4>2, <4>3, <1>6
    <3> QED BY <3>1, <3>2, <3>4
  <2> QED BY <2>1 DEF Moving
<1>23. MappingConsistent'
  <2> SUFFICES ASSUME NEW i \in Settled'
               PROVE  id2loc[i] \in 0 .. cur_loc - 1 /\ loc2id'[id2loc[i]] = i
    BY DEF MappingConsistent
  <2>1. CASE i \in MyIds(p)
    <3>1. id2loc[i] = locs[p][i] /\ loc2id[locs[p][i]] = Allocated
      BY <2>1, <1>5, <1>11
    <3>2. id2loc[i] \in Locs /\ ~(id2loc[i] >= cur_loc)
      BY <2>1, <3>1, <1>5, <1>12 DEF IInv, TailFree
    <3>3. cur_loc \in Int
      BY LocTableAssumption DEF IInv, TypeOK
    <3> QED BY <2>1, <3>1, <3>2, <3>3, <1>6, LocTableAssumption DEF Locs
  <2>2. CASE i \notin MyIds(p)
    <3>1. i \in Settled
      BY <2>2, <1>2, <1>7, <1>8 DEF Settled
    <3>2. id2loc[i] \in 0 .. cur_loc - 1 /\ loc2id[id2loc[i]] = i
      BY <3>1 DEF IInv, MappingConsistent
    <3>3. i \in Ids /\ id2loc[i] \in Locs
      BY <3>1, VisibleLocated DEF Settled
    <3>4. \A j \in MyIds(p) : locs[p][j] # id2loc[i]
      BY <3>2, <3>3, <1>11, <1>12
    <3>5. \A j \in nbrs[p] : orig_locs[p][j] # id2loc[i]
      BY <3>2, <2>2, <1>4, <1>5
    <3> QED BY <3>2, <3>3, <3>4, <3>5, <1>6
  <2> QED BY <2>1, <2>2
<1>24. NoDuplicateIds'
  <2> SUFFICES ASSUME NEW l \in Locs, loc2id'[l] \in Ids
               PROVE  \/ id2loc[loc2id'[l]] = l
                      \/ \E q \in Inserters :
                           /\ pc'[q] = "erase" /\ loc2id'[l] \in nbrs'[q]
                           /\ orig_locs'[q][loc2id'[l]] = l
    BY DEF NoDuplicateIds
  <2>1. CASE \E i \in MyIds(p) : locs[p][i] = l
    BY <2>1, <1>5, <1>6
  <2>2. CASE \A i \in MyIds(p) : locs[p][i] # l
    <3>1. loc2id'[l] = loc2id[l] /\ \A i \in nbrs[p] : orig_locs[p][i] # l
      BY <2>2, <1>6, <1>12
    <3>2. CASE id2loc[loc2id[l]] = l
      BY <3>1, <3>2
    <3>3. CASE \E q \in Inserters :
                 pc[q] = "erase" /\ loc2id[l] \in nbrs[q] /\ orig_locs[q][loc2id[l]] = l
      BY <3>1, <3>3, <1>2
    <3> QED BY <3>1, <3>2, <3>3 DEF IInv, NoDuplicateIds
  <2> QED BY <2>1, <2>2
<1>25. AllocationsExclusive'
  <2>1. ASSUME NEW q \in Inserters, Owner(q)', NEW i \in MyIds(q)'
        PROVE  loc2id'[locs'[q][i]] = Allocated
    <3>1. q # p /\ Owner(q) /\ i \in MyIds(q) /\ locs'[q] = locs[q]
      BY <2>1, <1>2, <1>8, <1>9
    <3>2. locs[q][i] \in Locs /\ loc2id[locs[q][i]] = Allocated
      BY <3>1 DEF IInv, LocalsOK, AllocationsExclusive
    <3>3. \A j \in MyIds(p) : locs[p][j] # locs[q][i]
      BY <3>1, <1>11
    <3>4. \A j \in nbrs[p] : orig_locs[p][j] # locs[q][i]
      BY <3>2, <1>4, <1>5, <1>12
    <3> QED BY <3>1, <3>2, <3>3, <3>4, <1>6
  <2>2. ASSUME NEW q \in Inserters, Owner(q)', NEW r \in Inserters, Owner(r)',
               NEW i \in MyIds(q)', NEW j \in MyIds(r)', locs'[q][i] = locs'[r][j]
        PROVE  q = r /\ i = j
    <3>1. q # p /\ Owner(q) /\ i \in MyIds(q) /\ locs'[q] = locs[q]
      BY <2>2, <1>2, <1>8, <1>9
    <3>2. r # p /\ Owner(r) /\ j \in MyIds(r) /\ locs'[r] = locs[r]
      BY <2>2, <1>2, <1>8, <1>9
    <3> QED BY <2>2, <3>1, <3>2 DEF IInv, AllocationsExclusive
  <2> QED BY <2>1, <2>2 DEF AllocationsExclusive
<1>26. NoLeakedSlot'
  <2> SUFFICES ASSUME NEW l \in Locs, loc2id'[l] = Allocated
               PROVE  \E q \in Inserters : Owner(q)' /\ \E i \in MyIds(q)' : locs'[q][i] = l
    BY DEF NoLeakedSlot
  <2>1. \A i \in MyIds(p) : locs[p][i] # l
    BY <1>4, <1>6, <1>12
  <2>2. loc2id[l] = Allocated
    BY <2>1, <1>6, <1>12
  <2>3. PICK q \in Inserters : Owner(q) /\ \E i \in MyIds(q) : locs[q][i] = l
    BY <2>2 DEF IInv, NoLeakedSlot
  <2> QED BY <2>1, <2>3, <1>2, <1>8
<1>27. QueuedPagesEmpty'
  <2> DEFINE len == Len(empty_pages)
  <2>1. empty_pages \in Seq(Pages) /\ len \in Nat
    BY DEF IInv, TypeOK
  <2>2. order \in Seq(Pages)
    BY <1>14, <1>15
  <2>3. /\ Len(empty_pages') = len + Len(order)
        /\ \A k \in 1 .. len : empty_pages'[k] = empty_pages[k]
        /\ \A k \in 1 .. Len(order) : empty_pages'[len + k] = order[k]
    BY <2>1, <2>2, <1>13
  <2>4. ASSUME NEW k \in 1 .. len, NEW l \in Slots(empty_pages[k])
        PROVE  loc2id[l] = Invalid /\ loc2id'[l] = Invalid
    <3>1. l \in Locs /\ loc2id[l] = Invalid
      BY DEF IInv, QueuedPagesEmpty, Slots
    <3>2. \A i \in MyIds(p) : locs[p][i] # l
      BY <3>1, <1>11, <1>12
    <3> QED BY <3>1, <3>2, <1>6
  <2>5. ASSUME NEW k \in 1 .. Len(order), NEW l \in Slots(order[k])
        PROVE  loc2id'[l] = Invalid
    <3>1. order[k] \in EmptiedPages(p)
      BY <1>15
    <3> QED BY <3>1, <1>6 DEF EmptiedPages
  (* A page that was emptied just now was not queued before.               *)
  <2>6. ASSUME NEW j \in 1 .. len, NEW k \in 1 .. Len(order)
        PROVE  empty_pages[j] # order[k]
    <3>1. order[k] \in EmptiedPages(p)
      BY <1>15
    <3>2. PICK i \in nbrs[p] : order[k] = PageOf(orig_locs[p][i])
      BY <3>1 DEF EmptiedPages
    <3>3. orig_locs[p][i] \in Slots(order[k]) /\ loc2id[orig_locs[p][i]] = i /\ i \in Ids
      BY <3>2, <1>4, <1>5 DEF Slots
    <3> QED BY <3>3, <2>4, <1>12
  <2> DEFINE Old(k) == k \in 1 .. len /\ empty_pages'[k] = empty_pages[k]
             New(k) == \E m \in 1 .. Len(order) : k = len + m /\ empty_pages'[k] = order[m]
  <2>7. ASSUME NEW k \in 1 .. Len(empty_pages')
        PROVE  Old(k) \/ New(k)
    <3>1. k <= len => Old(k)
      BY <2>1, <2>3
    <3>2. ASSUME k > len
          PROVE  New(k)
      <4>1. k - len \in 1 .. Len(order) /\ k = len + (k - len)
        BY <3>2, <2>1, <2>2, <2>3
      <4> QED BY <4>1, <2>3
    <3>3. k <= len \/ k > len
      BY <2>1
    <3> HIDE DEF Old, New
    <3> QED BY <3>1, <3>2, <3>3
  <2> HIDE DEF len
  <2>8. ASSUME NEW k \in 1 .. Len(empty_pages'), NEW l \in Slots(empty_pages'[k])
        PROVE  loc2id'[l] = Invalid
    BY <2>4, <2>5, <2>7
  <2>9. ASSUME NEW j \in 1 .. Len(empty_pages'), NEW k \in 1 .. Len(empty_pages'),
               empty_pages'[j] = empty_pages'[k]
        PROVE  j = k
    <3>1. \A m, n \in 1 .. len : empty_pages[m] = empty_pages[n] => m = n
      BY DEF IInv, QueuedPagesEmpty, len
    <3>2. CASE j \in 1 .. len /\ k \in 1 .. len
      BY <3>1, <3>2, <2>3, <2>9
    <3>3. CASE j \notin 1 .. len /\ k \notin 1 .. len
      <4>1. PICK m \in 1 .. Len(order) : j = len + m /\ empty_pages'[j] = order[m]
        BY <3>3, <2>7
      <4>2. PICK n \in 1 .. Len(order) : k = len + n /\ empty_pages'[k] = order[n]
        BY <3>3, <2>7
      <4>3. order[m] = order[n]
        BY <4>1, <4>2, <2>9
      <4>4. m = n
        BY <4>3, <1>15
      <4> QED BY <4>1, <4>2, <4>4
    <3>4. CASE j \in 1 .. len /\ k \notin 1 .. len
      BY <3>4, <2>3, <2>6, <2>7, <2>9
    <3>5. CASE j \notin 1 .. len /\ k \in 1 .. len
      BY <3>5, <2>3, <2>6, <2>7, <2>9
    <3> QED BY <3>2, <3>3, <3>4, <3>5
  <2>10. \A k \in 1 .. Len(empty_pages') :
           \A l \in Slots(empty_pages'[k]) : loc2id'[l] = Invalid
    BY <2>8
  <2>11. \A j, k \in 1 .. Len(empty_pages') : empty_pages'[j] = empty_pages'[k] => j = k
    BY <2>9
  <2> QED BY <2>10, <2>11 DEF QueuedPagesEmpty, Slots
<1> QED
  BY <1>16, <1>17, <1>18, <1>19, <1>20, <1>21, <1>22, <1>23, <1>24, <1>25, <1>26, <1>27
     DEF IInv

-----------------------------------------------------------------------------
(* alloc_loc().                                                            *)

(* Step 1 of alloc_loc() pops a number of pages that are in the queue.     *)
LEMMA NPopType ==
  ASSUME IInv, NEW n \in Nat \ {0}
  PROVE  NPop(n) \in 0 .. Len(empty_pages)
<1>1. Len(empty_pages) \in Nat
  BY DEF IInv, TypeOK
<1>2. CASE FromEmpty(n)
  BY <1>1, <1>2, CeilDivBound DEF NPop, FromEmpty
<1>3. CASE ~FromEmpty(n)
  BY <1>1, <1>3 DEF NPop
<1> QED BY <1>2, <1>3

(* All that alloc_loc() may choose from is free, within the bound, and not *)
(* in a page that stays queued.                                            *)
LEMMA CandidatesFree ==
  ASSUME IInv, NEW n \in Nat \ {0}, NEW hs \in Seq(Pages),
         AlignUp(cur_loc + n) <= MaxLoc, NEW l \in Candidates(n, hs)
  PROVE  /\ l \in Locs
         /\ loc2id[l] = Invalid
         /\ \A k \in NPop(n) + 1 .. Len(empty_pages) : l \notin Slots(empty_pages[k])
         /\ FromEmpty(n) => l < cur_loc
<1>1. NPop(n) \in 0 .. Len(empty_pages) /\ Len(empty_pages) \in Nat
  BY NPopType DEF IInv, TypeOK
<1>2. CASE \E k \in 1 .. NPop(n) : l \in Slots(empty_pages[k])
  <2>1. PICK k \in 1 .. NPop(n) : l \in Slots(empty_pages[k])
    BY <1>2
  <2>2. k \in 1 .. Len(empty_pages)
    BY <1>1
  <2>3. l \in Locs /\ PageOf(l) = empty_pages[k]
    BY <2>1 DEF Slots
  <2>4. loc2id[l] = Invalid /\ l < cur_loc
    BY <2>1, <2>2 DEF IInv, QueuedPagesEmpty, TailFree
  <2>5. \A j \in NPop(n) + 1 .. Len(empty_pages) : l \notin Slots(empty_pages[j])
    BY <2>2, <2>3, <1>1 DEF IInv, QueuedPagesEmpty, Slots
  <2> QED BY <2>3, <2>4, <2>5
<1>3. CASE \E g \in Usable(n, hs) : l \in Holes(g)
  <2>1. ~FromEmpty(n)
    BY <1>3 DEF Usable
  <2>2. NPop(n) = Len(empty_pages)
    BY <2>1 DEF NPop
  <2> QED BY <1>1, <1>3, <2>1, <2>2 DEF Holes, Slots
<1>4. CASE l \in cur_loc .. cur_loc + n - 1 /\ ~FromEmpty(n)
  <2>1. NPop(n) = Len(empty_pages)
    BY <1>4 DEF NPop
  <2>2. cur_loc \in Nat
    BY LocTableAssumption DEF IInv, TypeOK
  <2>3. cur_loc + n <= MaxLoc
    BY <2>2, AlignUpType, LocTableAssumption
  <2>4. l \in Locs /\ l >= cur_loc
    BY <1>4, <2>2, <2>3, LocTableAssumption DEF Locs
  <2> QED BY <1>1, <1>4, <2>1, <2>4 DEF IInv, TailFree
<1> QED
  BY <1>2, <1>3, <1>4 DEF Candidates, Popped

(* The slots alloc_loc() returns are free, whichever step found them.      *)
LEMMA AllocSlotsFree ==
  ASSUME IInv, NEW n \in Nat \ {0}, NEW hs \in Seq(Pages),
         AlignUp(cur_loc + n) <= MaxLoc
  PROVE  /\ AllocSlots(n, hs) \subseteq Candidates(n, hs)
         /\ AllocSlots(n, hs) \subseteq Locs
         /\ IsFiniteSet(Candidates(n, hs))
<1>1. AllocSlots(n, hs) \subseteq Candidates(n, hs)
  BY Zenon DEF AllocSlots
<1>2. Candidates(n, hs) \subseteq Locs
  BY CandidatesFree
<1>3. IsFiniteSet(Locs)
  BY FS_Interval, LocTableAssumption DEF Locs
<1> QED BY <1>1, <1>2, <1>3, FS_Subset

(* alloc_loc() says which pages are to be read before they are written:    *)
(* the others have no record, in the slots that are not handed out either. *)
LEMMA UnreadPagesFree ==
  ASSUME IInv, NEW n \in Nat \ {0}, NEW hs \in Seq(Pages),
         AlignUp(cur_loc + n) <= MaxLoc,
         NEW m \in AllocSlots(n, hs), NEW l \in Slots(PageOf(m)),
         PageOf(m) \notin PagesToRead(n, hs, AllocSlots(n, hs))
  PROVE  l >= cur_loc \/ loc2id[l] = Invalid
<1> DEFINE slots == AllocSlots(n, hs)
           g == PageOf(m)
<1>1. /\ m \in Candidates(n, hs) /\ m \in Locs /\ m \in Nat /\ l \in Nat /\ l \in Locs
      /\ cur_loc \in Nat /\ NodesPerPage \in Nat \ {0}
  BY AllocSlotsFree, LocTableAssumption DEF IInv, TypeOK, Locs, Slots
<1>2. g \in Pages /\ m \in Slots(g) /\ PageOf(l) = g
  BY <1>1 DEF Pages, Slots
<1>3. CASE m >= cur_loc
  <2>1. PICK q \in Nat : cur_loc = NodesPerPage * q
    BY DEF IInv, TailFree
  <2>2. ~(l < cur_loc)
    <3> SUFFICES ASSUME l < cur_loc PROVE FALSE
      OBVIOUS
    <3>1. m < NodesPerPage * q
      BY <1>1, <1>2, <2>1, PageBelow
    <3> QED BY <1>1, <1>3, <2>1, <3>1
  <2> QED BY <1>1, <2>2
<1>4. CASE m < cur_loc /\ \E p \in Popped(n) : m \in Slots(p)
  <2>1. PICK k \in 1 .. NPop(n) : m \in Slots(empty_pages[k])
    BY <1>4 DEF Popped
  <2>2. k \in 1 .. Len(empty_pages)
    BY <2>1, NPopType DEF IInv, TypeOK
  <2>3. empty_pages[k] = g
    BY <2>1 DEF Slots
  <2> QED BY <2>2, <2>3 DEF IInv, QueuedPagesEmpty
<1>5. CASE m < cur_loc /\ \E p \in Usable(n, hs) : m \in Holes(p)
  <2>1. g \in Usable(n, hs)
    BY <1>5 DEF Holes, Slots
  <2>2. ~(Cardinality(Holes(g)) < NodesPerPage)
    <3>1. Slots(g) \cap slots # {}
      BY <1>2
    <3> QED BY <2>1, <3>1 DEF PagesToRead
  <2>3. IsFiniteSet(Slots(g)) /\ Cardinality(Slots(g)) <= NodesPerPage
    <3> DEFINE f == NodesPerPage * g
    <3>1. f \in Nat /\ \A x \in Slots(g) : f <= x /\ x < f + NodesPerPage /\ x \in Nat
      BY <1>1, <1>2, FirstSlot, LocTableAssumption DEF Slots, Locs
    <3> HIDE DEF f
    <3>2. Slots(g) \subseteq f .. f + NodesPerPage - 1
      <4>1. NodesPerPage \in Nat \ {0}
        BY <1>1
      <4> HIDE DEF g
      <4>2. ASSUME NEW x \in Slots(g)
            PROVE  x \in f .. f + NodesPerPage - 1
        BY ONLY <3>1, <4>1, x \in Slots(g)
      <4> QED BY <4>2
    <3>3. IsFiniteSet(f .. f + NodesPerPage - 1)
          /\ Cardinality(f .. f + NodesPerPage - 1) = NodesPerPage
      <4>1. f \in Int /\ f + NodesPerPage - 1 \in Int /\ ~(f > f + NodesPerPage - 1)
            /\ (f + NodesPerPage - 1) - f + 1 = NodesPerPage
        BY <1>1, <3>1
      <4> QED BY <4>1, FS_Interval
    <3> QED BY <3>2, <3>3, FS_Subset
  <2>4. Slots(g) \subseteq Holes(g)
    <3> SUFFICES ASSUME NEW x \in Slots(g), x \notin Holes(g) PROVE FALSE
      OBVIOUS
    <3>1. Holes(g) \subseteq Slots(g) \ {x}
      BY DEF Holes
    <3>2. IsFiniteSet(Slots(g) \ {x}) /\ Cardinality(Slots(g) \ {x}) = Cardinality(Slots(g)) - 1
      BY <2>3, FS_RemoveElement
    <3>3. Cardinality(Holes(g)) <= Cardinality(Slots(g) \ {x})
          /\ Cardinality(Holes(g)) \in Nat
      BY <3>1, <3>2, FS_Subset, FS_CardinalityType
    <3>4. Cardinality(Slots(g)) \in Nat
      BY <2>3, FS_CardinalityType
    <3> QED BY <1>1, <2>2, <2>3, <3>2, <3>3, <3>4
  <2> QED BY <1>2, <2>4 DEF Holes
<1>6. m >= cur_loc \/ (\E p \in Popped(n) : m \in Slots(p))
        \/ (\E p \in Usable(n, hs) : m \in Holes(p))
  BY <1>1 DEF Candidates
<1> QED BY <1>1, <1>3, <1>4, <1>5, <1>6

(* The new slots at the tail are consecutive: cur_loc, as it is increased, *)
(* stays within the bound and passes all of them, and no page is added     *)
(* that gets none of them.                                                 *)
LEMMA NewCurLocBounds ==
  ASSUME IInv, NEW n \in Nat \ {0}, NEW hs \in Seq(Pages),
         AlignUp(cur_loc + n) <= MaxLoc
  PROVE  LET curl == NewCurLoc(AllocSlots(n, hs))
         IN  /\ curl \in cur_loc .. MaxLoc
             /\ \E q \in Nat : curl = NodesPerPage * q
             /\ \A l \in AllocSlots(n, hs) : l < curl
             /\ \A g \in Nat : NodesPerPage * g \in cur_loc .. curl - 1 =>
                  NodesPerPage * g \in AllocSlots(n, hs)
<1> DEFINE slots == AllocSlots(n, hs)
           cand == Candidates(n, hs)
           fresh == {l \in slots : l >= cur_loc}
<1>1. cur_loc \in Nat /\ cur_loc <= MaxLoc /\ MaxLoc \in Nat
  BY LocTableAssumption DEF IInv, TypeOK
<1>2. slots \subseteq cand /\ slots \subseteq Nat /\ cand \subseteq Nat /\ IsFiniteSet(cand)
  <2>1. Locs \subseteq Nat
    BY LocTableAssumption DEF Locs
  <2> QED BY <2>1, AllocSlotsFree, CandidatesFree
<1>3. CASE fresh = {}
  <2>1. NewCurLoc(slots) = cur_loc
    BY <1>3 DEF NewCurLoc
  <2>2. \A l \in slots : l < cur_loc
    BY <1>1, <1>2, <1>3
  <2>3. cur_loc .. cur_loc - 1 = {}
    BY <1>1
  <2> QED BY <1>1, <2>1, <2>2, <2>3 DEF IInv, TailFree
<1>4. CASE fresh # {}
  <2>1. ~FromEmpty(n)
    BY <1>1, <1>2, <1>4, CandidatesFree
  <2>2. cur_loc .. cur_loc + n - 1 \subseteq cand
    BY <2>1 DEF Candidates
  <2> DEFINE order == SubSeq(empty_pages, 1, NPop(n)) \o hs
             rank == [l \in cand |->
                        IF l >= cur_loc THEN Len(order) + 1
                        ELSE CHOOSE i \in 1 .. Len(order) :
                               /\ order[i] = PageOf(l)
                               /\ \A j \in 1 .. i - 1 : order[j] # PageOf(l)]
             Before(l) == {m \in cand : rank[m] < rank[l] \/ (rank[m] = rank[l] /\ m < l)}
  <2>3. slots = {l \in cand : Cardinality(Before(l)) < n}
    BY Zenon DEF AllocSlots
  <2>4. \A l, m \in cand : l >= cur_loc /\ m >= cur_loc => rank[l] = rank[m]
    OBVIOUS
  <2> HIDE DEF order, rank, cand, slots
  <2>5. ASSUME NEW l \in cand
        PROVE  IsFiniteSet(Before(l)) /\ Cardinality(Before(l)) \in Nat
    <3>1. Before(l) \subseteq cand
      OBVIOUS
    <3> QED BY <3>1, <1>2, FS_Subset, FS_CardinalityType
  <2> HIDE DEF Before
  (* Of the slots behind the tail the first ones are taken, without gaps.  *)
  <2>6. ASSUME NEW l \in fresh
        PROVE  l \in cur_loc .. cur_loc + n - 1
    <3>1. l \in cand /\ l \in Nat /\ l >= cur_loc /\ Cardinality(Before(l)) < n
      BY <1>2, <2>3
    <3>2. SUFFICES ASSUME l >= cur_loc + n PROVE FALSE
      BY <3>1, <1>1
    <3>3. cur_loc .. cur_loc + n - 1 \subseteq Before(l)
      BY <3>1, <3>2, <1>1, <2>2, <2>4 DEF Before
    <3>4. IsFiniteSet(Before(l)) /\ Cardinality(Before(l)) \in Nat
      BY <3>1, <2>5
    <3>5. Cardinality(cur_loc .. cur_loc + n - 1) = n
      BY <1>1, FS_Interval
    <3>6. Cardinality(cur_loc .. cur_loc + n - 1) <= Cardinality(Before(l))
      BY <3>3, <3>4, FS_Subset
    <3> QED BY <3>1, <3>4, <3>5, <3>6
  <2>7. ASSUME NEW l \in fresh, NEW m \in cur_loc .. l
        PROVE  m \in fresh
    <3>1. l \in cand /\ l \in Nat /\ l >= cur_loc /\ Cardinality(Before(l)) < n
      BY <1>2, <2>3
    <3>2. m \in cand /\ m \in Nat /\ m >= cur_loc /\ m <= l
      BY <3>1, <1>1, <2>2, <2>6
    <3>3. rank[m] = rank[l]
      BY <3>1, <3>2, <2>4
    <3>4. Before(m) \subseteq Before(l)
      <4> SUFFICES ASSUME NEW j \in cand,
                          rank[j] < rank[m] \/ (rank[j] = rank[m] /\ j < m)
                   PROVE  rank[j] < rank[l] \/ (rank[j] = rank[l] /\ j < l)
        BY DEF Before
      <4>1. j \in Nat
        BY <1>2
      <4> QED BY <4>1, <3>1, <3>2, <3>3
    <3>5. Cardinality(Before(m)) <= Cardinality(Before(l))
      BY <3>1, <3>4, <2>5, FS_Subset
    <3>6. Cardinality(Before(m)) \in Nat /\ Cardinality(Before(l)) \in Nat
      BY <3>1, <3>2, <2>5
    <3>7. Cardinality(Before(m)) < n
      BY <3>1, <3>5, <3>6
    <3> QED BY <3>2, <3>7, <2>3
  <2> DEFINE k == Cardinality(fresh)
  <2>8. IsFiniteSet(fresh) /\ k \in Nat /\ k <= n
    <3>1. fresh \subseteq cur_loc .. cur_loc + n - 1
      BY <2>6
    <3>2. /\ IsFiniteSet(cur_loc .. cur_loc + n - 1)
          /\ Cardinality(cur_loc .. cur_loc + n - 1) = n
      BY <1>1, FS_Interval
    <3>3. IsFiniteSet(fresh) /\ k <= n
      BY <3>1, <3>2, FS_Subset
    <3> QED BY <3>3, FS_CardinalityType
  <2>9. ASSUME NEW l \in fresh
        PROVE  l < cur_loc + k
    <3>1. l \in Nat /\ l >= cur_loc
      BY <1>2
    <3>2. cur_loc .. l \subseteq fresh
      BY <2>7
    <3>3. Cardinality(cur_loc .. l) = l - cur_loc + 1
      BY <3>1, <1>1, FS_Interval
    <3>4. Cardinality(cur_loc .. l) <= k
      BY <3>2, <2>8, FS_Subset
    <3> QED BY <3>1, <3>3, <3>4, <1>1, <2>8
  <2>10. NewCurLoc(slots) = AlignUp(cur_loc + k)
    BY <1>4 DEF NewCurLoc
  <2> HIDE DEF fresh, k
  <2>11. cur_loc + k \in Nat /\ cur_loc + n \in Nat /\ cur_loc + k <= cur_loc + n
    BY <1>1, <2>8
  <2>12. /\ AlignUp(cur_loc + k) \in Nat /\ cur_loc + k <= AlignUp(cur_loc + k)
         /\ \E q \in Nat : AlignUp(cur_loc + k) = NodesPerPage * q
    BY <2>11, AlignUpType
  <2>13. AlignUp(cur_loc + n) \in Nat /\ AlignUp(cur_loc + k) <= AlignUp(cur_loc + n)
    BY <2>11, AlignUpType, AlignUpMonotone
  <2>14. AlignUp(cur_loc + k) \in cur_loc .. MaxLoc
    BY <1>1, <2>8, <2>12, <2>13
  <2>15. ASSUME NEW l \in slots
         PROVE  l < AlignUp(cur_loc + k)
    <3>1. l \in Nat
      BY <1>2
    <3>2. CASE l >= cur_loc
      BY <3>1, <3>2, <1>1, <2>8, <2>9, <2>12 DEF fresh
    <3>3. CASE l < cur_loc
      BY <3>1, <3>3, <1>1, <2>8, <2>12
    <3> QED BY <3>1, <3>2, <3>3, <1>1
  <2>16. ASSUME NEW g \in Nat, NodesPerPage * g \in cur_loc .. AlignUp(cur_loc + k) - 1
         PROVE  NodesPerPage * g \in slots
    <3> DEFINE f == NodesPerPage * g
    <3>1. f \in Nat /\ f >= cur_loc /\ f < AlignUp(cur_loc + k)
      BY <2>16, <2>12, <1>1
    <3>2. f < cur_loc + k
      BY <3>1, <2>11, AlignUpFirst
    <3>3. SUFFICES ASSUME f \notin fresh PROVE FALSE
      BY DEF fresh
    <3> HIDE DEF f
    <3>4. fresh \subseteq cur_loc .. f - 1
      <4> SUFFICES ASSUME NEW l \in fresh PROVE l \in cur_loc .. f - 1
        OBVIOUS
      <4>1. l \in Nat /\ l >= cur_loc
        BY <1>2 DEF fresh
      <4>2. ~(f <= l)
        BY <3>1, <3>3, <4>1, <1>1, <2>7
      <4> QED BY <4>1, <4>2, <3>1, <1>1
    <3>5. /\ IsFiniteSet(cur_loc .. f - 1)
          /\ Cardinality(cur_loc .. f - 1) = f - cur_loc
      <4>1. cur_loc \in Int /\ f \in Int /\ f - 1 \in Int /\ cur_loc <= f
        BY <3>1, <1>1
      <4>2. /\ IsFiniteSet(cur_loc .. f - 1)
            /\ Cardinality(cur_loc .. f - 1) =
                 IF cur_loc > f - 1 THEN 0 ELSE (f - 1) - cur_loc + 1
        BY ONLY <4>1, FS_Interval
      <4> QED BY ONLY <4>1, <4>2
    <3>6. k <= f - cur_loc
      BY <3>4, <3>5, FS_Subset DEF k
    <3> QED BY <3>1, <3>2, <3>6, <1>1, <2>8
  <2> QED BY <2>10, <2>12, <2>14, <2>15, <2>16 DEF slots
<1> QED BY <1>3, <1>4

(* alloc_loc() marks what it returns and takes nothing that is in use, be it*)
(* from an empty page, a hint page or the tail of the file.                *)
LEMMA AllocLocIInv ==
  ASSUME IInv, NEW p \in Inserters, NEW keep \in SUBSET nbrs[p], AllocLoc(p, keep)
  PROVE  IInv'
<1> DEFINE n == Cardinality(keep) + 1
           hs == hints[p]
           slots == AllocSlots(n, hs)
           curl == NewCurLoc(slots)
<1>1. /\ pc[p] = "search" /\ pc'[p] = "write"
      /\ nbrs'[p] = keep
      /\ n \in Nat \ {0} /\ hs \in Seq(Pages)
      /\ AlignUp(cur_loc + n) <= MaxLoc
  BY LocTableAssumption DEF AllocLoc, IInv, TypeOK
<1>2. \A q \in Inserters : q # p =>
        pc'[q] = pc[q] /\ nbrs'[q] = nbrs[q] /\ locs'[q] = locs[q]
  BY DEF AllocLoc, IInv, TypeOK
<1>3. /\ UNCHANGED <<cur_id, id2loc, target, orig_locs>>
      /\ cur_loc' = curl
      /\ loc2id' = [l \in Locs |-> IF l \in slots THEN Allocated
                                   ELSE IF l \in cur_loc .. curl - 1 THEN Invalid
                                   ELSE loc2id[l]]
      /\ empty_pages' = SubSeq(empty_pages, NPop(n) + 1, Len(empty_pages))
      /\ hints' = [hints EXCEPT ![p] = <<>>]
  BY DEF AllocLoc, AllocTables
<1>4. PICK a \in Bijection(keep \cup {target[p]}, slots) :
        locs' = [locs EXCEPT ![p] = a]
  BY DEF AllocLoc
<1>5. /\ locs'[p] = a /\ a \in [keep \cup {target[p]} -> slots]
      /\ \A i, j \in keep \cup {target[p]} : a[i] = a[j] => i = j
      /\ \A l \in slots : \E i \in keep \cup {target[p]} : a[i] = l
  BY <1>4 DEF IInv, TypeOK, Bijection, Injection, Surjection, IsInjective
<1>6. /\ slots \subseteq Locs
      /\ \A l \in slots : loc2id[l] = Invalid
      /\ \A k \in NPop(n) + 1 .. Len(empty_pages), l \in slots : l \notin Slots(empty_pages[k])
  BY <1>1, AllocSlotsFree, CandidatesFree
<1>7. /\ cur_loc \in Nat /\ cur_loc <= curl /\ curl \in 0 .. MaxLoc
      /\ \E q \in Nat : curl = NodesPerPage * q
      /\ \A l \in slots : l < curl
  <2>1. cur_loc \in Nat /\ MaxLoc \in Nat
    BY LocTableAssumption DEF IInv, TypeOK
  <2>2. /\ curl \in cur_loc .. MaxLoc
        /\ \E q \in Nat : curl = NodesPerPage * q
        /\ \A l \in slots : l < curl
    BY <1>1, NewCurLocBounds
  <2> HIDE DEF curl, slots
  <2> QED BY <2>1, <2>2
<1> HIDE DEF n, hs, slots, curl
<1>8. Allocated \notin Ids /\ Invalid \notin Ids /\ Allocated # Invalid
  BY LocTableAssumption DEF Allocated, Invalid, Ids
(* Only free locations change: to reserved, or they stay free.             *)
<1>9. \A l \in Locs :
        /\ l \in slots => loc2id'[l] = Allocated
        /\ l \notin slots => loc2id'[l] = loc2id[l]
  BY <1>3, <1>6 DEF IInv, TailFree
<1>10. Visible' = Visible
  <2>1. \A q \in Inserters : Unlinked(q)' <=> Unlinked(q)
    BY <1>1, <1>2 DEF Unlinked
  <2> QED BY <2>1, <1>3 DEF Visible
<1>11. MyIds(p)' = keep \cup {target[p]} /\ keep \subseteq nbrs[p]
  BY <1>1, <1>3 DEF MyIds
<1>12. \A q \in Inserters : q # p => Owner(q)' = Owner(q) /\ MyIds(q)' = MyIds(q)
  BY <1>2, <1>3 DEF Owner, MyIds
<1>13. \A q \in Inserters : pc'[q] = "erase" => q # p /\ pc[q] = "erase"
  BY <1>1, <1>2
<1>14. Settled' = Settled
  BY <1>1, <1>2, <1>10, <1>12, <1>13 DEF Settled
<1>15. NPop(n) \in 0 .. Len(empty_pages) /\ empty_pages \in Seq(Pages)
  BY <1>1, NPopType DEF IInv, TypeOK
<1>16. TypeOK'
  <2>1. loc2id' \in [Locs -> Ids \cup {Invalid, Allocated}]
    BY <1>3 DEF IInv, TypeOK
  <2>2. empty_pages' \in Seq(Pages)
    BY <1>3, <1>15
  <2>3. hints' \in [Inserters -> Seq(Pages)]
    BY <1>3 DEF IInv, TypeOK
  <2>4. nbrs' \in [Inserters -> SUBSET Ids]
    BY <1>11 DEF AllocLoc, IInv, TypeOK
  <2>5. pc' \in [Inserters -> {"idle", "search", "write", "lock", "move", "erase"}]
    BY DEF AllocLoc, IInv, TypeOK
  <2>6. keep \cup {target[p]} \subseteq Ids
    <3>1. nbrs[p] \subseteq Ids /\ cur_id <= MaxId /\ cur_id \in Nat
      BY LocTableAssumption DEF IInv, TypeOK
    <3>2. target[p] \in 0 .. cur_id - 1
      BY <1>1 DEF IInv, LocalsOK
    <3> QED BY <3>1, <3>2, LocTableAssumption DEF Ids
  <2>7. DOMAIN locs' = Inserters
    BY <1>4 DEF IInv, TypeOK
  <2>8. ASSUME NEW q \in Inserters
        PROVE  DOMAIN locs'[q] \subseteq Ids /\ \A i \in DOMAIN locs'[q] : locs'[q][i] \in Locs
    BY <2>6, <1>2, <1>5, <1>6 DEF IInv, TypeOK
  <2> QED BY <2>1, <2>2, <2>3, <2>4, <2>5, <2>7, <2>8, <1>3, <1>7 DEF IInv, TypeOK
<1>17. LocalsOK'
  <2>1. ASSUME NEW q \in Inserters
        PROVE  /\ pc'[q] = "idle" => target'[q] = Invalid
               /\ pc'[q] # "idle" => target'[q] \in 0 .. cur_id' - 1
               /\ target'[q] \notin nbrs'[q]
               /\ nbrs'[q] \subseteq Visible'
    BY <1>1, <1>2, <1>3, <1>10, <1>11 DEF IInv, LocalsOK
  <2>2. ASSUME NEW q \in Inserters, Owner(q)'
        PROVE  locs'[q] \in [MyIds(q)' -> Locs]
    <3>1. CASE q = p
      BY <3>1, <1>5, <1>6, <1>11
    <3>2. CASE q # p
      BY <2>2, <3>2, <1>2, <1>12 DEF IInv, LocalsOK
    <3> QED BY <3>1, <3>2
  <2>3. ASSUME NEW q \in Inserters, pc'[q] \in {"lock", "move", "erase"}
        PROVE  id2loc'[target'[q]] = locs'[q][target'[q]]
    BY <2>3, <1>1, <1>2, <1>3 DEF IInv, LocalsOK
  <2> QED BY <2>1, <2>2, <2>3 DEF LocalsOK
<1>18. TargetsDistinct'
  BY <1>3 DEF IInv, TargetsDistinct
<1>19. LocksDisjoint'
  BY <1>1, <1>2, <1>12 DEF IInv, LocksDisjoint, IdxLocked
<1>20. NamesLinked'
  BY <1>3, <1>8, <1>9 DEF IInv, NamesLinked
<1>21. TailFree'
  <2>1. ASSUME NEW l \in Locs, l >= curl
        PROVE  loc2id'[l] = Invalid
    <3>1. l >= cur_loc /\ l \notin slots
      BY <2>1, <1>7, LocTableAssumption DEF Locs
    <3> QED BY <3>1, <1>9 DEF IInv, TailFree
  <2>2. ASSUME NEW k \in 1 .. Len(empty_pages'), NEW l \in Slots(empty_pages'[k])
        PROVE  l < curl
    <3>1. NPop(n) + k \in 1 .. Len(empty_pages) /\ empty_pages'[k] = empty_pages[NPop(n) + k]
      BY <1>3, <1>15
    <3>2. l \in Locs /\ l < cur_loc
      BY <3>1 DEF IInv, TailFree, Slots
    <3> QED BY <3>2, <1>7, LocTableAssumption DEF Locs
  <2> QED BY <2>1, <2>2, <1>3, <1>7 DEF TailFree, Slots
<1>22. Moving'
  <2>1. ASSUME NEW q \in Inserters, pc'[q] = "erase"
        PROVE  /\ orig_locs'[q] \in [nbrs'[q] -> Locs]
               /\ \A i \in nbrs'[q] :
                    id2loc'[i] = locs'[q][i] /\ loc2id'[orig_locs'[q][i]] = i
    <3>1. q # p /\ pc[q] = "erase" /\ nbrs[q] \subseteq Ids
      BY <2>1, <1>13 DEF IInv, TypeOK
    <3>2. \A i \in nbrs[q] : orig_locs[q][i] \notin slots
      BY <3>1, <1>6, <1>8 DEF IInv, Moving
    <3> QED BY <3>1, <3>2, <1>2, <1>3, <1>9 DEF IInv, Moving
  <2> QED BY <2>1 DEF Moving
<1>23. MappingConsistent'
  <2>1. ASSUME NEW i \in Settled
        PROVE  id2loc[i] \in 0 .. curl - 1 /\ loc2id'[id2loc[i]] = i
    <3>1. i \in Ids /\ id2loc[i] \in Locs
      BY VisibleLocated DEF Settled
    <3>2. id2loc[i] \in 0 .. cur_loc - 1 /\ loc2id[id2loc[i]] = i
      BY DEF IInv, MappingConsistent
    <3>3. id2loc[i] \notin slots
      BY <3>1, <3>2, <1>6, <1>8
    <3> QED BY <3>1, <3>2, <3>3, <1>7, <1>9
  <2> QED BY <2>1, <1>3, <1>14 DEF MappingConsistent
<1>24. NoDuplicateIds'
  <2>1. ASSUME NEW l \in Locs, loc2id'[l] \in Ids
        PROVE  loc2id'[l] = loc2id[l]
    BY <2>1, <1>8, <1>9
  <2>2. \A q \in Inserters : pc[q] = "erase" => pc'[q] = "erase" /\ nbrs'[q] = nbrs[q]
    BY <1>1, <1>2
  <2> QED BY <2>1, <2>2, <1>3 DEF IInv, NoDuplicateIds
<1>25. AllocationsExclusive'
  <2>1. ASSUME NEW q \in Inserters, Owner(q)', NEW i \in MyIds(q)'
        PROVE  /\ loc2id'[locs'[q][i]] = Allocated
               /\ q # p => Owner(q) /\ i \in MyIds(q) /\ locs'[q] = locs[q]
                           /\ locs'[q][i] \notin slots
    <3>1. CASE q = p
      BY <3>1, <1>5, <1>6, <1>9, <1>11
    <3>2. CASE q # p
      <4>1. Owner(q) /\ i \in MyIds(q) /\ locs'[q] = locs[q]
        BY <2>1, <3>2, <1>2, <1>12
      <4>2. locs[q][i] \in Locs /\ loc2id[locs[q][i]] = Allocated
        BY <4>1 DEF IInv, LocalsOK, AllocationsExclusive
      <4> QED BY <4>1, <4>2, <1>6, <1>8, <1>9
    <3> QED BY <3>1, <3>2
  <2>2. ASSUME NEW q \in Inserters, Owner(q)', NEW r \in Inserters, Owner(r)',
               NEW i \in MyIds(q)', NEW j \in MyIds(r)', locs'[q][i] = locs'[r][j]
        PROVE  q = r /\ i = j
    <3>1. CASE q = p /\ r = p
      BY <2>2, <3>1, <1>5, <1>11
    <3>2. CASE q = p /\ r # p
      BY <2>1, <2>2, <3>2, <1>5, <1>11
    <3>3. CASE q # p /\ r = p
      BY <2>1, <2>2, <3>3, <1>5, <1>11
    <3>4. CASE q # p /\ r # p
      BY <2>1, <2>2, <3>4 DEF IInv, AllocationsExclusive
    <3> QED BY <3>1, <3>2, <3>3, <3>4
  <2> QED BY <2>1, <2>2 DEF AllocationsExclusive
<1>26. NoLeakedSlot'
  <2> SUFFICES ASSUME NEW l \in Locs, loc2id'[l] = Allocated
               PROVE  \E q \in Inserters : Owner(q)' /\ \E i \in MyIds(q)' : locs'[q][i] = l
    BY DEF NoLeakedSlot
  <2>1. CASE l \in slots
    BY <2>1, <1>1, <1>5, <1>11 DEF Owner
  <2>2. CASE l \notin slots
    <3>1. PICK q \in Inserters : Owner(q) /\ \E i \in MyIds(q) : locs[q][i] = l
      BY <2>2, <1>9 DEF IInv, NoLeakedSlot
    <3>2. q # p
      BY <3>1, <1>1 DEF Owner
    <3> QED BY <3>1, <3>2, <1>2, <1>12
  <2> QED BY <2>1, <2>2
<1>27. QueuedPagesEmpty'
  <2>1. ASSUME NEW k \in 1 .. Len(empty_pages')
        PROVE  /\ NPop(n) + k \in NPop(n) + 1 .. Len(empty_pages)
               /\ NPop(n) + k \in 1 .. Len(empty_pages)
               /\ empty_pages'[k] = empty_pages[NPop(n) + k]
    BY <1>3, <1>15
  <2>2. ASSUME NEW k \in 1 .. Len(empty_pages'), NEW l \in Slots(empty_pages'[k])
        PROVE  loc2id'[l] = Invalid
    <3>1. l \in Locs /\ loc2id[l] = Invalid
      BY <2>1 DEF IInv, QueuedPagesEmpty, Slots
    <3>2. l \notin slots
      BY <2>1, <1>6
    <3> QED BY <3>1, <3>2, <1>9
  <2>3. ASSUME NEW j \in 1 .. Len(empty_pages'), NEW k \in 1 .. Len(empty_pages'),
               empty_pages'[j] = empty_pages'[k]
        PROVE  j = k
    <3>1. NPop(n) + j = NPop(n) + k
      BY <2>1, <2>3 DEF IInv, QueuedPagesEmpty
    <3> QED BY <3>1, <1>15
  <2>4. \A j, k \in 1 .. Len(empty_pages') : empty_pages'[j] = empty_pages'[k] => j = k
    BY <2>3
  <2> QED BY <2>2, <2>4 DEF QueuedPagesEmpty, Slots
<1> QED
  BY <1>16, <1>17, <1>18, <1>19, <1>20, <1>21, <1>22, <1>23, <1>24, <1>25, <1>26, <1>27
     DEF IInv

-----------------------------------------------------------------------------
(* No page is lost.  EmptyPagesQueued is inductive relative to IInv.       *)

(* The pages that alloc_loc() considers, in order: the empty pages that    *)
(* step 1 pops and then the hint pages.                                    *)
LEMMA PagesListed ==
  ASSUME IInv, NEW n \in Nat \ {0}, NEW hs \in Seq(Pages)
  PROVE  LET order == SubSeq(empty_pages, 1, NPop(n)) \o hs
         IN  /\ NPop(n) \in Nat /\ NPop(n) <= Len(empty_pages) /\ Len(hs) \in Nat
             /\ Len(order) = NPop(n) + Len(hs)
             /\ \A i \in 1 .. NPop(n) : order[i] = empty_pages[i]
             /\ \A i \in 1 .. Len(hs) : order[NPop(n) + i] = hs[i]
<1>1. empty_pages \in Seq(Pages) /\ Len(empty_pages) \in Nat /\ Len(hs) \in Nat
  BY DEF IInv, TypeOK
<1>2. NPop(n) \in Nat /\ NPop(n) <= Len(empty_pages)
  BY <1>1, NPopType
<1> DEFINE front == SubSeq(empty_pages, 1, NPop(n))
<1>3. /\ front \in Seq(Pages) /\ Len(front) = NPop(n)
      /\ \A i \in 1 .. NPop(n) : front[i] = empty_pages[i]
  BY <1>1, <1>2
<1> HIDE DEF front
<1>4. Len(front \o hs) = NPop(n) + Len(hs)
  BY <1>1, <1>2, <1>3
<1>5. \A i \in 1 .. NPop(n) : (front \o hs)[i] = empty_pages[i]
  BY <1>1, <1>2, <1>3
<1>6. ASSUME NEW i \in 1 .. Len(hs)
      PROVE  (front \o hs)[NPop(n) + i] = hs[i]
  <2>1. NPop(n) + i \in Len(front) + 1 .. Len(front) + Len(hs)
    BY <1>1, <1>2, <1>3
  <2>2. (NPop(n) + i) - Len(front) = i
    BY <1>2, <1>3
  <2> QED BY ONLY <2>1, <2>2, <1>3, hs \in Seq(Pages)
<1> QED BY <1>1, <1>2, <1>4, <1>5, <1>6 DEF front

(* The page of each candidate below the tail is somewhere in that list.    *)
LEMMA CandidateListed ==
  ASSUME IInv, NEW n \in Nat \ {0}, NEW hs \in Seq(Pages),
         AlignUp(cur_loc + n) <= MaxLoc, NEW m \in Candidates(n, hs), m < cur_loc
  PROVE  LET order == SubSeq(empty_pages, 1, NPop(n)) \o hs
         IN  \E i \in 1 .. Len(order) :
               /\ order[i] = PageOf(m)
               /\ \A j \in 1 .. i - 1 : order[j] # PageOf(m)
<1> DEFINE order == SubSeq(empty_pages, 1, NPop(n)) \o hs
           S == {i \in 1 .. Len(order) : order[i] = PageOf(m)}
<1>1. cur_loc \in Nat
  BY LocTableAssumption DEF IInv, TypeOK
<1>2. /\ NPop(n) \in Nat /\ Len(hs) \in Nat /\ Len(order) = NPop(n) + Len(hs)
      /\ \A i \in 1 .. NPop(n) : order[i] = empty_pages[i]
      /\ \A i \in 1 .. Len(hs) : order[NPop(n) + i] = hs[i]
  BY PagesListed
<1> HIDE DEF order
<1>3. S # {}
  <2>1. CASE \E k \in 1 .. NPop(n) : m \in Slots(empty_pages[k])
    BY <1>1, <1>2, <2>1 DEF Slots
  <2>2. CASE \E g \in Usable(n, hs) : m \in Holes(g)
    <3>1. PICK i \in 1 .. Len(hs) : hs[i] = PageOf(m)
      BY <2>2 DEF Usable, Holes, Slots, ToSet
    <3>2. NPop(n) + i \in 1 .. Len(order)
      BY <1>1, <1>2
    <3> QED BY <3>1, <3>2, <1>2
  <2>3. m \notin cur_loc .. cur_loc + n - 1
    BY <1>1
  <2> QED BY <2>1, <2>2, <2>3 DEF Candidates, Popped
<1>4. S \subseteq Nat
  OBVIOUS
<1> HIDE DEF S
<1>5. PICK i \in S : \A j \in S : i <= j
  BY ONLY <1>3, <1>4, LeastNatural
<1>6. i \in 1 .. Len(order) /\ order[i] = PageOf(m)
  BY <1>5 DEF S
<1>7. \A j \in 1 .. i - 1 : order[j] # PageOf(m)
  <2> SUFFICES ASSUME NEW j \in 1 .. i - 1, order[j] = PageOf(m) PROVE FALSE
    OBVIOUS
  <2>1. j \in 1 .. Len(order) /\ ~(i <= j)
    BY <1>1, <1>2, <1>6
  <2> QED BY <2>1, <1>5 DEF S
<1> QED BY <1>6, <1>7 DEF order

(* Step 1 of alloc_loc() pops no page that it takes no slot of: the n-th   *)
(* slot is in the last page popped.                                        *)
LEMMA PoppedBound ==
  ASSUME IInv, NEW n \in Nat \ {0}, NEW k \in 1 .. NPop(n)
  PROVE  NodesPerPage * (k - 1) < n
<1> DEFINE N == NodesPerPage
           len == Len(empty_pages)
<1>1. N \in Nat \ {0} /\ len \in Nat /\ NPop(n) \in 0 .. len
  BY NPopType, LocTableAssumption DEF IInv, TypeOK
<1>2. k \in Nat /\ k - 1 \in Nat /\ k <= NPop(n) /\ k <= len
  BY <1>1
<1>3. N * k = N * (k - 1) + N
  BY <1>1, <1>2
<1>4. CASE FromEmpty(n)
  <2>1. NPop(n) = (n + N - 1) \div N
    BY <1>4 DEF NPop
  <2>2. N * NPop(n) <= n + N - 1
    BY <2>1, <1>1, DivBounds
  <2> HIDE DEF N
  <2>3. N * k <= N * NPop(n)
    BY <1>1, <1>2, MulMonotone
  <2>4. N * k \in Nat /\ N * NPop(n) \in Nat /\ N * (k - 1) \in Nat
    BY <1>1, <1>2
  <2> QED BY <2>2, <2>3, <2>4, <1>1, <1>3 DEF N
<1>5. CASE ~FromEmpty(n)
  <2>1. ~(n <= N * len)
    BY <1>5 DEF FromEmpty
  <2> HIDE DEF N, len
  <2>2. N * k <= N * len
    BY <1>1, <1>2, MulMonotone
  <2>3. N * k \in Nat /\ N * len \in Nat /\ N * (k - 1) \in Nat
    BY <1>1, <1>2
  <2> QED BY <2>1, <2>2, <2>3, <1>1, <1>3 DEF N
<1> QED BY <1>4, <1>5

(* Every page that step 1 of alloc_loc() pops gets a record: its first slot*)
(* comes after at most the slots of the pages popped before it.            *)
LEMMA PoppedPagesUsed ==
  ASSUME IInv, NEW n \in Nat \ {0}, NEW hs \in Seq(Pages),
         AlignUp(cur_loc + n) <= MaxLoc, NEW k \in 1 .. NPop(n)
  PROVE  NodesPerPage * empty_pages[k] \in AllocSlots(n, hs)
<1> DEFINE N == NodesPerPage
           slots == AllocSlots(n, hs)
           cand == Candidates(n, hs)
           order == SubSeq(empty_pages, 1, NPop(n)) \o hs
           First(l, i) == /\ order[i] = PageOf(l)
                          /\ \A j \in 1 .. i - 1 : order[j] # PageOf(l)
           rank == [l \in cand |->
                      IF l >= cur_loc THEN Len(order) + 1
                      ELSE CHOOSE i \in 1 .. Len(order) : First(l, i)]
           Before(l) == {m \in cand : rank[m] < rank[l] \/ (rank[m] = rank[l] /\ m < l)}
           g == empty_pages[k]
           f == N * g
<1>1. /\ empty_pages \in Seq(Pages) /\ Len(empty_pages) \in Nat
      /\ NPop(n) \in Nat /\ NPop(n) <= Len(empty_pages)
      /\ k \in Nat /\ k >= 1 /\ k <= NPop(n)
      /\ N \in Nat \ {0} /\ cur_loc \in Nat
  BY PagesListed, LocTableAssumption DEF IInv, TypeOK
<1>2. k \in 1 .. Len(empty_pages) /\ g \in Pages
  BY <1>1
<1>3. g \in Nat /\ f \in Slots(g) /\ \A l \in Slots(g) : f <= l
  BY <1>2, FirstSlot
<1>4. f \in cand /\ f < cur_loc /\ PageOf(f) = g /\ f \in Nat
  <2>1. f < cur_loc
    BY <1>2, <1>3 DEF IInv, TailFree
  <2>2. f \in cand
    BY <1>3 DEF Candidates, Popped
  <2> QED BY <2>1, <2>2, <1>1, <1>3 DEF Slots
<1>5. cand \subseteq Nat /\ cand \subseteq Locs /\ IsFiniteSet(cand)
  <2>1. Locs \subseteq Nat
    BY LocTableAssumption DEF Locs
  <2> QED BY <2>1, AllocSlotsFree, CandidatesFree
<1>6. /\ Len(order) = NPop(n) + Len(hs) /\ Len(hs) \in Nat
      /\ \A i \in 1 .. NPop(n) : order[i] = empty_pages[i]
  BY PagesListed
<1>7. slots = {l \in cand : Cardinality(Before(l)) < n}
  BY Zenon DEF AllocSlots
<1>8. ASSUME NEW m \in cand, m < cur_loc
      PROVE  rank[m] \in 1 .. Len(order) /\ First(m, rank[m])
  <2>1. \E i \in 1 .. Len(order) : First(m, i)
    BY <1>8, CandidateListed
  <2>2. ~(m >= cur_loc)
    BY <1>8, <1>1, <1>5
  <2>3. rank[m] = CHOOSE i \in 1 .. Len(order) : First(m, i)
    BY <2>2
  <2> HIDE DEF First, rank
  <2> QED BY <2>1, <2>3
<1>9. \A m \in cand : m >= cur_loc => rank[m] = Len(order) + 1
  OBVIOUS
<1> HIDE DEF rank, cand, order, slots, Before, f, g, N
(* The pages that are popped are listed once, in the order of the queue.   *)
<1>10. rank[f] = k
  <2>1. rank[f] \in 1 .. Len(order) /\ First(f, rank[f])
    BY <1>4, <1>8
  <2>2. order[k] = g /\ k \in 1 .. Len(order)
    BY <1>1, <1>6 DEF g
  <2>3. ~(k < rank[f])
    BY <2>1, <2>2, <1>4
  <2>4. ~(rank[f] < k)
    <3> SUFFICES ASSUME rank[f] < k PROVE FALSE
      OBVIOUS
    <3>1. rank[f] \in 1 .. NPop(n) /\ rank[f] \in 1 .. Len(empty_pages)
      BY <2>1, <1>1
    <3>2. empty_pages[rank[f]] = empty_pages[k]
      BY <3>1, <2>1, <1>4, <1>6 DEF g
    <3>3. rank[f] = k
      BY <3>1, <3>2, <1>2 DEF IInv, QueuedPagesEmpty
    <3> QED BY <3>3, <1>1
  <2> QED BY <2>1, <2>2, <2>3, <2>4
<1>11. ASSUME NEW m \in Before(f)
       PROVE  /\ m \in Nat /\ rank[m] \in 1 .. k - 1
              /\ PageOf(m) = empty_pages[rank[m]]
              /\ m - N * PageOf(m) \in 0 .. N - 1
  <2>1. m \in cand /\ m \in Nat /\ (rank[m] < k \/ (rank[m] = k /\ m < f))
    BY <1>5, <1>10 DEF Before
  <2>2. m < cur_loc
    <3> SUFFICES ASSUME m >= cur_loc PROVE FALSE
      BY <2>1, <1>1
    <3>1. rank[m] = Len(order) + 1
      BY <2>1, <1>9
    <3> QED BY <3>1, <2>1, <1>1, <1>6
  <2>3. rank[m] \in 1 .. Len(order) /\ order[rank[m]] = PageOf(m)
    BY <2>1, <2>2, <1>8
  <2>4. m \in Slots(PageOf(m)) /\ PageOf(m) \in Pages
    BY <2>1, <1>5 DEF Slots, Pages
  <2>5. rank[m] # k
    <3> SUFFICES ASSUME rank[m] = k PROVE FALSE
      OBVIOUS
    <3>1. PageOf(m) = g
      BY <2>3, <1>6 DEF g
    <3> QED BY <3>1, <2>1, <2>4, <1>3, <1>4, <1>1
  <2>6. rank[m] \in 1 .. k - 1
    BY <2>1, <2>3, <2>5, <1>1
  <2>7. PageOf(m) = empty_pages[rank[m]]
    <3>1. rank[m] \in 1 .. NPop(n)
      BY <2>6, <1>1
    <3> QED BY ONLY <3>1, <2>3, <1>6
  <2>8. PageOf(m) \in Nat /\ N * PageOf(m) <= m /\ m < N * PageOf(m) + N
    BY <2>4, FirstSlot DEF N
  <2>9. N * PageOf(m) \in Nat
    BY <2>8, <1>1
  <2>10. m - N * PageOf(m) \in 0 .. N - 1
    BY ONLY <2>1, <2>8, <2>9, <1>1
  <2> QED BY <2>1, <2>6, <2>7, <2>10
(* The slots before f are fewer than n: their pages come before f's.       *)
<1> DEFINE top == N * (k - 1)
           h == [m \in Before(f) |-> N * (rank[m] - 1) + (m - N * PageOf(m))]
<1>12. top \in Nat /\ top < n
  <2>1. top < n
    BY PoppedBound DEF N
  <2> QED BY <2>1, <1>1
<1>13. ASSUME NEW m \in Before(f)
       PROVE  h[m] \in 0 .. top - 1
  <2> DEFINE r == rank[m]
             o == m - N * PageOf(m)
  <2>1. r \in 1 .. k - 1 /\ o \in 0 .. N - 1
    BY <1>11
  <2>2. h[m] = N * (r - 1) + o
    OBVIOUS
  <2> HIDE DEF h, r, o
  <2>3. N * r <= N * (k - 1)
    BY <2>1, <1>1, MulMonotone
  <2>4. N * r = N * (r - 1) + N /\ N * (r - 1) \in Nat
    BY <2>1, <1>1
  <2>5. N * (r - 1) + o <= top - 1
    BY <2>1, <2>3, <2>4, <1>1, <1>12
  <2> QED BY <2>1, <2>2, <2>4, <2>5, <1>12
<1>14. ASSUME NEW m \in Before(f), NEW l \in Before(f), h[m] = h[l]
       PROVE  m = l
  <2> DEFINE rm == rank[m]
             rl == rank[l]
             om == m - N * PageOf(m)
             ol == l - N * PageOf(l)
  <2>1. /\ rm \in 1 .. k - 1 /\ om \in 0 .. N - 1 /\ m \in Nat
        /\ rl \in 1 .. k - 1 /\ ol \in 0 .. N - 1 /\ l \in Nat
        /\ PageOf(m) = empty_pages[rm] /\ PageOf(l) = empty_pages[rl]
    BY <1>11
  <2>2. N * (rm - 1) + om = N * (rl - 1) + ol
    BY <1>14
  <2>3. rm = rl
    <3> HIDE DEF rm, rl, om, ol
    <3>1. N * (rm - 1) \in Nat /\ N * (rl - 1) \in Nat
          /\ N * rm = N * (rm - 1) + N /\ N * rl = N * (rl - 1) + N
      BY <2>1, <1>1
    <3>2. ~(rm <= rl - 1)
      <4> SUFFICES ASSUME rm <= rl - 1 PROVE FALSE
        OBVIOUS
      <4>1. N * rm <= N * (rl - 1)
        BY <2>1, <1>1, MulMonotone
      <4> QED BY <4>1, <3>1, <2>1, <2>2, <1>1
    <3>3. ~(rl <= rm - 1)
      <4> SUFFICES ASSUME rl <= rm - 1 PROVE FALSE
        OBVIOUS
      <4>1. N * rl <= N * (rm - 1)
        BY <2>1, <1>1, MulMonotone
      <4> QED BY <4>1, <3>1, <2>1, <2>2, <1>1
    <3> QED BY <3>2, <3>3, <2>1, <1>1
  <2>4. PageOf(m) = PageOf(l) /\ om = ol
    <3>1. PageOf(m) = PageOf(l)
      BY <2>1, <2>3
    <3> HIDE DEF om, ol
    <3>2. om = ol
      BY <2>1, <2>2, <2>3, <1>1
    <3> QED BY <3>1, <3>2
  <2>5. N * PageOf(m) \in Int
    <3>1. PageOf(m) \in Pages
      BY <1>5 DEF Before, Pages
    <3> QED BY <3>1, FirstSlot, <1>1
  <2> QED BY <2>1, <2>4, <2>5
<1> HIDE DEF h, top
<1>15. h \in Injection(Before(f), 0 .. top - 1)
  <2>1. h \in [Before(f) -> 0 .. top - 1]
    BY <1>13 DEF h
  <2> QED BY <2>1, <1>14 DEF Injection, IsInjective
<1>16. Cardinality(Before(f)) < n
  <2>1. IsFiniteSet(0 .. top - 1) /\ Cardinality(0 .. top - 1) = top
    <3>1. top - 1 \in Int /\ top \in Nat
      BY <1>12
    <3>2. /\ IsFiniteSet(0 .. top - 1)
          /\ Cardinality(0 .. top - 1) = IF 0 > top - 1 THEN 0 ELSE (top - 1) - 0 + 1
      BY ONLY <3>1, FS_Interval
    <3> QED BY ONLY <3>1, <3>2
  <2>2. IsFiniteSet(Before(f)) /\ Cardinality(Before(f)) <= top
    BY <2>1, <1>15, FS_Injection
  <2>3. Cardinality(Before(f)) \in Nat
    BY <2>2, FS_CardinalityType
  <2> QED BY <2>2, <2>3, <1>12
<1> QED BY <1>4, <1>7, <1>16 DEF slots, f, g, N

(* A loaded index has no page without a record: even its last page begins  *)
(* with one (load_page_layout()).                                          *)
LEMMA InitQueued == Init => EmptyPagesQueued
<1> SUFFICES ASSUME Init,
                    NEW g \in Pages,
                    \A l \in Slots(g) : l < cur_loc /\ loc2id[l] = Invalid
             PROVE  FALSE
  BY DEF EmptyPagesQueued
<1> DEFINE f == NodesPerPage * g
<1>1. g \in Nat /\ f \in Slots(g) /\ f < AlignUp(NPoints) /\ loc2id[f] = Invalid
  BY FirstSlot DEF Init, InitTables
<1>2. f < NPoints
  BY <1>1, AlignUpFirst, LocTableAssumption
<1>3. f \in Locs /\ f \in Nat
  BY <1>1, LocTableAssumption DEF Slots, Locs
<1>4. loc2id[f] = f
  BY <1>2, <1>3 DEF Init, InitTables
<1> QED BY <1>1, <1>3, <1>4 DEF Invalid

(* erase_and_set_loc() queues each page whose last record it erases.       *)
LEMMA EraseAndSetLocQueued ==
  ASSUME IInv, EmptyPagesQueued, NEW p \in Inserters, EraseAndSetLoc(p)
  PROVE  EmptyPagesQueued'
<1> USE DEF EraseAndSetLoc, CommitTables
<1> SUFFICES ASSUME NEW g \in Pages,
                    \A l \in Slots(g) : l < cur_loc /\ loc2id'[l] = Invalid
             PROVE  \E k \in 1 .. Len(empty_pages') : empty_pages'[k] = g
  BY DEF EmptyPagesQueued, Slots
<1>1. pc[p] = "erase" /\ loc2id' = Committed(p)
  OBVIOUS
<1>2. PICK order \in SetToSeqs(EmptiedPages(p)) : empty_pages' = empty_pages \o order
  OBVIOUS
<1>3. orig_locs[p] \in [nbrs[p] -> Locs]
  BY <1>1 DEF IInv, Moving
<1>4. EmptiedPages(p) \in SUBSET Pages
  BY <1>3 DEF EmptiedPages, Pages
<1>5. /\ order \in Seq(Pages)
      /\ \A h \in EmptiedPages(p) : \E k \in 1 .. Len(order) : order[k] = h
  <2>1. /\ order \in Seq(EmptiedPages(p))
        /\ \A h \in EmptiedPages(p) : \E k \in 1 .. Len(order) : order[k] = h
    BY <1>2, <1>4, PagesOrdered
  <2> QED BY <2>1, <1>4
<1>6. /\ empty_pages \in Seq(Pages) /\ Len(empty_pages) \in Nat
      /\ Len(empty_pages') = Len(empty_pages) + Len(order)
      /\ \A k \in 1 .. Len(empty_pages) : empty_pages'[k] = empty_pages[k]
      /\ \A k \in 1 .. Len(order) : empty_pages'[Len(empty_pages) + k] = order[k]
  BY <1>2, <1>5 DEF IInv, TypeOK
(* Either the page was empty before, or a record of it is erased now.      *)
<1>7. CASE \A l \in Slots(g) : loc2id[l] = Invalid
  <2>1. PICK k \in 1 .. Len(empty_pages) : empty_pages[k] = g
    BY <1>7 DEF EmptyPagesQueued
  <2>2. k \in 1 .. Len(empty_pages')
    BY <1>5, <1>6
  <2> QED BY <2>1, <2>2, <1>6
<1>8. CASE \E l \in Slots(g) : loc2id[l] # Invalid
  <2>1. PICK l \in Slots(g) : loc2id[l] # Invalid
    BY <1>8
  <2>2. Committed(p)[l] = Invalid /\ l \in Locs /\ PageOf(l) = g
    BY <1>1 DEF Slots
  <2>3. \E i \in nbrs[p] : orig_locs[p][i] = l
    <3>1. ASSUME NEW i \in MyIds(p) PROVE locs[p][i] # l
      <4>1. i \in Ids
        <5>1. /\ nbrs[p] \subseteq Ids /\ target[p] \in 0 .. cur_id - 1
              /\ cur_id \in Nat /\ cur_id <= MaxId
          BY <1>1, LocTableAssumption DEF IInv, TypeOK, LocalsOK
        <5> QED BY <5>1, LocTableAssumption DEF MyIds, Ids
      <4>2. Committed(p)[locs[p][i]] = i
        BY <1>1, CommittedFacts
      <4> QED BY <4>1, <4>2, <2>2, LocTableAssumption DEF Ids, Invalid
    <3> QED BY <3>1, <2>1, <2>2, <1>1, CommittedFacts
  <2>4. g \in EmptiedPages(p)
    BY <2>2, <2>3, <1>1 DEF EmptiedPages
  <2>5. PICK k \in 1 .. Len(order) : order[k] = g
    BY <2>4, <1>5
  <2>6. Len(empty_pages) + k \in 1 .. Len(empty_pages')
    BY <1>5, <1>6
  <2> QED BY <2>5, <2>6, <1>6
<1> QED BY <1>7, <1>8

(* alloc_loc() takes no page from the queue and adds none to the file that *)
(* it reserves no slot of.                                                 *)
LEMMA AllocLocQueued ==
  ASSUME IInv, EmptyPagesQueued,
         NEW p \in Inserters, NEW keep \in SUBSET nbrs[p], AllocLoc(p, keep)
  PROVE  EmptyPagesQueued'
<1> DEFINE n == Cardinality(keep) + 1
           hs == hints[p]
           slots == AllocSlots(n, hs)
           curl == NewCurLoc(slots)
<1>1. n \in Nat \ {0} /\ hs \in Seq(Pages) /\ AlignUp(cur_loc + n) <= MaxLoc
  BY LocTableAssumption DEF AllocLoc, IInv, TypeOK
<1>2. /\ cur_loc' = curl
      /\ loc2id' = [l \in Locs |-> IF l \in slots THEN Allocated
                                   ELSE IF l \in cur_loc .. curl - 1 THEN Invalid
                                   ELSE loc2id[l]]
      /\ empty_pages' = SubSeq(empty_pages, NPop(n) + 1, Len(empty_pages))
  BY DEF AllocLoc, AllocTables
<1>3. /\ slots \subseteq Locs
      /\ cur_loc \in Nat /\ curl \in cur_loc .. MaxLoc
      /\ \A g \in Nat : NodesPerPage * g \in cur_loc .. curl - 1 =>
           NodesPerPage * g \in slots
      /\ \A k \in 1 .. NPop(n) : NodesPerPage * empty_pages[k] \in slots
  <2>1. cur_loc \in Nat
    BY LocTableAssumption DEF IInv, TypeOK
  <2> QED BY <2>1, <1>1, AllocSlotsFree, NewCurLocBounds, PoppedPagesUsed
<1>4. /\ empty_pages \in Seq(Pages) /\ Len(empty_pages) \in Nat
      /\ NPop(n) \in Nat /\ NPop(n) <= Len(empty_pages)
  BY <1>1, PagesListed DEF IInv, TypeOK
<1> HIDE DEF n, hs, slots, curl
<1> SUFFICES ASSUME NEW g \in Pages,
                    \A l \in Slots(g) : l < curl /\ loc2id'[l] = Invalid
             PROVE  \E k \in 1 .. Len(empty_pages') : empty_pages'[k] = g
  BY <1>2 DEF EmptyPagesQueued, Slots
<1> DEFINE f == NodesPerPage * g
<1>5. g \in Nat /\ f \in Slots(g) /\ f \in Nat /\ f \in Locs
  BY FirstSlot, LocTableAssumption DEF Slots, Locs
<1>6. \A l \in Slots(g) : l \in Locs /\ l \notin slots
  BY <1>2 DEF Slots, Allocated, Invalid
<1> HIDE DEF f
<1>7. f < cur_loc
  <2> SUFFICES ASSUME f >= cur_loc PROVE FALSE
    BY <1>3, <1>5
  <2>1. f \in cur_loc .. curl - 1
    BY <1>3, <1>5
  <2> QED BY <2>1, <1>3, <1>5, <1>6 DEF f
<1>8. ASSUME NEW l \in Slots(g)
      PROVE  l < cur_loc /\ loc2id[l] = Invalid
  <2>1. l \in Nat /\ PageOf(l) = PageOf(f)
    BY <1>5, LocTableAssumption DEF Slots, Locs
  <2>2. PICK q \in Nat : cur_loc = NodesPerPage * q
    BY DEF IInv, TailFree
  <2>3. l < cur_loc
    BY <2>1, <2>2, <1>5, <1>7, PageBelow
  <2>4. l \notin cur_loc .. curl - 1
    BY <2>1, <2>3, <1>3
  <2>5. loc2id'[l] = loc2id[l]
    BY <2>4, <1>2, <1>6
  <2> QED BY <2>3, <2>5
<1>9. PICK k \in 1 .. Len(empty_pages) : empty_pages[k] = g
  BY <1>8 DEF EmptyPagesQueued
<1>10. ~(k <= NPop(n))
  <2> SUFFICES ASSUME k <= NPop(n) PROVE FALSE
    OBVIOUS
  <2>1. k \in 1 .. NPop(n)
    BY <1>4
  <2> QED BY <2>1, <1>3, <1>5, <1>6, <1>9 DEF f
<1>11. /\ k - NPop(n) \in 1 .. Len(empty_pages')
       /\ empty_pages'[k - NPop(n)] = empty_pages[k]
  BY <1>2, <1>4, <1>10
<1> QED BY <1>9, <1>11

(* EmptyPagesQueued is preserved by every step: the other steps leave the  *)
(* queue, the tail and loc2id_ alone.                                      *)
LEMMA NextQueued == IInv /\ EmptyPagesQueued /\ [Next]_vars => EmptyPagesQueued'
<1> SUFFICES ASSUME IInv, EmptyPagesQueued, [Next]_vars PROVE EmptyPagesQueued'
  OBVIOUS
<1>1. CASE UNCHANGED <<cur_loc, loc2id, empty_pages>>
  BY <1>1 DEF EmptyPagesQueued
<1>2. ASSUME NEW p \in Inserters, NEW keep \in SUBSET nbrs[p], AllocLoc(p, keep)
      PROVE  EmptyPagesQueued'
  BY <1>2, AllocLocQueued
<1>3. ASSUME NEW p \in Inserters, EraseAndSetLoc(p)
      PROVE  EmptyPagesQueued'
  BY <1>3, EraseAndSetLocQueued
<1>4. \/ UNCHANGED <<cur_loc, loc2id, empty_pages>>
      \/ \E p \in Inserters : \E keep \in SUBSET nbrs[p] : AllocLoc(p, keep)
      \/ \E p \in Inserters : EraseAndSetLoc(p)
  BY DEF Next, Begin, Visit, SetTarget, LockIdx, MoveIds, vars, tables
<1> QED BY <1>1, <1>2, <1>3, <1>4

-----------------------------------------------------------------------------
(* The theorems.                                                           *)

(* Every step of insert_in_place() preserves IInv.                         *)
LEMMA NextIInv == IInv /\ [Next]_vars => IInv'
<1> SUFFICES ASSUME IInv, [Next]_vars PROVE IInv'
  OBVIOUS
<1>1. ASSUME NEW p \in Inserters, Begin(p)
      PROVE  IInv'
  BY <1>1, BeginIInv
<1>2. ASSUME NEW p \in Inserters, NEW i \in Ids, Visit(p, i)
      PROVE  IInv'
  BY <1>2, VisitIInv
<1>3. ASSUME NEW p \in Inserters, NEW keep \in SUBSET nbrs[p], AllocLoc(p, keep)
      PROVE  IInv'
  BY <1>3, AllocLocIInv
<1>4. ASSUME NEW p \in Inserters, SetTarget(p)
      PROVE  IInv'
  BY <1>4, SetTargetIInv
<1>5. ASSUME NEW p \in Inserters, LockIdx(p)
      PROVE  IInv'
  BY <1>5, LockIdxIInv
<1>6. ASSUME NEW p \in Inserters, MoveIds(p)
      PROVE  IInv'
  BY <1>6, MoveIdsIInv
<1>7. ASSUME NEW p \in Inserters, EraseAndSetLoc(p)
      PROVE  IInv'
  BY <1>7, EraseAndSetLocIInv
<1>8. CASE UNCHANGED vars
  <2> USE <1>8 DEF vars, tables, locals
  <2>1. /\ Visible' = Visible /\ Settled' = Settled
        /\ \A q \in Inserters : Owner(q)' = Owner(q) /\ MyIds(q)' = MyIds(q)
        /\ \A q \in Inserters : IdxLocked(q)' = IdxLocked(q)
    BY DEF Visible, Settled, Unlinked, Owner, MyIds, IdxLocked
  <2>2. TypeOK' /\ TargetsDistinct' /\ NamesLinked' /\ TailFree' /\ QueuedPagesEmpty'
    BY DEF IInv, TypeOK, TargetsDistinct, NamesLinked, TailFree, QueuedPagesEmpty
  <2>3. LocalsOK' /\ LocksDisjoint'
    BY <2>1 DEF IInv, LocalsOK, LocksDisjoint
  <2>4. Moving' /\ MappingConsistent' /\ NoDuplicateIds'
    BY <2>1 DEF IInv, Moving, MappingConsistent, NoDuplicateIds
  <2>5. AllocationsExclusive' /\ NoLeakedSlot'
    BY <2>1 DEF IInv, AllocationsExclusive, NoLeakedSlot
  <2> QED BY <2>2, <2>3, <2>4, <2>5 DEF IInv
<1> QED
  BY <1>1, <1>2, <1>3, <1>4, <1>5, <1>6, <1>7, <1>8 DEF Next

(* An id that a search may come across stays one.                          *)
LEMMA VisibleGrows ==
  ASSUME IInv, [Next]_vars
  PROVE  Visible \subseteq Visible'
<1>1. cur_id' = cur_id \/ cur_id' = cur_id + 1
  BY DEF Next, Begin, Visit, AllocLoc, SetTarget, LockIdx, MoveIds, EraseAndSetLoc,
         vars, tables, locals
<1>2. ASSUME NEW q \in Inserters, Unlinked(q)'
      PROVE  \/ Unlinked(q) /\ target'[q] = target[q]
             \/ target'[q] = cur_id
  <2> USE DEF Unlinked, IInv, TypeOK, tables, locals
  <2>1. ASSUME NEW p \in Inserters, Begin(p) \/ SetTarget(p) \/ LockIdx(p)
        PROVE  (Unlinked(q) /\ target'[q] = target[q]) \/ target'[q] = cur_id
    BY <1>2, <2>1 DEF Begin, SetTarget, LockIdx
  <2>2. ASSUME NEW p \in Inserters, MoveIds(p) \/ EraseAndSetLoc(p)
        PROVE  (Unlinked(q) /\ target'[q] = target[q]) \/ target'[q] = cur_id
    BY <1>2, <2>2 DEF MoveIds, EraseAndSetLoc
  <2>3. ASSUME NEW p \in Inserters, \/ \E i \in Ids : Visit(p, i)
                                   \/ \E keep \in SUBSET nbrs[p] : AllocLoc(p, keep)
        PROVE  (Unlinked(q) /\ target'[q] = target[q]) \/ target'[q] = cur_id
    BY <1>2, <2>3 DEF Visit, AllocLoc
  <2> QED BY <1>2, <2>1, <2>2, <2>3 DEF Next, vars
<1>3. SUFFICES ASSUME NEW i \in Visible PROVE i \in Visible'
  OBVIOUS
<1>4. cur_id \in Nat /\ i \in 0 .. cur_id - 1 /\ i # cur_id
  BY LocTableAssumption DEF Visible, IInv, TypeOK
<1>5. i \in 0 .. cur_id' - 1
  BY ONLY <1>1, <1>4
<1>6. ASSUME NEW q \in Inserters, Unlinked(q)' PROVE target'[q] # i
  BY <1>2, <1>4, <1>6 DEF Visible
<1> QED BY <1>5, <1>6 DEF Visible

(* The inductive invariant holds in every state of the index, for any number*)
(* of concurrent calls of insert_in_place().                               *)
THEOREM Invariance == Spec => []IInv
  BY InitIInv, NextIInv, PTL DEF Spec

(* Every variable keeps its type.                                          *)
THEOREM TypeCorrect == Spec => []TypeOK
<1>1. IInv => TypeOK
  BY DEF IInv
<1> QED BY <1>1, Invariance, PTL

(* id -> loc -> id: what verify_id2loc() checks of a quiet index holds of  *)
(* every settled id while any number of inserts are in flight.             *)
THEOREM MappingAlwaysConsistent == Spec => []TablesAgree
<1>1. IInv => TablesAgree
  BY DEF IInv, TablesAgree
<1> QED BY <1>1, Invariance, PTL

(* alloc_loc() never hands out a location that is in use or handed out     *)
(* already, and each it has handed out is accounted for.                   *)
THEOREM AllocationSafe == Spec => []SlotsAccounted
<1>1. IInv => SlotsAccounted
  BY DEF IInv, SlotsAccounted
<1> QED BY <1>1, Invariance, PTL

(* alloc_loc() never crashes with "Page ... is not empty".                 *)
THEOREM QueuedPagesAlwaysEmpty == Spec => []QueuedPagesEmpty
<1>1. IInv => QueuedPagesEmpty
  BY DEF IInv
<1> QED BY <1>1, Invariance, PTL

(* "The hole will eventually be recycled": a page of the file whose records*)
(* are all gone is in the queue, whatever the order in which inserts empty *)
(* pages and take them.                                                    *)
THEOREM EmptyPagesAlwaysQueued == Spec => []EmptyPagesQueued
<1>1. Init => EmptyPagesQueued
  BY InitQueued
<1>2. IInv /\ EmptyPagesQueued /\ [Next]_vars => EmptyPagesQueued'
  BY NextQueued
<1> QED BY <1>1, <1>2, Invariance, PTL DEF Spec

(* A linked id is only moved by an inserter that holds its write lock, and *)
(* it is moved to a location.                                              *)
THEOREM MovesAlwaysLocked == Spec => MovesAreLocked
<1>1. IInv /\ [Next]_vars =>
        [\A i \in Visible : id2loc'[i] # id2loc[i] =>
           /\ id2loc'[i] \in Locs
           /\ \E p \in Inserters : pc[p] = "move" /\ i \in nbrs[p]]_vars
  <2> SUFFICES ASSUME IInv, Next, NEW i \in Visible, id2loc'[i] # id2loc[i]
               PROVE  id2loc'[i] \in Locs
                      /\ \E p \in Inserters : pc[p] = "move" /\ i \in nbrs[p]
    OBVIOUS
  <2>1. i \in Ids
    BY VisibleLocated
  <2>2. ASSUME NEW p \in Inserters, SetTarget(p)
        PROVE  FALSE
    <3>1. target[p] # i
      BY <2>2 DEF SetTarget, Visible, Unlinked
    <3> QED BY <2>1, <2>2, <3>1 DEF SetTarget, IInv, TypeOK
  <2>3. ASSUME NEW p \in Inserters, MoveIds(p)
        PROVE  id2loc'[i] \in Locs /\ pc[p] = "move" /\ i \in nbrs[p]
    <3>1. pc[p] = "move" /\ locs[p] \in [MyIds(p) -> Locs]
      BY <2>3 DEF MoveIds, IInv, LocalsOK, Owner
    <3> QED BY <2>1, <2>3, <3>1 DEF MoveIds, MyIds
  <2>4. \E p \in Inserters : SetTarget(p) \/ MoveIds(p)
    BY DEF Next, Begin, Visit, AllocLoc, LockIdx, EraseAndSetLoc, tables
  <2> QED BY <2>2, <2>3, <2>4
<1> QED BY <1>1, Invariance, PTL DEF Spec, MovesAreLocked
=============================================================================
