-------------------------- MODULE PipeSearchProofs --------------------------
(***************************************************************************)
(* Proofs about PipeSearch for every graph, list size, beam and ring.      *)
(*                                                                         *)
(* A search that returns has no read in flight, although its default mode  *)
(* does not wait for them.  The records that a search uses are its own     *)
(* when the ring has LSearch + BeamWidth slots or more; pipe_search() does *)
(* not check that: it is a hypothesis of the lemma OwnInLargeRing.         *)
(***************************************************************************)
EXTENDS PipeSearch, FiniteSetTheorems, TLAPS

-----------------------------------------------------------------------------
(* Sets of numbers.                                                        *)

(* A set of numbers has a least one.                                       *)
LEMMA LeastNatural ==
  ASSUME NEW S, S # {}, S \subseteq Nat
  PROVE  \E x \in S : \A y \in S : x <= y
<1> DEFINE R == StrictSubsetOrdering(Nat)
           T == {0 .. x : x \in S}
<1>1. \A x \in Nat : 0 .. x \in FiniteSubsetsOf(Nat)
  BY FS_Interval DEF FiniteSubsetsOf
<1>2. T \subseteq FiniteSubsetsOf(Nat) /\ T # {}
  BY <1>1
<1>3. \E X \in T : \A Y \in T : ~(<<Y, X>> \in R)
  <2> HIDE DEF R, T
  <2> QED BY ONLY <1>2, FS_StrictSubsetOrderingWellFounded, WFMin DEF R
<1>4. PICK x \in S : \A y \in S : ~(<<0 .. y, 0 .. x>> \in R)
  BY <1>3
<1>5. \A y \in S : ~(y < x)
  <2> SUFFICES ASSUME NEW y \in S, y < x PROVE FALSE
    OBVIOUS
  <2>1. /\ 0 .. y \in SUBSET Nat /\ 0 .. x \in SUBSET Nat
        /\ 0 .. y \subseteq 0 .. x /\ x \in 0 .. x /\ x \notin 0 .. y
    OBVIOUS
  <2>2. <<0 .. y, 0 .. x>> \in R
    BY <2>1 DEF StrictSubsetOrdering
  <2> QED BY <1>4, <2>2
<1>6. \A y \in S : x <= y
  BY ONLY <1>5, S \subseteq Nat, x \in S
<1> QED BY <1>6

(* A bounded set of numbers has a greatest one.                            *)
LEMMA GreatestNatural ==
  ASSUME NEW S, S # {}, NEW b \in Nat, S \subseteq 0 .. b
  PROVE  \E x \in S : \A y \in S : y <= x
<1> DEFINE T == {b - x : x \in S}
<1>1. T # {} /\ T \subseteq Nat
  <2>1. PICK x \in S : TRUE
    OBVIOUS
  <2>2. b - x \in T
    BY <2>1
  <2>3. ASSUME NEW y \in S PROVE b - y \in Nat
    OBVIOUS
  <2> QED BY <2>2, <2>3
<1>2. PICK t \in T : \A u \in T : t <= u
  <2> HIDE DEF T
  <2> QED BY ONLY <1>1, LeastNatural
<1>3. PICK x \in S : t = b - x
  OBVIOUS
<1>4. ASSUME NEW y \in S
      PROVE  y <= x
  <2>1. b - y \in T
    OBVIOUS
  <2>2. t <= b - y
    BY <2>1, <1>2
  <2> QED BY <2>2, <1>3
<1> QED BY <1>4

-----------------------------------------------------------------------------
(* The candidate list: the n nodes of a set that are nearest to the query. *)

(* std::min of two numbers.                                                *)
LEMMA MinOfTwo ==
  ASSUME NEW x \in Nat, NEW y \in Nat
  PROVE  Min({x, y}) \in Nat /\ Min({x, y}) <= x /\ Min({x, y}) <= y
<1>1. \E m \in {x, y} : \A z \in {x, y} : m <= z
  <2>1. x <= y \/ y <= x
    OBVIOUS
  <2> QED BY <2>1
<1> QED BY <1>1 DEF Min

(* std::max of two numbers.                                                *)
LEMMA MaxOfTwo ==
  ASSUME NEW x \in Nat, NEW y \in Nat
  PROVE  Max({x, y}) \in Nat
<1>1. \E m \in {x, y} : \A z \in {x, y} : m >= z
  <2>1. x <= y \/ y <= x
    OBVIOUS
  <2> QED BY <2>1
<1> QED BY <1>1 DEF Max

(* The nodes below a node, of a finite set.                                *)
Below(x, S) == {j \in S : j < x}

(* A part of a finite set of nodes is finite, and not larger than the set. *)
LEMMA Part ==
  ASSUME NEW S, IsFiniteSet(S), NEW T, T \subseteq S
  PROVE  /\ IsFiniteSet(T) /\ Cardinality(T) \in Nat /\ Cardinality(S) \in Nat
         /\ Cardinality(T) <= Cardinality(S)
BY FS_Subset, FS_CardinalityType

(* There are finitely many nodes, numbered by their distance.              *)
LEMMA NodesFinite ==
  /\ Nodes \subseteq Nat
  /\ \A S \in SUBSET Nodes : IsFiniteSet(S) /\ Cardinality(S) \in Nat /\ Cardinality(S) <= NNodes
<1>1. NNodes \in Nat /\ NNodes - 1 \in Int /\ NNodes >= 1
  BY PipeSearchAssumption
<1>2. IsFiniteSet(0 .. NNodes - 1) /\ Cardinality(0 .. NNodes - 1) = NNodes
  BY <1>1, FS_Interval
<1>3. ASSUME NEW S \in SUBSET (0 .. NNodes - 1)
      PROVE  IsFiniteSet(S) /\ Cardinality(S) \in Nat /\ Cardinality(S) <= NNodes
  BY <1>2, FS_Subset, FS_CardinalityType
<1> QED BY <1>1, <1>3 DEF Nodes

(* What falls out of the list has a full list of nearer nodes before it.   *)
LEMMA BestFull ==
  ASSUME NEW n \in Nat, NEW S, S \subseteq Nat, IsFiniteSet(S),
         NEW x \in S, x \notin Best(n, S)
  PROVE  Cardinality(Below(x, Best(n, S))) >= n
<1> DEFINE B == Best(n, S)
           Out == S \ B
<1>1. Out # {} /\ Out \subseteq Nat
  OBVIOUS
<1>2. PICK y \in Out : \A z \in Out : y <= z
  <2> HIDE DEF Out
  <2> QED BY ONLY <1>1, LeastNatural
<1>3. y \in S /\ y \notin B /\ y <= x
  BY <1>2
<1>4. /\ IsFiniteSet(Below(y, S)) /\ Cardinality(Below(y, S)) \in Nat
  <2>1. Below(y, S) \subseteq S
    BY DEF Below
  <2> QED BY <2>1, Part
<1>5. Cardinality(Below(y, S)) >= n
  <2>1. ~(Cardinality(Below(y, S)) < n)
    BY <1>3 DEF Best, Below
  <2> QED BY <2>1, <1>4
<1>6. Below(y, S) \subseteq Below(x, B)
  <2> SUFFICES ASSUME NEW j \in S, j < y PROVE j \in B /\ j < x
    BY DEF Below
  <2>1. ~(y <= j) /\ j < x
    BY <1>3
  <2>2. j \notin Out
    BY <2>1, <1>2
  <2> QED BY <2>1, <2>2
<1>7. IsFiniteSet(Below(x, B))
  <2>1. Below(x, B) \subseteq S
    BY DEF Below, Best
  <2> QED BY <2>1, Part
<1>8. /\ Cardinality(Below(y, S)) <= Cardinality(Below(x, B))
      /\ Cardinality(Below(x, B)) \in Nat
  BY <1>6, <1>7, Part
<1> QED BY <1>4, <1>5, <1>8

(* The list has no more than n nodes.                                      *)
LEMMA BestBounded ==
  ASSUME NEW n \in Nat, NEW S, S \subseteq Nodes
  PROVE  /\ Best(n, S) \subseteq S /\ IsFiniteSet(S) /\ IsFiniteSet(Best(n, S))
         /\ Cardinality(Best(n, S)) \in Nat /\ Cardinality(Best(n, S)) <= n
<1> DEFINE B == Best(n, S)
<1>1. IsFiniteSet(S) /\ S \subseteq 0 .. NNodes /\ NNodes \in Nat
  <2>1. NNodes \in Nat
    BY PipeSearchAssumption
  <2>2. S \subseteq 0 .. NNodes
    BY <2>1 DEF Nodes
  <2> QED BY <2>1, <2>2, NodesFinite
<1>2. B \subseteq S
  BY DEF Best
<1>3. IsFiniteSet(B) /\ Cardinality(B) \in Nat
  BY <1>1, <1>2, Part
<1>4. CASE B = {}
  BY <1>1, <1>2, <1>3, <1>4, FS_EmptySet
<1>5. CASE B # {}
  <2>1. PICK m \in B : \A y \in B : y <= m
    <3>1. B \subseteq 0 .. NNodes
      BY <1>1, <1>2
    <3> HIDE DEF B
    <3> QED BY ONLY <1>1, <1>5, <3>1, GreatestNatural
  <2>2. Cardinality(Below(m, S)) < n /\ m \in S
    BY DEF Best, Below
  <2>3. B \ {m} \subseteq Below(m, S)
    <3> SUFFICES ASSUME NEW y \in B, y # m PROVE y \in S /\ y < m
      BY DEF Below
    <3>1. y \in Nat /\ m \in Nat
      <4>1. y \in S /\ m \in S
        BY <1>2
      <4> QED BY ONLY <4>1, <1>1
    <3> QED BY <3>1, <2>1, <1>2
  <2>4. IsFiniteSet(Below(m, S)) /\ Cardinality(Below(m, S)) \in Nat
    <3>1. Below(m, S) \subseteq S
      BY DEF Below
    <3> QED BY <3>1, <1>1, Part
  <2> HIDE DEF B
  <2>5. Cardinality(B \ {m}) <= Cardinality(Below(m, S))
    BY ONLY <2>3, <2>4, Part
  <2>6. Cardinality(B \ {m}) = Cardinality(B) - 1
    BY <1>3, FS_RemoveElement
  <2>7. Cardinality(B) <= n
    BY <2>2, <2>4, <2>5, <2>6, <1>3
  <2> QED BY <2>7, <1>1, <1>2, <1>3 DEF B
<1> QED BY <1>4, <1>5

(* A list that starts with no more than n nodes keeps them all.            *)
LEMMA BestAll ==
  ASSUME NEW n \in Nat, NEW S, S \subseteq Nodes, Cardinality(S) <= n
  PROVE  Best(n, S) = S
<1>1. IsFiniteSet(S) /\ Cardinality(S) \in Nat /\ S \subseteq Nat
  <2>1. IsFiniteSet(S)
    BY BestBounded
  <2> QED BY <2>1, FS_CardinalityType DEF Nodes
<1>2. ASSUME NEW x \in S
      PROVE  Cardinality(Below(x, S)) < n
  <2>1. Below(x, S) \subseteq S \ {x}
    BY <1>1 DEF Below
  <2>2. IsFiniteSet(S \ {x}) /\ Cardinality(S \ {x}) = Cardinality(S) - 1
    BY <1>1, FS_RemoveElement
  <2>3. /\ Cardinality(Below(x, S)) \in Nat
        /\ Cardinality(Below(x, S)) <= Cardinality(S \ {x})
    BY ONLY <2>1, <2>2, Part
  <2> QED BY <2>2, <2>3, <1>1
<1> QED BY <1>2 DEF Best, Below

(* The list is the best of all nodes seen, though each expansion looks at  *)
(* no more than the list before it and the new neighbours.                 *)
LEMMA BestAgain ==
  ASSUME NEW n \in Nat, NEW S, S \subseteq Nodes, NEW N, N \subseteq Nodes
  PROVE  Best(n, Best(n, S) \cup N) = Best(n, S \cup N)
<1> DEFINE B == Best(n, S)
<1>1. B \subseteq S /\ S \subseteq Nat /\ N \subseteq Nat /\ IsFiniteSet(S)
  BY BestBounded, NodesFinite
<1>2. ASSUME NEW i
      PROVE  /\ IsFiniteSet(Below(i, S \cup N)) /\ IsFiniteSet(Below(i, B \cup N))
             /\ Cardinality(Below(i, S \cup N)) \in Nat
             /\ Cardinality(Below(i, B \cup N)) \in Nat
             /\ Cardinality(Below(i, B \cup N)) <= Cardinality(Below(i, S \cup N))
             /\ Cardinality(Below(i, B)) <= Cardinality(Below(i, B \cup N))
             /\ Cardinality(Below(i, B)) \in Nat
  <2>1. IsFiniteSet(S \cup N)
    BY BestBounded
  <2>2. /\ Below(i, S \cup N) \subseteq S \cup N
        /\ Below(i, B \cup N) \subseteq Below(i, S \cup N)
        /\ Below(i, B) \subseteq Below(i, B \cup N)
    BY <1>1 DEF Below
  <2>3. IsFiniteSet(Below(i, S \cup N)) /\ Cardinality(Below(i, S \cup N)) \in Nat
    BY ONLY <2>1, <2>2, Part
  <2>4. /\ IsFiniteSet(Below(i, B \cup N)) /\ Cardinality(Below(i, B \cup N)) \in Nat
        /\ Cardinality(Below(i, B \cup N)) <= Cardinality(Below(i, S \cup N))
    BY ONLY <2>2, <2>3, Part
  <2>5. /\ Cardinality(Below(i, B)) \in Nat
        /\ Cardinality(Below(i, B)) <= Cardinality(Below(i, B \cup N))
    BY ONLY <2>2, <2>4, Part
  <2> QED BY <2>3, <2>4, <2>5
<1>3. ASSUME NEW j \in S \ B, NEW i \in Nat, j <= i
      PROVE  ~(Cardinality(Below(i, B \cup N)) < n)
  <2>1. Cardinality(Below(j, B)) >= n
    BY <1>1, BestFull
  <2>2. Below(j, B) \subseteq Below(i, B)
    <3> SUFFICES ASSUME NEW k \in B, k < j PROVE k < i
      BY DEF Below
    <3>1. k \in Nat /\ j \in Nat
      <4>1. k \in S
        BY <1>1
      <4> QED BY <4>1, <1>1
    <3> QED BY <3>1, <1>3
  <2>3. IsFiniteSet(Below(i, B))
    <3>1. Below(i, B) \subseteq S
      BY <1>1 DEF Below
    <3> QED BY <3>1, <1>1, Part
  <2>4. Cardinality(Below(j, B)) \in Nat /\ Cardinality(Below(j, B)) <= Cardinality(Below(i, B))
    BY ONLY <2>2, <2>3, Part
  <2> HIDE DEF B
  <2> QED BY <2>1, <2>4, <1>2
<1>4. ASSUME NEW i \in Best(n, B \cup N)
      PROVE  i \in Best(n, S \cup N)
  <2>1. i \in B \cup N /\ i \in S \cup N /\ i \in Nat /\ Cardinality(Below(i, B \cup N)) < n
    BY <1>1 DEF Best, Below
  <2>2. Below(i, S \cup N) = Below(i, B \cup N)
    <3>1. \A j \in S : j < i => j \in B
      BY <2>1, <1>1, <1>3
    <3> HIDE DEF B
    <3> QED BY <3>1, <1>1 DEF Below
  <2>3. Cardinality(Below(i, S \cup N)) < n
    BY ONLY <2>1, <2>2
  <2> QED BY <2>1, <2>3 DEF Best, Below
<1>5. ASSUME NEW i \in Best(n, S \cup N)
      PROVE  i \in Best(n, B \cup N)
  <2>1. i \in S \cup N /\ i \in Nat /\ Cardinality(Below(i, S \cup N)) < n
    BY <1>1 DEF Best, Below
  <2>2. Cardinality(Below(i, B \cup N)) < n
    <3> HIDE DEF B
    <3> QED BY <2>1, <1>2
  <2>3. i \in B \cup N
    BY <2>1, <2>2, <1>3
  <2> QED BY <2>2, <2>3 DEF Best, Below
<1> QED BY <1>4, <1>5

(* When no new neighbour makes it into the list, nothing falls out of it.  *)
LEMMA BestStays ==
  ASSUME NEW n \in Nat, NEW L, L \subseteq Nodes, Cardinality(L) <= n,
         NEW N, N \subseteq Nodes, N \cap Best(n, L \cup N) = {}
  PROVE  L \subseteq Best(n, L \cup N)
<1> DEFINE B == Best(n, L \cup N)
<1> SUFFICES ASSUME NEW x \in L, x \notin B PROVE FALSE
  OBVIOUS
<1>1. /\ IsFiniteSet(L) /\ IsFiniteSet(L \cup N) /\ B \subseteq L \cup N
      /\ L \cup N \subseteq Nat /\ x \in L \cup N
  BY BestBounded, NodesFinite
<1>2. Cardinality(Below(x, B)) >= n
  BY <1>1, BestFull
<1>3. Below(x, B) \subseteq L \ {x}
  BY <1>1 DEF Below
<1>4. /\ IsFiniteSet(L \ {x}) /\ Cardinality(L \ {x}) = Cardinality(L) - 1
      /\ Cardinality(L) \in Nat
  BY <1>1, FS_RemoveElement, FS_CardinalityType
<1>5. Cardinality(Below(x, B)) \in Nat /\ Cardinality(Below(x, B)) <= Cardinality(L \ {x})
  BY ONLY <1>3, <1>4, Part
<1> HIDE DEF B
<1> QED BY <1>2, <1>4, <1>5

-----------------------------------------------------------------------------
(* The inductive invariant.                                                *)

Flight == {on_flight_ios[k] : k \in 1 .. Len(on_flight_ios)}
FlightIds == {on_flight_ios[k].id : k \in 1 .. Len(on_flight_ios)}

(* How many slots of the ring were handed out after s, if c is next.       *)
Back(c, s) == c - 1 - s + (IF s < c THEN 0 ELSE MaxReads)

(* The reads in flight have the slots handed out last, in order, and the   *)
(* locks of their ids; the device has only reads that are in flight and    *)
(* not finished.                                                           *)
ReadsOK ==
  /\ on_flight_ios \in Seq([id : Nodes, slot : Slots])
  /\ \A k \in 1 .. Len(on_flight_ios) :
       Back(cur_buf_idx, on_flight_ios[k].slot) = Len(on_flight_ios) - k
  /\ \A j, k \in 1 .. Len(on_flight_ios) : on_flight_ios[j].id = on_flight_ios[k].id => j = k
  /\ rlocks = FlightIds
  /\ \A r \in kernel : r \in Flight /\ ~reqs[r.slot]

(* A finished read has its record in its slot, and a slot that was noted   *)
(* has the record of some node.                                            *)
FilledOK ==
  /\ \A s \in Slots : reqs[s] => buf[s] \in Nodes
  /\ \A k \in 1 .. Len(on_flight_ios) :
       reqs[on_flight_ios[k].slot] => buf[on_flight_ios[k].slot] = on_flight_ios[k].id
  /\ \A i \in DOMAIN id_buf_map : buf[id_buf_map[i]] \in Nodes

(* The list holds the best of the nodes seen, and a node is not sent, in   *)
(* flight, or read.                                                        *)
PoolOK ==
  /\ graph \in [Nodes -> SUBSET Nodes]
  /\ list = Best(LSearch, seen)
  /\ FlightIds \subseteq seen
  /\ FlightIds \cap DOMAIN id_buf_map = {}
  /\ unsent \cap FlightIds = {} /\ unsent \cap DOMAIN id_buf_map = {}
  /\ expanded \subseteq DOMAIN id_buf_map

(* The last read sent is of a node in the list, unless a node that is still*)
(* to be sent has pushed it out.                                           *)
LastListed ==
  on_flight_ios # <<>> => on_flight_ios[Len(on_flight_ios)].id \in list \/ unsent # {}

(* What holds at each place of the search.                                 *)
PlacesOK ==
  /\ at \in {"idle", "return"} => on_flight_ios = <<>>
  /\ at = "start" => DOMAIN id_buf_map = {}

IInv == TypeOK /\ ReadsOK /\ FilledOK /\ PoolOK /\ LastListed /\ PlacesOK

(* The ring has not come round to the record of a node that may still be   *)
(* expanded: since it was read, each slot handed out was followed by the   *)
(* expansion of a nearer node.                                             *)
RecordsKept ==
  \A i \in Read :
    /\ buf[id_buf_map[i]] = i
    /\ Len(on_flight_ios) <= Back(cur_buf_idx, id_buf_map[i])
    /\ Back(cur_buf_idx, id_buf_map[i]) <=
         BeamWidth - 1 + Cardinality(Below(i, expanded)) + (IF at = "calc" THEN 1 ELSE 0)

-----------------------------------------------------------------------------
(* The ring of slots.                                                      *)

(* cur_buf_idx = (cur_buf_idx + 1) % MAX_N_SECTOR_READS goes round.        *)
LEMMA NextSlotFacts ==
  ASSUME NEW s \in Slots
  PROVE  NextSlot(s) \in Slots /\ NextSlot(s) = IF s = MaxReads - 1 THEN 0 ELSE s + 1
<1>1. MaxReads \in Nat \ {0} /\ s \in Nat /\ s < MaxReads
  BY PipeSearchAssumption DEF Slots
<1>2. CASE s = MaxReads - 1
  <2>1. s + 1 = MaxReads
    BY <1>1, <1>2
  <2>2. MaxReads % MaxReads = 0
    BY <1>1
  <2> QED BY <2>1, <2>2, <1>1, <1>2 DEF NextSlot, Slots
<1>3. CASE s # MaxReads - 1
  <2>1. s + 1 \in Nat /\ s + 1 < MaxReads
    BY <1>1, <1>3
  <2>2. (s + 1) % MaxReads = s + 1
    BY <2>1, <1>1
  <2> QED BY <2>1, <2>2, <1>1, <1>3 DEF NextSlot, Slots
<1> QED BY <1>2, <1>3

(* Each slot is handed out once in each round.                             *)
LEMMA BackFacts ==
  ASSUME cur_buf_idx \in Slots, NEW s \in Slots
  PROVE  /\ Back(cur_buf_idx, s) \in 0 .. MaxReads - 1
         /\ Back(cur_buf_idx, s) = MaxReads - 1 <=> s = cur_buf_idx
BY PipeSearchAssumption DEF Slots, Back

(* When a slot is handed out, all others are one further back.             *)
LEMMA BackNext ==
  ASSUME cur_buf_idx \in Slots, cur_buf_idx' = NextSlot(cur_buf_idx), NEW s \in Slots
  PROVE  /\ cur_buf_idx' \in Slots
         /\ s = cur_buf_idx => Back(cur_buf_idx', s) = 0
         /\ s # cur_buf_idx => Back(cur_buf_idx', s) = Back(cur_buf_idx, s) + 1
<1>1. /\ NextSlot(cur_buf_idx) \in Slots
      /\ NextSlot(cur_buf_idx) = IF cur_buf_idx = MaxReads - 1 THEN 0 ELSE cur_buf_idx + 1
  BY NextSlotFacts
<1> QED BY <1>1, PipeSearchAssumption DEF Slots, Back

-----------------------------------------------------------------------------
(* Queues.                                                                 *)

(* The elements of a queue are of its type.                                *)
LEMMA ElementsIn ==
  ASSUME NEW T, NEW q \in Seq(T)
  PROVE  /\ Len(q) \in Nat /\ DOMAIN q = 1 .. Len(q)
         /\ \A k \in DOMAIN q : q[k] \in T
OBVIOUS

-----------------------------------------------------------------------------
(* The steps of a search.                                                  *)

(* The best of some nodes is one of them.                                  *)
LEMMA MinIn ==
  ASSUME NEW S, S \subseteq Nodes, S # {}
  PROVE  Min(S) \in S /\ \A j \in S : Min(S) <= j
<1>1. S \subseteq Nat
  BY NodesFinite
<1>2. \E x \in S : \A y \in S : x <= y
  BY ONLY <1>1, S # {}, LeastNatural
<1> QED BY <1>2 DEF Min

(* An index that is loaded and has not been searched.                      *)
LEMMA InitIInv == Init => IInv
<1> SUFFICES ASSUME Init PROVE IInv
  OBVIOUS
<1> USE DEF Init
<1>1. TypeOK
  BY PipeSearchAssumption, FS_EmptySet DEF TypeOK, Slots, NoSlots, None
<1>2. ReadsOK
  BY DEF ReadsOK, FlightIds
<1>3. FilledOK
  BY DEF FilledOK, NoSlots
<1>4. PoolOK
  BY PipeSearchAssumption DEF PoolOK, FlightIds, Best
<1>5. LastListed /\ PlacesOK
  BY DEF LastListed, PlacesOK
<1> QED BY <1>1, <1>2, <1>3, <1>4, <1>5 DEF IInv

(* pop_query_buf(): a search starts with an empty queue, whatever the one  *)
(* before it has left in the buffer.                                       *)
LEMMA BeginIInv ==
  ASSUME IInv, Begin
  PROVE  IInv'
<1> USE DEF Begin, IInv
<1>1. on_flight_ios = <<>> /\ rlocks = {} /\ kernel = {}
  BY DEF PlacesOK, ReadsOK, FlightIds, Flight
<1>2. /\ on_flight_ios' = <<>> /\ rlocks' = {} /\ kernel' = {} /\ id_buf_map' = NoSlots
      /\ FlightIds' = {}
  BY <1>1 DEF FlightIds
<1>3. cur_beam_width' \in 0 .. BeamWidth
  BY MinOfTwo, PipeSearchAssumption
<1>4. Starts \subseteq Nodes /\ Cardinality(Starts) <= LSearch /\ LSearch \in Nat
  <2>1. Cardinality(Starts) \in 1 .. LSearch
    BY PipeSearchAssumption
  <2> QED BY <2>1, PipeSearchAssumption
<1>5. TypeOK'
  <2>1. cur_buf_idx' \in Slots /\ Len(on_flight_ios') <= BeamWidth
    BY PipeSearchAssumption DEF Slots
  <2>2. relaxed_monotonicity_l' \in Nat
    BY PipeSearchAssumption
  <2> QED BY <1>2, <1>3, <1>4, <2>1, <2>2 DEF TypeOK, NoSlots, insertVars
<1>6. ReadsOK'
  BY <1>2 DEF ReadsOK
<1>7. FilledOK'
  BY <1>2 DEF FilledOK, NoSlots
<1>8. PoolOK'
  <2>1. Best(LSearch, Starts) = Starts
    BY <1>4, BestAll
  <2> QED BY <1>2, <2>1 DEF PoolOK, NoSlots
<1>9. LastListed' /\ PlacesOK'
  BY <1>2 DEF LastListed, PlacesOK, NoSlots
<1> QED BY <1>5, <1>6, <1>7, <1>8, <1>9

(* A step that only goes on to another place of the search.                *)
LEMMA PlaceIInv ==
  ASSUME IInv, UNCHANGED <<fixedVars, poolVars, ringVars, cur_beam_width, insertVars>>,
         at' \in {"poll", "calc"}
  PROVE  IInv'
<1> USE DEF IInv, fixedVars, poolVars, ringVars, insertVars
<1>1. TypeOK'
  BY DEF TypeOK
<1>2. FlightIds' = FlightIds /\ Flight' = Flight
  BY DEF FlightIds, Flight
<1>3. ReadsOK' /\ FilledOK'
  BY <1>2 DEF ReadsOK, FilledOK
<1>4. PoolOK' /\ LastListed' /\ PlacesOK'
  BY <1>2 DEF PoolOK, LastListed, PlacesOK
<1> QED BY <1>1, <1>3, <1>4

(* What send_read_req() changes: the read goes to the end of the queue and *)
(* to a slot that no read in flight has.                                   *)
LEMMA SendReadFacts ==
  ASSUME IInv, NEW i \in unsent, Len(on_flight_ios) < cur_beam_width, SendRead(i)
  PROVE  LET len == Len(on_flight_ios)
             s == cur_buf_idx
         IN  /\ len \in Nat /\ len < BeamWidth /\ BeamWidth <= MaxReads
             /\ BeamWidth \in Nat /\ MaxReads \in Nat
             /\ i \in Nodes /\ i \in list /\ i \in seen /\ s \in Slots
             /\ on_flight_ios' \in Seq([id : Nodes, slot : Slots])
             /\ Len(on_flight_ios') = len + 1
             /\ \A k \in 1 .. len : on_flight_ios'[k] = on_flight_ios[k]
             /\ on_flight_ios'[len + 1] = [id |-> i, slot |-> s]
             /\ FlightIds' = FlightIds \cup {i}
             /\ Flight' = Flight \cup {[id |-> i, slot |-> s]}
             /\ \A r \in Flight : r \in [id : Nodes, slot : Slots] /\ r.slot # s
             /\ cur_buf_idx' \in Slots
             /\ Back(cur_buf_idx', s) = 0
             /\ \A t \in Slots : t # s => Back(cur_buf_idx', t) = Back(cur_buf_idx, t) + 1
<1> DEFINE len == Len(on_flight_ios)
           s == cur_buf_idx
           rec == [id |-> i, slot |-> s]
<1> USE DEF IInv
<1>1. /\ len \in Nat /\ len < BeamWidth /\ BeamWidth <= MaxReads
      /\ BeamWidth \in Nat /\ MaxReads \in Nat
      /\ i \in Nodes /\ i \in list /\ i \in seen /\ s \in Slots
  BY PipeSearchAssumption DEF TypeOK, ReadsOK
<1>2. /\ on_flight_ios \in Seq([id : Nodes, slot : Slots]) /\ rec \in [id : Nodes, slot : Slots]
      /\ on_flight_ios' = Append(on_flight_ios, rec)
      /\ cur_buf_idx' = NextSlot(s)
  BY <1>1 DEF SendRead, ReadsOK
<1> HIDE DEF rec
<1>3. /\ on_flight_ios' \in Seq([id : Nodes, slot : Slots])
      /\ Len(on_flight_ios') = len + 1
      /\ \A k \in 1 .. len : on_flight_ios'[k] = on_flight_ios[k]
      /\ on_flight_ios'[len + 1] = rec
  BY <1>2
<1>4. 1 .. len + 1 = (1 .. len) \cup {len + 1}
  BY <1>1
<1>5. Flight' = Flight \cup {rec}
  BY <1>3, <1>4 DEF Flight
<1>6. FlightIds' = FlightIds \cup {i}
  BY <1>3, <1>4 DEF FlightIds, rec
<1>7. ASSUME NEW r \in Flight
      PROVE  r \in [id : Nodes, slot : Slots] /\ r.slot # s
  <2>1. PICK k \in 1 .. len : r = on_flight_ios[k]
    BY DEF Flight
  <2>2. r \in [id : Nodes, slot : Slots] /\ r.slot \in Slots
    <3>1. on_flight_ios[k] \in [id : Nodes, slot : Slots]
      <4>1. on_flight_ios \in Seq([id : Nodes, slot : Slots])
        BY <1>2
      <4>2. \A m \in DOMAIN on_flight_ios : on_flight_ios[m] \in [id : Nodes, slot : Slots]
        BY ONLY <4>1, ElementsIn
      <4>3. DOMAIN on_flight_ios = 1 .. len
        BY ONLY <4>1, ElementsIn
      <4> QED BY <4>2, <4>3
    <3>2. r \in [id : Nodes, slot : Slots]
      BY <2>1, <3>1
    <3> QED BY ONLY <3>2
  <2>3. Back(cur_buf_idx, r.slot) = len - k
    BY <2>1 DEF ReadsOK
  <2>4. Back(cur_buf_idx, r.slot) # MaxReads - 1
    BY ONLY <2>3, <1>1, k \in 1 .. len
  <2> QED BY <2>2, <2>4, <1>1, BackFacts
<1>8. /\ cur_buf_idx' \in Slots /\ Back(cur_buf_idx', s) = 0
      /\ \A t \in Slots : t # s => Back(cur_buf_idx', t) = Back(cur_buf_idx, t) + 1
  BY <1>1, <1>2, BackNext
<1> QED BY <1>1, <1>3, <1>5, <1>6, <1>7, <1>8 DEF rec

(* send_read_req() keeps the invariant: the slot it takes is not that of a *)
(* read in flight, and the node it reads is in the list.                   *)
LEMMA SendReadIInv ==
  ASSUME IInv, NEW i \in unsent, Len(on_flight_ios) < cur_beam_width, SendRead(i),
         UNCHANGED <<fixedVars, seen, list, expanded, id_buf_map, converge_size,
                     cur_beam_width, insertVars>>,
         at' \in {"start", "calc"}, at' = "start" => at = "start"
  PROVE  IInv'
<1> DEFINE len == Len(on_flight_ios)
           s == cur_buf_idx
           rec == [id |-> i, slot |-> s]
<1> USE DEF IInv, fixedVars, insertVars
<1>1. /\ len \in Nat /\ len < BeamWidth /\ BeamWidth <= MaxReads
      /\ BeamWidth \in Nat /\ MaxReads \in Nat
      /\ i \in Nodes /\ i \in list /\ i \in seen /\ s \in Slots
      /\ on_flight_ios' \in Seq([id : Nodes, slot : Slots])
      /\ Len(on_flight_ios') = len + 1
      /\ \A k \in 1 .. len : on_flight_ios'[k] = on_flight_ios[k]
      /\ on_flight_ios'[len + 1] = rec
      /\ FlightIds' = FlightIds \cup {i}
      /\ Flight' = Flight \cup {rec}
      /\ \A r \in Flight : r \in [id : Nodes, slot : Slots] /\ r.slot # s
      /\ cur_buf_idx' \in Slots
      /\ Back(cur_buf_idx', s) = 0
      /\ \A t \in Slots : t # s => Back(cur_buf_idx', t) = Back(cur_buf_idx, t) + 1
  BY SendReadFacts
<1>2. /\ rlocks' = rlocks \cup {i} /\ unsent' = unsent \ {i}
      /\ reqs' = [reqs EXCEPT ![s] = TRUE] \/ reqs' = [reqs EXCEPT ![s] = FALSE]
      /\ \/ reqs' = [reqs EXCEPT ![s] = TRUE] /\ buf' = [buf EXCEPT ![s] = i] /\ kernel' = kernel
         \/ reqs' = [reqs EXCEPT ![s] = FALSE] /\ buf' = buf /\ kernel' = kernel \cup {rec}
  BY DEF SendRead
<1> HIDE DEF rec
<1>3. rec \in [id : Nodes, slot : Slots] /\ rec.slot = s /\ rec.id = i
  BY <1>1 DEF rec
<1>4. 1 .. len + 1 = (1 .. len) \cup {len + 1}
  BY <1>1
<1>5. /\ reqs \in [Slots -> BOOLEAN] /\ buf \in [Slots -> Nodes \cup {None}]
  BY DEF TypeOK
<1>6. /\ reqs' \in [Slots -> BOOLEAN]
      /\ \A t \in Slots : t # s => (reqs'[t] <=> reqs[t])
  BY <1>1, <1>2, <1>5
<1>7. /\ buf' \in [Slots -> Nodes \cup {None}]
      /\ \A t \in Slots : t # s => buf'[t] = buf[t]
      /\ buf'[s] = i \/ buf' = buf
  BY <1>1, <1>2, <1>5
<1>8. \/ reqs'[s] /\ buf'[s] = i /\ kernel' = kernel
      \/ ~reqs'[s] /\ kernel' = kernel \cup {rec}
  BY <1>1, <1>2, <1>5
<1>9. TypeOK'
  <2>1. kernel' \subseteq [id : Nodes, slot : Slots]
    BY <1>2, <1>3 DEF TypeOK
  <2>2. Len(on_flight_ios') <= BeamWidth
    <3>1. len \in Nat /\ BeamWidth \in Nat /\ len < BeamWidth /\ Len(on_flight_ios') = len + 1
      BY <1>1
    <3> QED BY ONLY <3>1
  <2>3. \A k \in DOMAIN on_flight_ios' : on_flight_ios'[k] \in [id : Nodes, slot : Slots]
    <3>1. on_flight_ios' \in Seq([id : Nodes, slot : Slots])
      BY <1>1
    <3> QED BY ONLY <3>1, ElementsIn
  <2>4. rlocks' \subseteq Nodes
    BY <1>1, <1>2 DEF TypeOK
  <2> QED BY <1>1, <1>2, <1>6, <1>7, <2>1, <2>2, <2>3, <2>4 DEF TypeOK
<1>10. ReadsOK'
  <2>1. ASSUME NEW k \in 1 .. len + 1
        PROVE  Back(cur_buf_idx', on_flight_ios'[k].slot) = len + 1 - k
    <3>1. CASE k = len + 1
      BY <3>1, <1>1, <1>3
    <3>2. CASE k \in 1 .. len
      <4>1. on_flight_ios[k] \in Flight
        BY <3>2 DEF Flight
      <4>2. on_flight_ios[k].slot \in Slots /\ on_flight_ios[k].slot # s
        BY <4>1, <1>1
      <4>3. Back(cur_buf_idx, on_flight_ios[k].slot) = len - k
        BY <3>2 DEF ReadsOK
      <4> QED BY <4>2, <4>3, <3>2, <1>1
    <3> QED BY <3>1, <3>2, <1>4
  <2>2. ASSUME NEW j \in 1 .. len + 1, NEW k \in 1 .. len + 1,
               on_flight_ios'[j].id = on_flight_ios'[k].id
        PROVE  j = k
    <3>1. \A m \in 1 .. len : on_flight_ios'[m].id = on_flight_ios[m].id
                              /\ on_flight_ios[m].id # i
      BY <1>1 DEF PoolOK, FlightIds
    <3> QED BY <2>2, <3>1, <1>1, <1>3, <1>4 DEF ReadsOK
  <2>3. rlocks' = FlightIds'
    BY <1>1, <1>2 DEF ReadsOK
  <2>4. \A r \in kernel' : r \in Flight' /\ ~reqs'[r.slot]
    BY <1>1, <1>3, <1>6, <1>8 DEF ReadsOK
  <2> QED BY <2>1, <2>2, <2>3, <2>4, <1>1 DEF ReadsOK
<1>11. FilledOK'
  <2>1. \A t \in Slots : reqs'[t] => buf'[t] \in Nodes
    BY <1>1, <1>6, <1>7, <1>8 DEF FilledOK
  <2>2. ASSUME NEW k \in 1 .. len + 1, reqs'[on_flight_ios'[k].slot]
        PROVE  buf'[on_flight_ios'[k].slot] = on_flight_ios'[k].id
    <3>1. CASE k = len + 1
      BY <2>2, <3>1, <1>1, <1>3, <1>8
    <3>2. CASE k \in 1 .. len
      <4>1. on_flight_ios[k] \in Flight
        BY <3>2 DEF Flight
      <4>2. on_flight_ios[k].slot \in Slots /\ on_flight_ios[k].slot # s
        BY <4>1, <1>1
      <4> QED BY <4>2, <2>2, <3>2, <1>1, <1>6, <1>7 DEF FilledOK
    <3> QED BY <3>1, <3>2, <1>4
  <2>3. \A j \in DOMAIN id_buf_map : buf'[id_buf_map[j]] \in Nodes
    BY <1>1, <1>7 DEF FilledOK, TypeOK
  <2> QED BY <2>1, <2>2, <2>3, <1>1 DEF FilledOK
<1>12. PoolOK'
  BY <1>1, <1>2 DEF PoolOK
<1>13. LastListed'
  BY <1>1, <1>3 DEF LastListed
<1>14. PlacesOK'
  BY DEF PlacesOK
<1> QED BY <1>9, <1>10, <1>11, <1>12, <1>13, <1>14

(* send_best_read_req() before the loop.                                   *)
LEMMA SendFirstIInv ==
  ASSUME IInv, SendFirst
  PROVE  IInv'
<1>1. CASE \E i \in unsent : Len(on_flight_ios) < cur_beam_width /\ SendRead(i) /\ at' = at
  <2>1. PICK i \in unsent : Len(on_flight_ios) < cur_beam_width /\ SendRead(i) /\ at' = at
    BY <1>1
  <2> QED BY ONLY <2>1, IInv, SendFirst, SendReadIInv DEF SendFirst
<1>2. CASE at' = "poll" /\ UNCHANGED <<unsent, ringVars>>
  <2>1. /\ at' = "poll" /\ at = "start"
        /\ UNCHANGED <<fixedVars, poolVars, ringVars, cur_beam_width, insertVars, calls>>
    BY <1>2 DEF SendFirst, poolVars
  <2> QED BY ONLY <2>1, IInv, PlaceIInv
<1> QED BY <1>1, <1>2 DEF SendFirst

(* send_best_read_req(1) in the loop.                                      *)
LEMMA SendIInv ==
  ASSUME IInv, Send
  PROVE  IInv'
<1>1. CASE unsent # {} /\ Len(on_flight_ios) < cur_beam_width /\ SendRead(Min(unsent))
  <2>1. unsent \subseteq Nodes
    BY DEF IInv, TypeOK
  <2>2. Min(unsent) \in unsent
    BY ONLY <2>1, <1>1, MinIn
  <2>3. at' = "calc" /\ UNCHANGED <<fixedVars, seen, list, expanded, id_buf_map, converge_size,
                                    cur_beam_width, insertVars>>
    BY DEF Send
  <2> QED BY ONLY <1>1, <2>2, <2>3, IInv, SendReadIInv
<1>2. CASE UNCHANGED <<unsent, ringVars>>
  <2>1. /\ at' = "calc"
        /\ UNCHANGED <<fixedVars, poolVars, ringVars, cur_beam_width, insertVars, calls>>
    BY <1>2 DEF Send, poolVars
  <2> QED BY ONLY <2>1, IInv, PlaceIInv
<1> QED BY <1>1, <1>2 DEF Send

(* The device reads a page into the slot of a read in flight: no other     *)
(* read in flight has that slot.                                           *)
LEMMA CompleteIInv ==
  ASSUME IInv, NEW r \in kernel, Complete(r)
  PROVE  IInv'
<1> USE DEF IInv, fixedVars, poolVars, insertVars
<1> DEFINE len == Len(on_flight_ios)
<1>1. /\ UNCHANGED <<graph, relaxed_monotonicity_l, at, seen, list, unsent, expanded, id_buf_map,
                     converge_size, on_flight_ios, cur_buf_idx, rlocks, cur_beam_width, wlocks,
                     insert_ids>>
      /\ kernel' = kernel \ {r}
      /\ reqs' = [reqs EXCEPT ![r.slot] = TRUE]
      /\ buf' = [buf EXCEPT ![r.slot] = r.id]
  BY DEF Complete
<1>2. /\ r \in Flight /\ r.slot \in Slots /\ r.id \in Nodes
      /\ reqs \in [Slots -> BOOLEAN] /\ buf \in [Slots -> Nodes \cup {None}]
      /\ Flight' = Flight /\ FlightIds' = FlightIds
  BY <1>1 DEF ReadsOK, TypeOK, Flight, FlightIds
<1>3. /\ reqs' \in [Slots -> BOOLEAN] /\ reqs'[r.slot]
      /\ \A t \in Slots : t # r.slot => (reqs'[t] <=> reqs[t])
  BY <1>1, <1>2
<1>4. /\ buf' \in [Slots -> Nodes \cup {None}] /\ buf'[r.slot] = r.id
      /\ \A t \in Slots : t # r.slot => buf'[t] = buf[t]
  BY <1>1, <1>2
<1>5. PICK m \in 1 .. len : r = on_flight_ios[m]
  BY <1>2 DEF Flight
<1>6. ASSUME NEW k \in 1 .. len
      PROVE  /\ on_flight_ios[k] \in Flight /\ on_flight_ios[k].slot \in Slots
             /\ on_flight_ios[k].slot = r.slot => on_flight_ios[k] = r
  <2>1. on_flight_ios[k] \in [id : Nodes, slot : Slots] /\ len \in Nat
    BY ElementsIn DEF ReadsOK
  <2>2. /\ Back(cur_buf_idx, on_flight_ios[k].slot) = len - k
        /\ Back(cur_buf_idx, on_flight_ios[m].slot) = len - m
    BY DEF ReadsOK
  <2>3. on_flight_ios[k].slot = r.slot => k = m
    BY <2>1, <2>2, <1>5
  <2> QED BY <2>1, <2>3, <1>5 DEF Flight
<1>7. TypeOK'
  BY <1>1, <1>3, <1>4 DEF TypeOK
<1>8. ReadsOK'
  <2>1. ASSUME NEW q \in kernel, q # r
        PROVE  q \in Flight /\ ~reqs'[q.slot]
    <3>1. q \in Flight /\ ~reqs[q.slot]
      BY DEF ReadsOK
    <3>2. PICK k \in 1 .. len : q = on_flight_ios[k]
      BY <3>1 DEF Flight
    <3>3. q.slot \in Slots /\ q.slot # r.slot
      BY <3>2, <2>1, <1>6
    <3> QED BY <3>1, <3>3, <1>3
  <2> QED BY <2>1, <1>1, <1>2 DEF ReadsOK
<1>9. FilledOK'
  <2>1. \A s \in Slots : reqs'[s] => buf'[s] \in Nodes
    BY <1>2, <1>3, <1>4 DEF FilledOK
  <2>2. ASSUME NEW k \in 1 .. len, reqs'[on_flight_ios[k].slot]
        PROVE  buf'[on_flight_ios[k].slot] = on_flight_ios[k].id
    BY <2>2, <1>3, <1>4, <1>6 DEF FilledOK
  <2>3. \A i \in DOMAIN id_buf_map : buf'[id_buf_map[i]] \in Nodes
    BY <1>2, <1>4 DEF FilledOK, TypeOK
  <2> QED BY <2>1, <2>2, <2>3, <1>1 DEF FilledOK
<1>10. PoolOK' /\ LastListed' /\ PlacesOK'
  BY <1>1, <1>2 DEF PoolOK, LastListed, PlacesOK
<1> QED BY <1>7, <1>8, <1>9, <1>10

(* The finished requests at the front of the queue.                        *)
LEMMA NFinishedFacts ==
  ASSUME ReadsOK
  PROVE  /\ NFinished \in 0 .. Len(on_flight_ios)
         /\ \A k \in 1 .. NFinished : reqs[on_flight_ios[k].slot]
<1> DEFINE len == Len(on_flight_ios)
           S == {n \in 0 .. len : \A k \in 1 .. n : reqs[on_flight_ios[k].slot]}
<1>1. len \in Nat
  BY ElementsIn DEF ReadsOK
<1>2. S \subseteq 0 .. len /\ S # {}
  <2>1. 0 \in S
    BY <1>1
  <2> QED BY <2>1
<1>3. \E x \in S : \A y \in S : y <= x
  <2> HIDE DEF S
  <2> QED BY ONLY <1>1, <1>2, GreatestNatural
<1>4. \E x \in S : \A y \in S : x >= y
  <2>1. S \subseteq Nat
    BY <1>1
  <2> HIDE DEF S
  <2> QED BY ONLY <1>3, <2>1
<1>5. Max(S) \in S
  <2> HIDE DEF S
  <2> QED BY ONLY <1>4 DEF Max
<1> QED BY <1>5 DEF NFinished

(* The ids of the reads that are taken off.                                *)
TakenIds == {on_flight_ios[k].id : k \in 1 .. NFinished}

(* What the reads taken off leave: the rest of the queue with its locks,   *)
(* and the slot of each read taken in id_buf_map.                          *)
LEMMA TakeFinishedFacts ==
  ASSUME IInv, TakeFinished
  PROVE  LET len == Len(on_flight_ios)
             n == NFinished
         IN  /\ len \in Nat /\ n \in 0 .. len
             /\ on_flight_ios' \in Seq([id : Nodes, slot : Slots])
             /\ Len(on_flight_ios') = len - n
             /\ \A k \in 1 .. len - n : on_flight_ios'[k] = on_flight_ios[k + n]
             /\ \A k \in 1 .. len :
                  on_flight_ios[k] \in [id : Nodes, slot : Slots] /\ on_flight_ios[k].id \in seen
             /\ FlightIds' = FlightIds \ TakenIds
             /\ rlocks' = rlocks \ TakenIds
             /\ DOMAIN id_buf_map' = DOMAIN id_buf_map \cup TakenIds
             /\ \A i \in DOMAIN id_buf_map : id_buf_map'[i] = id_buf_map[i]
             /\ \A k \in 1 .. n : id_buf_map'[on_flight_ios[k].id] = on_flight_ios[k].slot
<1> DEFINE len == Len(on_flight_ios)
           n == NFinished
           taken == {on_flight_ios[k] : k \in 1 .. n}
           old == DOMAIN id_buf_map
           new == [i \in TakenIds |-> (CHOOSE r \in taken : r.id = i).slot]
<1> USE DEF IInv
<1>1. /\ on_flight_ios \in Seq([id : Nodes, slot : Slots])
      /\ len \in Nat /\ n \in 0 .. len /\ n \in Nat
      /\ on_flight_ios' = SubSeq(on_flight_ios, n + 1, len)
      /\ rlocks' = rlocks \ {r.id : r \in taken}
      /\ id_buf_map' = WithSlots(taken)
  BY NFinishedFacts, ElementsIn DEF ReadsOK, TakeFinished
<1>2. \A k \in 1 .. len : on_flight_ios[k] \in [id : Nodes, slot : Slots]
  BY ONLY <1>1, ElementsIn
<1>3. \A k \in 1 .. len : on_flight_ios[k].id \in FlightIds /\ on_flight_ios[k].id \in seen
  BY DEF PoolOK, FlightIds
<1>4. /\ on_flight_ios' \in Seq([id : Nodes, slot : Slots])
      /\ Len(on_flight_ios') = len - n
      /\ \A k \in 1 .. len - n : on_flight_ios'[k] = on_flight_ios[k + n]
  <2> DEFINE T == [id : Nodes, slot : Slots]
  <2>1. on_flight_ios \in Seq(T)
    BY <1>1
  <2> HIDE DEF T
  <2>2. SubSeq(on_flight_ios, n + 1, len) \in Seq(T)
    BY ONLY <2>1, <1>1
  <2>3. Len(SubSeq(on_flight_ios, n + 1, len)) = len - n
    BY ONLY <2>1, <1>1
  <2>4. \A k \in 1 .. len - n : SubSeq(on_flight_ios, n + 1, len)[k] = on_flight_ios[k + n]
    BY ONLY <2>1, <1>1
  <2> QED BY <1>1, <2>2, <2>3, <2>4 DEF T
<1>5. {r.id : r \in taken} = TakenIds
  BY DEF TakenIds
<1> HIDE DEF n
<1>6. \A j, k \in 1 .. len : on_flight_ios[j].id = on_flight_ios[k].id => j = k
  BY DEF ReadsOK
<1>7. FlightIds' = FlightIds \ TakenIds
  <2>1. ASSUME NEW k \in 1 .. len - n
        PROVE  on_flight_ios'[k].id \in FlightIds \ TakenIds
    <3>1. k + n \in 1 .. len /\ k + n \notin 1 .. n
      BY ONLY <1>1, k \in 1 .. len - n
    <3>2. on_flight_ios[k + n].id \in FlightIds
      BY <1>3, <3>1
    <3>3. \A j \in 1 .. n : j \in 1 .. len /\ on_flight_ios[j].id # on_flight_ios[k + n].id
      BY ONLY <3>1, <1>1, <1>6
    <3>4. on_flight_ios[k + n].id \notin TakenIds
      BY <3>3 DEF TakenIds, n
    <3> QED BY <3>2, <3>4, <1>4
  <2>2. ASSUME NEW k \in 1 .. len, on_flight_ios[k].id \notin TakenIds
        PROVE  \E m \in 1 .. len - n : on_flight_ios[k].id = on_flight_ios'[m].id
    <3>1. k \notin 1 .. n
      BY <2>2 DEF TakenIds, n
    <3>2. k - n \in 1 .. len - n /\ (k - n) + n = k
      BY <3>1, <1>1
    <3>3. on_flight_ios'[k - n] = on_flight_ios[k]
      BY <3>2, <1>4
    <3> QED BY <3>2, <3>3
  <2>3. FlightIds' = {on_flight_ios'[k].id : k \in 1 .. len - n}
    BY <1>4 DEF FlightIds
  <2>4. FlightIds' \subseteq FlightIds \ TakenIds
    BY <2>1, <2>3
  <2>5. FlightIds \ TakenIds \subseteq FlightIds'
    <3> SUFFICES ASSUME NEW k \in 1 .. len, on_flight_ios[k].id \notin TakenIds
                 PROVE  on_flight_ios[k].id \in FlightIds'
      BY DEF FlightIds
    <3>1. PICK m \in 1 .. len - n : on_flight_ios[k].id = on_flight_ios'[m].id
      BY <2>2
    <3> QED BY <3>1, <2>3
  <2> QED BY <2>4, <2>5
<1>8. ASSUME NEW k \in 1 .. n
      PROVE  /\ on_flight_ios[k].id \in DOMAIN new
             /\ new[on_flight_ios[k].id] = on_flight_ios[k].slot
  <2>1. on_flight_ios[k] \in taken
    OBVIOUS
  <2>2. ASSUME NEW r \in taken, r.id = on_flight_ios[k].id
        PROVE  r = on_flight_ios[k]
    <3>1. PICK j \in 1 .. n : r = on_flight_ios[j]
      OBVIOUS
    <3>2. j \in 1 .. len /\ k \in 1 .. len
      BY <1>1
    <3> QED BY <3>1, <3>2, <2>2, <1>6
  <2>3. (CHOOSE r \in taken : r.id = on_flight_ios[k].id) = on_flight_ios[k]
    <3> HIDE DEF taken
    <3> QED BY <2>1, <2>2
  <2>4. on_flight_ios[k].id \in TakenIds
    BY DEF TakenIds, n
  <2> HIDE DEF taken
  <2> QED BY <2>3, <2>4
<1>9. DOMAIN new = TakenIds /\ TakenIds \cap old = {}
  <2>1. TakenIds \subseteq FlightIds
    BY <1>1, <1>3 DEF TakenIds, n
  <2> QED BY <2>1 DEF PoolOK
<1>10. id_buf_map' = [i \in old \cup TakenIds |-> IF i \in old THEN id_buf_map[i] ELSE new[i]]
  BY <1>1, <1>5 DEF WithSlots
<1> HIDE DEF new
<1>11. /\ DOMAIN id_buf_map' = DOMAIN id_buf_map \cup TakenIds
       /\ \A i \in DOMAIN id_buf_map : id_buf_map'[i] = id_buf_map[i]
       /\ \A i \in TakenIds : id_buf_map'[i] = new[i]
  BY ONLY <1>9, <1>10
<1>12. \A k \in 1 .. n : id_buf_map'[on_flight_ios[k].id] = on_flight_ios[k].slot
  BY <1>8, <1>9, <1>11
<1> QED BY <1>1, <1>2, <1>3, <1>4, <1>5, <1>7, <1>11, <1>12 DEF n

(* poll_all(ctx) and the reads taken off: each read taken was finished, so *)
(* that no read of the device is lost and each slot noted has a record.    *)
LEMMA TakeIInv ==
  ASSUME IInv, TakeFinished,
         UNCHANGED <<fixedVars, seen, list, unsent, cur_buf_idx, reqs, buf, kernel, insertVars>>,
         expanded \subseteq expanded', expanded' \subseteq expanded \cup (list \cap DOMAIN id_buf_map'),
         converge_size' \in {None} \cup 0 .. NNodes, cur_beam_width' \in 0 .. BeamWidth,
         at' \in {"poll", "send", "drain", "return"},
         at' = "return" => on_flight_ios' = <<>>
  PROVE  IInv'
<1> USE DEF IInv, fixedVars, insertVars
<1> DEFINE len == Len(on_flight_ios)
           n == NFinished
<1>1. /\ len \in Nat /\ n \in 0 .. len
      /\ on_flight_ios' \in Seq([id : Nodes, slot : Slots])
      /\ Len(on_flight_ios') = len - n
      /\ \A k \in 1 .. len - n : on_flight_ios'[k] = on_flight_ios[k + n]
      /\ \A k \in 1 .. len :
           on_flight_ios[k] \in [id : Nodes, slot : Slots] /\ on_flight_ios[k].id \in seen
      /\ FlightIds' = FlightIds \ TakenIds
      /\ rlocks' = rlocks \ TakenIds
      /\ DOMAIN id_buf_map' = DOMAIN id_buf_map \cup TakenIds
      /\ \A i \in DOMAIN id_buf_map : id_buf_map'[i] = id_buf_map[i]
      /\ \A k \in 1 .. n : id_buf_map'[on_flight_ios[k].id] = on_flight_ios[k].slot
  BY TakeFinishedFacts
<1>2. \A k \in 1 .. n : reqs[on_flight_ios[k].slot]
  BY NFinishedFacts
<1>3. TakenIds \subseteq FlightIds
  <2>1. \A k \in 1 .. n : k \in 1 .. len
    BY ONLY <1>1
  <2> QED BY <2>1 DEF TakenIds, FlightIds
<1> HIDE DEF n
<1>4. \A k \in 1 .. len - n : k + n \in 1 .. len /\ k + n \notin 1 .. n
  BY ONLY <1>1
<1>5. ASSUME NEW i \in TakenIds
      PROVE  \E k \in 1 .. n : /\ k \in 1 .. len /\ i = on_flight_ios[k].id
                               /\ id_buf_map'[i] = on_flight_ios[k].slot
                               /\ on_flight_ios[k].slot \in Slots /\ i \in seen
  <2>1. PICK k \in 1 .. n : i = on_flight_ios[k].id
    BY DEF TakenIds, n
  <2>2. k \in 1 .. len
    BY ONLY <1>1, k \in 1 .. n
  <2>3. on_flight_ios[k] \in [id : Nodes, slot : Slots] /\ on_flight_ios[k].id \in seen
    BY <1>1, <2>2
  <2> QED BY <1>1, <2>1, <2>2, <2>3
<1>6. TypeOK'
  <2>1. \A i \in DOMAIN id_buf_map' : i \in seen /\ id_buf_map'[i] \in Slots
    BY <1>1, <1>5 DEF TypeOK
  <2>2. \A k \in DOMAIN on_flight_ios' : on_flight_ios'[k] \in [id : Nodes, slot : Slots]
    <3>1. on_flight_ios' \in Seq([id : Nodes, slot : Slots])
      BY <1>1
    <3> QED BY ONLY <3>1, ElementsIn
  <2>3. Len(on_flight_ios') <= BeamWidth
    <3>1. len <= BeamWidth /\ BeamWidth \in Nat
      BY PipeSearchAssumption DEF TypeOK
    <3>2. len \in Nat /\ n \in 0 .. len /\ Len(on_flight_ios') = len - n
      BY <1>1
    <3> QED BY ONLY <3>1, <3>2
  <2>4. rlocks' \subseteq Nodes
    BY <1>1 DEF TypeOK
  <2>5. expanded' \subseteq seen
    BY DEF TypeOK
  <2> QED BY <2>1, <2>2, <2>3, <2>4, <2>5 DEF TypeOK
<1>7. ReadsOK'
  <2>1. ASSUME NEW k \in 1 .. len - n
        PROVE  Back(cur_buf_idx', on_flight_ios'[k].slot) = (len - n) - k
    <3>1. Back(cur_buf_idx, on_flight_ios[k + n].slot) = len - (k + n)
      BY <1>4 DEF ReadsOK
    <3> QED BY <3>1, <1>1
  <2>2. ASSUME NEW j \in 1 .. len - n, NEW k \in 1 .. len - n,
               on_flight_ios'[j].id = on_flight_ios'[k].id
        PROVE  j = k
    <3>1. on_flight_ios[j + n].id = on_flight_ios[k + n].id
      BY <1>1, <2>2
    <3>2. j + n = k + n
      BY <3>1, <1>4 DEF ReadsOK
    <3> QED BY <3>2, <1>1
  <2>3. rlocks' = FlightIds'
    BY <1>1 DEF ReadsOK
  <2>4. ASSUME NEW r \in kernel
        PROVE  r \in Flight' /\ ~reqs[r.slot]
    <3>1. r \in Flight /\ ~reqs[r.slot]
      BY DEF ReadsOK
    <3>2. PICK k \in 1 .. len : r = on_flight_ios[k]
      BY <3>1 DEF Flight
    <3>3. k \notin 1 .. n
      BY <3>1, <3>2, <1>2 DEF n
    <3>4. k - n \in 1 .. len - n /\ (k - n) + n = k
      BY ONLY <3>3, <1>1, k \in 1 .. len
    <3>5. on_flight_ios'[k - n] = r
      BY <3>2, <3>4, <1>1
    <3> QED BY <3>1, <3>4, <3>5, <1>1 DEF Flight
  <2> QED BY <2>1, <2>2, <2>3, <2>4, <1>1 DEF ReadsOK
<1>8. FilledOK'
  <2>1. \A s \in Slots : reqs[s] => buf[s] \in Nodes
    BY DEF FilledOK
  <2>2. ASSUME NEW k \in 1 .. len - n, reqs[on_flight_ios'[k].slot]
        PROVE  buf[on_flight_ios'[k].slot] = on_flight_ios'[k].id
    BY <2>2, <1>1, <1>4 DEF FilledOK
  <2>3. ASSUME NEW i \in DOMAIN id_buf_map'
        PROVE  buf[id_buf_map'[i]] \in Nodes
    <3>1. CASE i \in DOMAIN id_buf_map
      BY <3>1, <1>1 DEF FilledOK
    <3>2. CASE i \in TakenIds
      <4>1. PICK k \in 1 .. n : /\ id_buf_map'[i] = on_flight_ios[k].slot
                                /\ on_flight_ios[k].slot \in Slots
        BY <3>2, <1>5
      <4>2. reqs[on_flight_ios[k].slot]
        BY <1>2 DEF n
      <4> QED BY <4>1, <4>2, <2>1
    <3> QED BY <3>1, <3>2, <1>1
  <2> QED BY <2>1, <2>2, <2>3, <1>1 DEF FilledOK
<1>9. PoolOK'
  BY <1>1, <1>3 DEF PoolOK
<1>10. LastListed'
  <2> SUFFICES ASSUME on_flight_ios' # <<>>
               PROVE  on_flight_ios'[Len(on_flight_ios')].id \in list \/ unsent # {}
    BY DEF LastListed
  <2>1. len - n \in 1 .. len - n /\ (len - n) + n = len
    <3>1. Len(on_flight_ios') # 0
      BY <1>1
    <3>2. len \in Nat /\ n \in 0 .. len /\ Len(on_flight_ios') = len - n
      BY <1>1
    <3> QED BY ONLY <3>1, <3>2
  <2>2. on_flight_ios'[Len(on_flight_ios')] = on_flight_ios[len] /\ on_flight_ios # <<>>
    BY <2>1, <1>1
  <2> QED BY <2>2 DEF LastListed
<1>11. PlacesOK'
  BY DEF PlacesOK
<1> QED BY <1>6, <1>7, <1>8, <1>9, <1>10, <1>11

(* poll_all() and the tuning of the beam.                                  *)
LEMMA PollIInv ==
  ASSUME IInv, Poll
  PROVE  IInv'
<1>1. cur_beam_width' \in 0 .. BeamWidth
  <2>1. cur_beam_width \in 0 .. BeamWidth /\ cur_beam_width + 1 \in Nat
    BY PipeSearchAssumption DEF IInv, TypeOK
  <2>2. BeamWidth \in Nat /\ InitialBeam \in Nat
    BY PipeSearchAssumption
  <2>3. Max({cur_beam_width + 1, InitialBeam}) \in Nat
    BY <2>1, <2>2, MaxOfTwo
  <2>4. Min({BeamWidth, Max({cur_beam_width + 1, InitialBeam})}) \in 0 .. BeamWidth
    BY <2>2, <2>3, MinOfTwo
  <2>5. cur_beam_width' \in {cur_beam_width, Min({BeamWidth, Max({cur_beam_width + 1, InitialBeam})})}
    BY DEF Poll
  <2> QED BY <2>1, <2>4, <2>5
<1>2. converge_size' \in {None} \cup 0 .. NNodes
  <2>1. Cardinality(expanded) \in 0 .. NNodes
    <3>1. expanded \subseteq Nodes
      BY DEF IInv, TypeOK
    <3> QED BY <3>1, NodesFinite, PipeSearchAssumption
  <2> QED BY <2>1 DEF Poll, IInv, TypeOK
<1>3. at' \in {"send", "drain"}
  BY DEF Poll
<1>4. /\ TakeFinished /\ expanded' = expanded
      /\ UNCHANGED <<fixedVars, seen, list, unsent, cur_buf_idx, reqs, buf, kernel, insertVars>>
  BY DEF Poll
<1> QED BY ONLY IInv, <1>1, <1>2, <1>3, <1>4, TakeIInv

(* The reads in flight are waited for with relaxed monotonicity.           *)
LEMMA DrainIInv ==
  ASSUME IInv, Drain
  PROVE  IInv'
<1>1. /\ expanded \subseteq expanded'
      /\ expanded' \subseteq expanded \cup (list \cap DOMAIN id_buf_map')
      /\ at' \in {"drain", "return"} /\ (at' = "return" => on_flight_ios' = <<>>)
  BY DEF Drain
<1>2. converge_size' \in {None} \cup 0 .. NNodes /\ cur_beam_width' \in 0 .. BeamWidth
  BY DEF Drain, IInv, TypeOK
<1>3. /\ TakeFinished
      /\ UNCHANGED <<fixedVars, seen, list, unsent, cur_buf_idx, reqs, buf, kernel, insertVars>>
  BY DEF Drain
<1> QED BY ONLY IInv, <1>1, <1>2, <1>3, TakeIInv

(* What an expansion makes of the list: the best of all nodes seen, and no *)
(* node falls out of it without a nearer one that is still to be sent.     *)
LEMMA CalcFacts ==
  ASSUME IInv, Calc
  PROVE  \E nbrs \in SUBSET (Nodes \ seen) :
           /\ seen' = seen \cup nbrs
           /\ list' = Best(LSearch, seen')
           /\ unsent' = (unsent \cup nbrs) \cap list'
           /\ unsent' = {} => list \subseteq list' /\ unsent = {}
           /\ expanded \subseteq expanded' /\ expanded' \subseteq expanded \cup Read
           /\ Read = {} => expanded' = expanded
           /\ Read # {} => expanded' = expanded \cup {Min(Read)}
<1> USE DEF IInv
<1>1. /\ seen \subseteq Nodes /\ list \subseteq seen /\ unsent \subseteq list
      /\ Cardinality(list) <= LSearch /\ LSearch \in Nat /\ list = Best(LSearch, seen)
  BY PipeSearchAssumption DEF TypeOK, PoolOK
<1>2. CASE Read = {}
  <2>1. UNCHANGED <<seen, list, unsent, expanded>>
    BY <1>2 DEF Calc
  <2>2. /\ seen' = seen \cup {} /\ list' = Best(LSearch, seen')
        /\ unsent' = (unsent \cup {}) \cap list'
        /\ unsent' = {} => list \subseteq list' /\ unsent = {}
    BY <1>1, <2>1
  <2>3. {} \in SUBSET (Nodes \ seen) /\ expanded' = expanded
    BY <2>1
  <2> QED BY ONLY <1>2, <2>2, <2>3
<1>3. CASE Read # {}
  <2> DEFINE i == Min(Read)
             nbrs == graph[buf[id_buf_map[i]]] \ seen
  <2>1. i \in Read
    <3>1. Read \subseteq Nodes
      BY <1>1 DEF Read
    <3> QED BY ONLY <3>1, <1>3, MinIn
  <2>2. nbrs \subseteq Nodes \ seen
    BY <2>1 DEF Read, FilledOK, PoolOK
  <2>3. /\ seen' = seen \cup nbrs
        /\ list' = Best(LSearch, list \cup nbrs)
        /\ unsent' = (unsent \cup nbrs) \cap list'
        /\ expanded' = expanded \cup {i}
    BY <1>3 DEF Calc
  <2> HIDE DEF nbrs, i
  <2>4. list' = Best(LSearch, seen')
    <3>1. nbrs \subseteq Nodes /\ seen \subseteq Nodes /\ LSearch \in Nat
      BY <1>1, <2>2
    <3>2. Best(LSearch, Best(LSearch, seen) \cup nbrs) = Best(LSearch, seen \cup nbrs)
      BY ONLY <3>1, BestAgain
    <3>3. list = Best(LSearch, seen)
      BY <1>1
    <3> QED BY ONLY <2>3, <3>2, <3>3
  <2>5. ASSUME unsent' = {}
        PROVE  list \subseteq list' /\ unsent = {}
    <3>1. nbrs \cap Best(LSearch, list \cup nbrs) = {}
      BY <2>3, <2>5
    <3>2. list \subseteq Nodes /\ nbrs \subseteq Nodes
      BY <1>1, <2>2
    <3>3. list \subseteq list'
      BY <1>1, <2>3, <3>1, <3>2, BestStays
    <3> QED BY <1>1, <2>3, <2>5, <3>3
  <2> QED BY <1>3, <2>1, <2>2, <2>3, <2>4, <2>5 DEF i
<1> QED BY <1>2, <1>3

(* calc_best_node(): when all candidates are expanded no read is in flight.*)
LEMMA CalcIInv ==
  ASSUME IInv, Calc
  PROVE  IInv'
<1> USE DEF IInv, fixedVars, ringVars, insertVars
<1>1. /\ UNCHANGED <<graph, relaxed_monotonicity_l, id_buf_map, converge_size, on_flight_ios,
                     cur_buf_idx, reqs, buf, kernel, rlocks, cur_beam_width, wlocks, insert_ids>>
      /\ at' \in {"poll", "drain", "return"}
      /\ at' = "return" => list' \subseteq expanded'
  BY DEF Calc
<1>2. FlightIds' = FlightIds /\ Flight' = Flight
  BY <1>1 DEF FlightIds, Flight
<1>3. PICK nbrs \in SUBSET (Nodes \ seen) :
        /\ seen' = seen \cup nbrs
        /\ list' = Best(LSearch, seen')
        /\ unsent' = (unsent \cup nbrs) \cap list'
        /\ unsent' = {} => list \subseteq list' /\ unsent = {}
        /\ expanded \subseteq expanded' /\ expanded' \subseteq expanded \cup Read
  BY CalcFacts
<1>4. Read \subseteq DOMAIN id_buf_map /\ Read \subseteq list
  BY DEF Read
<1>5. TypeOK'
  <2>1. seen' \subseteq Nodes /\ LSearch \in Nat
    BY <1>3, PipeSearchAssumption DEF TypeOK
  <2>2. list' \subseteq seen' /\ Cardinality(list') <= LSearch
    BY <1>3, <2>1, BestBounded
  <2>3. expanded' \subseteq seen'
    BY <1>3, <1>4 DEF TypeOK
  <2>4. unsent' \subseteq list'
    BY <1>3
  <2>5. \A i \in DOMAIN id_buf_map' : i \in seen' /\ id_buf_map'[i] \in Slots
    BY <1>1, <1>3 DEF TypeOK
  <2> QED BY <1>1, <2>1, <2>2, <2>3, <2>4, <2>5 DEF TypeOK
<1>6. ReadsOK' /\ FilledOK'
  BY <1>1, <1>2 DEF ReadsOK, FilledOK
<1>7. PoolOK'
  <2>1. DOMAIN id_buf_map \subseteq seen /\ FlightIds \subseteq seen
    BY DEF TypeOK, PoolOK
  <2>2. unsent' \cap FlightIds = {} /\ unsent' \cap DOMAIN id_buf_map = {}
    BY <1>3, <2>1 DEF PoolOK
  <2>3. expanded' \subseteq DOMAIN id_buf_map
    BY <1>3, <1>4 DEF PoolOK
  <2> QED BY <1>1, <1>2, <1>3, <2>1, <2>2, <2>3 DEF PoolOK
<1>8. LastListed'
  BY <1>1, <1>3 DEF LastListed
<1>9. PlacesOK'
  <2> SUFFICES ASSUME at' = "return" PROVE on_flight_ios' = <<>>
    BY <1>1 DEF PlacesOK
  <2>1. list' \subseteq expanded' /\ expanded' \subseteq DOMAIN id_buf_map /\ unsent' \subseteq list'
    BY <1>1, <1>3, <1>7 DEF PoolOK
  <2>2. unsent' = {}
    BY <1>1, <1>7, <2>1 DEF PoolOK
  <2>3. ASSUME on_flight_ios # <<>>
        PROVE  FALSE
    <3>1. Len(on_flight_ios) \in 1 .. Len(on_flight_ios)
      BY <2>3 DEF ReadsOK
    <3>2. on_flight_ios[Len(on_flight_ios)].id \in FlightIds
      BY <3>1 DEF FlightIds
    <3>3. on_flight_ios[Len(on_flight_ios)].id \in list'
      BY <1>1, <1>8, <2>2, <2>3 DEF LastListed
    <3> QED BY <2>1, <3>2, <3>3 DEF PoolOK
  <2> QED BY <2>3, <1>1
<1> QED BY <1>5, <1>6, <1>7, <1>8, <1>9

(* push_query_buf(), and the steps of an insert.                           *)
LEMMA ReturnIInv ==
  ASSUME IInv, Return
  PROVE  IInv'
<1> USE DEF IInv, Return, fixedVars, poolVars, ringVars, insertVars
<1>1. TypeOK'
  BY DEF TypeOK
<1>2. FlightIds' = FlightIds /\ Flight' = Flight
  BY DEF FlightIds, Flight
<1>3. ReadsOK' /\ FilledOK'
  BY <1>2 DEF ReadsOK, FilledOK
<1>4. PoolOK' /\ LastListed' /\ PlacesOK'
  BY <1>2 DEF PoolOK, LastListed, PlacesOK
<1> QED BY <1>1, <1>3, <1>4

(* An insert locks and unlocks ids; it waits for those that are being read.*)
LEMMA InsertIInv ==
  ASSUME IInv, InsertBegin \/ InsertLock \/ InsertUnlock
  PROVE  IInv'
<1> USE DEF IInv, fixedVars, poolVars, ringVars
<1>1. UNCHANGED <<fixedVars, at, poolVars, ringVars, cur_beam_width>>
  BY DEF InsertBegin, InsertLock, InsertUnlock
<1>2. wlocks' \subseteq insert_ids' /\ insert_ids' \subseteq Nodes
  <2>1. wlocks \subseteq insert_ids /\ insert_ids \subseteq Nodes
    BY DEF TypeOK
  <2>2. CASE InsertBegin
    BY <2>1, <2>2, PipeSearchAssumption DEF InsertBegin
  <2>3. CASE InsertLock
    <3>1. insert_ids \ wlocks # {} /\ insert_ids \ wlocks \subseteq Nodes
      BY <2>1, <2>3 DEF InsertLock
    <3>2. Min(insert_ids \ wlocks) \in insert_ids \ wlocks
      BY ONLY <3>1, MinIn
    <3> QED BY <2>1, <2>3, <3>2 DEF InsertLock
  <2>4. CASE InsertUnlock
    BY <2>1, <2>4 DEF InsertUnlock
  <2> QED BY <2>2, <2>3, <2>4
<1>3. TypeOK'
  BY <1>1, <1>2 DEF TypeOK
<1>4. FlightIds' = FlightIds /\ Flight' = Flight
  BY <1>1 DEF FlightIds, Flight
<1>5. ReadsOK' /\ FilledOK'
  BY <1>1, <1>4 DEF ReadsOK, FilledOK
<1>6. PoolOK' /\ LastListed' /\ PlacesOK'
  BY <1>1, <1>4 DEF PoolOK, LastListed, PlacesOK
<1> QED BY <1>3, <1>5, <1>6

(* Every step of the searches, the device and the inserts.                 *)
LEMMA NextIInv ==
  ASSUME IInv, [Next]_vars
  PROVE  IInv'
<1>1. CASE Begin
  BY <1>1, BeginIInv
<1>2. CASE SendFirst
  BY <1>2, SendFirstIInv
<1>3. CASE Send
  BY <1>3, SendIInv
<1>4. CASE Poll
  BY <1>4, PollIInv
<1>5. CASE Calc
  BY <1>5, CalcIInv
<1>6. CASE Drain
  BY <1>6, DrainIInv
<1>7. CASE Return
  BY <1>7, ReturnIInv
<1>8. CASE \E r \in kernel : Complete(r)
  BY <1>8, CompleteIInv
<1>9. CASE InsertBegin \/ InsertLock \/ InsertUnlock
  BY <1>9, InsertIInv
<1>10. CASE UNCHANGED vars
  <2>1. FlightIds' = FlightIds /\ Flight' = Flight
    BY <1>10 DEF vars, ringVars, FlightIds, Flight
  <2> USE <1>10 DEF IInv, vars, fixedVars, poolVars, ringVars, insertVars
  <2>2. TypeOK'
    BY DEF TypeOK
  <2>3. ReadsOK' /\ FilledOK'
    BY <2>1 DEF ReadsOK, FilledOK
  <2>4. PoolOK' /\ LastListed' /\ PlacesOK'
    BY <2>1 DEF PoolOK, LastListed, PlacesOK
  <2> QED BY <2>2, <2>3, <2>4
<1> QED BY <1>1, <1>2, <1>3, <1>4, <1>5, <1>6, <1>7, <1>8, <1>9, <1>10
        DEF Next, SearchStep, KernelStep, InsertStep

-----------------------------------------------------------------------------
(* The theorems.                                                           *)

(* The invariant holds, with any ring that has room for the beam.          *)
THEOREM Invariance == Spec => []IInv
BY InitIInv, NextIInv, PTL DEF Spec

(* Every variable keeps its type: the list never grows over l_search, the  *)
(* queue never over beam_width, and sector_idx stays in the ring.          *)
THEOREM TypeCorrect == Spec => []TypeOK
<1>1. IInv => TypeOK
  BY DEF IInv
<1> QED BY <1>1, Invariance, PTL

(* pipe_search() returns with no read in flight or in the device, and no   *)
(* id locked, though its default mode leaves the loop without waiting.     *)
THEOREM IosAlwaysComplete == Spec => []AllIosComplete
<1>1. IInv => AllIosComplete
  BY DEF IInv, PlacesOK, ReadsOK, Flight, FlightIds, AllIosComplete
<1> QED BY <1>1, Invariance, PTL

-----------------------------------------------------------------------------
(* The records.                                                            *)

(* The ring has room for the list and the beam.  pipe_search() looks only  *)
(* at the beam: MAX_N_SECTOR_READS is 128, and l_search may be more.       *)
RingLarge == LSearch + BeamWidth <= MaxReads

(* A node of the list has fewer than l_search nearer nodes that are        *)
(* expanded.                                                               *)
LEMMA ReadFacts ==
  ASSUME IInv, NEW i \in Read
  PROVE  /\ i \in Nodes /\ i \in list /\ i \notin expanded /\ i \in DOMAIN id_buf_map
         /\ id_buf_map[i] \in Slots /\ buf[id_buf_map[i]] \in Nodes
         /\ Back(cur_buf_idx, id_buf_map[i]) \in 0 .. MaxReads - 1
         /\ Cardinality(Below(i, expanded)) \in Nat
         /\ Cardinality(Below(i, expanded)) <= LSearch - 1
<1>1. /\ i \in list /\ i \notin expanded /\ i \in DOMAIN id_buf_map /\ id_buf_map[i] \in Slots
      /\ seen \subseteq Nodes /\ expanded \subseteq seen /\ i \in Nodes
      /\ list = Best(LSearch, seen) /\ buf[id_buf_map[i]] \in Nodes /\ cur_buf_idx \in Slots
  BY DEF IInv, TypeOK, PoolOK, FilledOK, Read
<1>2. Cardinality(Below(i, seen)) < LSearch
  BY <1>1 DEF Best, Below
<1>3. Below(i, seen) \subseteq Nodes /\ Below(i, expanded) \subseteq Below(i, seen)
  BY <1>1 DEF Below
<1>4. IsFiniteSet(Below(i, seen))
  BY <1>3, NodesFinite
<1>5. /\ Cardinality(Below(i, expanded)) \in Nat /\ Cardinality(Below(i, seen)) \in Nat
      /\ Cardinality(Below(i, expanded)) <= Cardinality(Below(i, seen))
  BY ONLY <1>3, <1>4, Part
<1>6. LSearch \in Nat
  BY PipeSearchAssumption
<1>7. Cardinality(Below(i, expanded)) <= LSearch - 1
  BY ONLY <1>2, <1>5, <1>6
<1>8. Back(cur_buf_idx, id_buf_map[i]) \in 0 .. MaxReads - 1
  BY <1>1, BackFacts
<1> QED BY <1>1, <1>5, <1>7, <1>8

(* A read is sent to a slot that no record still to be used is in.         *)
LEMMA SendKept ==
  ASSUME RingLarge, IInv, RecordsKept, Send
  PROVE  RecordsKept'
<1>1. /\ at = "send" /\ at' = "calc" /\ UNCHANGED <<list, expanded, id_buf_map>>
  BY DEF Send
<1>2. Read' = Read
  BY <1>1 DEF Read
<1>3. CASE UNCHANGED ringVars
  <2> SUFFICES ASSUME NEW i \in Read
               PROVE  /\ buf[id_buf_map[i]] = i
                      /\ Len(on_flight_ios) <= Back(cur_buf_idx, id_buf_map[i])
                      /\ Back(cur_buf_idx, id_buf_map[i])
                           <= BeamWidth - 1 + Cardinality(Below(i, expanded)) + 1
    BY <1>1, <1>2, <1>3 DEF RecordsKept, ringVars, Below
  <2>1. /\ Back(cur_buf_idx, id_buf_map[i]) \in 0 .. MaxReads - 1
        /\ Cardinality(Below(i, expanded)) \in Nat /\ BeamWidth \in Nat /\ MaxReads \in Nat
    BY ReadFacts, PipeSearchAssumption
  <2>2. /\ buf[id_buf_map[i]] = i
        /\ Len(on_flight_ios) <= Back(cur_buf_idx, id_buf_map[i])
        /\ Back(cur_buf_idx, id_buf_map[i])
             <= BeamWidth - 1 + Cardinality(Below(i, expanded)) + 0
    BY <1>1 DEF RecordsKept
  <2>3. Back(cur_buf_idx, id_buf_map[i])
             <= BeamWidth - 1 + Cardinality(Below(i, expanded)) + 1
    BY ONLY <2>1, <2>2
  <2> QED BY <2>2, <2>3
<1>4. CASE unsent # {} /\ Len(on_flight_ios) < cur_beam_width /\ SendRead(Min(unsent))
  <2> DEFINE s == cur_buf_idx
  <2>1. Min(unsent) \in unsent
    <3>1. unsent \subseteq Nodes
      BY DEF IInv, TypeOK
    <3> QED BY ONLY <3>1, <1>4, MinIn
  <2>2. /\ Len(on_flight_ios) \in Nat /\ BeamWidth \in Nat /\ MaxReads \in Nat /\ s \in Slots
        /\ Len(on_flight_ios') = Len(on_flight_ios) + 1
        /\ \A t \in Slots : t # s => Back(cur_buf_idx', t) = Back(cur_buf_idx, t) + 1
    BY ONLY <2>1, <1>4, IInv, SendReadFacts
  <2>3. /\ buf \in [Slots -> Nodes \cup {None}]
        /\ buf' = [buf EXCEPT ![s] = Min(unsent)] \/ buf' = buf
    BY <1>4 DEF IInv, TypeOK, SendRead
  <2>4. \A t \in Slots : t # s => buf'[t] = buf[t]
    BY ONLY <2>3
  <2> SUFFICES ASSUME NEW i \in Read
               PROVE  /\ buf'[id_buf_map[i]] = i
                      /\ Len(on_flight_ios') <= Back(cur_buf_idx', id_buf_map[i])
                      /\ Back(cur_buf_idx', id_buf_map[i])
                           <= BeamWidth - 1 + Cardinality(Below(i, expanded)) + 1
    BY <1>1, <1>2 DEF RecordsKept, Below
  <2> DEFINE t == id_buf_map[i]
             c == Cardinality(Below(i, expanded))
             b == Back(cur_buf_idx, t)
  <2>5. t \in Slots /\ b \in 0 .. MaxReads - 1 /\ c \in Nat /\ c <= LSearch - 1
    BY ReadFacts
  <2>6. buf[t] = i /\ Len(on_flight_ios) <= b /\ b <= BeamWidth - 1 + c + 0
    BY <1>1 DEF RecordsKept
  <2>7. s \in Slots /\ (b = MaxReads - 1 <=> t = s)
    BY <2>2, <2>5, BackFacts
  <2>8. t # s
    <3> HIDE DEF t, b, c, s
    <3>1. LSearch \in Nat
      BY PipeSearchAssumption
    <3> QED BY ONLY <3>1, <2>2, <2>5, <2>6, <2>7, RingLarge DEF RingLarge
  <2>9. Back(cur_buf_idx', t) = b + 1
    BY <2>2, <2>5, <2>8
  <2>10. Len(on_flight_ios') <= b + 1 /\ b + 1 <= BeamWidth - 1 + c + 1
    <3> HIDE DEF t, b, c, s
    <3> QED BY ONLY <2>2, <2>5, <2>6
  <2> QED BY <2>4, <2>5, <2>6, <2>8, <2>9, <2>10
<1> QED BY <1>3, <1>4 DEF Send

(* The device writes to the slot of a read in flight, which was handed out *)
(* after those of all records that are still to be used.                   *)
LEMMA CompleteKept ==
  ASSUME IInv, RecordsKept, NEW r \in kernel, Complete(r)
  PROVE  RecordsKept'
<1>1. /\ UNCHANGED <<at, list, expanded, id_buf_map, on_flight_ios, cur_buf_idx>>
      /\ buf' = [buf EXCEPT ![r.slot] = r.id] /\ buf \in [Slots -> Nodes \cup {None}]
  BY DEF Complete, poolVars, IInv, TypeOK
<1>2. Read' = Read
  BY <1>1 DEF Read
<1>3. PICK k \in 1 .. Len(on_flight_ios) : r = on_flight_ios[k]
  BY DEF IInv, ReadsOK, Flight
<1>4. /\ Back(cur_buf_idx, r.slot) = Len(on_flight_ios) - k /\ Len(on_flight_ios) \in Nat
  BY <1>3, ElementsIn DEF IInv, ReadsOK
<1>5. ASSUME NEW i \in Read
      PROVE  buf'[id_buf_map[i]] = i
  <2>1. /\ buf[id_buf_map[i]] = i /\ Len(on_flight_ios) <= Back(cur_buf_idx, id_buf_map[i])
        /\ id_buf_map[i] \in Slots
    BY ReadFacts DEF RecordsKept
  <2>2. Back(cur_buf_idx, r.slot) < Len(on_flight_ios)
    BY <1>4
  <2>3. Back(cur_buf_idx, id_buf_map[i]) \in 0 .. MaxReads - 1
    BY ReadFacts
  <2>4. r.slot # id_buf_map[i]
    BY <1>4, <2>1, <2>2, <2>3
  <2> QED BY <1>1, <2>1, <2>4
<1>6. \A i \in Read : Below(i, expanded') = Below(i, expanded)
  BY <1>1
<1> QED BY <1>1, <1>2, <1>5, <1>6 DEF RecordsKept

(* A read that is taken off has its record, and the reads in flight have   *)
(* the slots after its own.                                                *)
LEMMA TakeKept ==
  ASSUME IInv, RecordsKept, TakeFinished,
         UNCHANGED <<list, expanded, cur_buf_idx, buf>>, at # "calc", at' # "calc"
  PROVE  RecordsKept'
<1> DEFINE len == Len(on_flight_ios)
           n == NFinished
<1>1. /\ len \in Nat /\ n \in 0 .. len
      /\ Len(on_flight_ios') = len - n
      /\ DOMAIN id_buf_map' = DOMAIN id_buf_map \cup TakenIds
      /\ \A i \in DOMAIN id_buf_map : id_buf_map'[i] = id_buf_map[i]
      /\ \A k \in 1 .. n : id_buf_map'[on_flight_ios[k].id] = on_flight_ios[k].slot
  BY TakeFinishedFacts
<1>2. \A k \in 1 .. n : reqs[on_flight_ios[k].slot]
  BY NFinishedFacts DEF IInv
<1>3. len <= BeamWidth /\ BeamWidth \in Nat /\ MaxReads \in Nat
  BY PipeSearchAssumption DEF IInv, TypeOK
<1> SUFFICES ASSUME NEW i \in Read'
             PROVE  /\ buf[id_buf_map'[i]] = i
                    /\ len - n <= Back(cur_buf_idx, id_buf_map'[i])
                    /\ Back(cur_buf_idx, id_buf_map'[i])
                         <= BeamWidth - 1 + Cardinality(Below(i, expanded)) + 0
  BY <1>1 DEF RecordsKept, Below
<1>4. i \in list /\ i \notin expanded /\ i \in DOMAIN id_buf_map'
  BY DEF Read
<1> HIDE DEF n
<1>5. CASE i \in DOMAIN id_buf_map
  <2>1. i \in Read /\ id_buf_map'[i] = id_buf_map[i]
    BY <1>1, <1>4, <1>5 DEF Read
  <2>2. Back(cur_buf_idx, id_buf_map[i]) \in 0 .. MaxReads - 1
    BY <2>1, ReadFacts
  <2>3. /\ buf[id_buf_map[i]] = i
        /\ len <= Back(cur_buf_idx, id_buf_map[i])
        /\ Back(cur_buf_idx, id_buf_map[i]) <= BeamWidth - 1 + Cardinality(Below(i, expanded)) + 0
    BY <2>1 DEF RecordsKept
  <2>4. len - n <= Back(cur_buf_idx, id_buf_map[i])
    BY ONLY <1>1, <2>2, <2>3
  <2> QED BY <2>1, <2>3, <2>4
<1>6. CASE i \in TakenIds
  <2>1. PICK k \in 1 .. n : i = on_flight_ios[k].id
    BY <1>6 DEF TakenIds, n
  <2>2. k \in 1 .. len
    BY ONLY <1>1, k \in 1 .. n
  <2>3. id_buf_map'[i] = on_flight_ios[k].slot /\ buf[on_flight_ios[k].slot] = i
    BY <1>1, <1>2, <2>1, <2>2 DEF IInv, FilledOK, n
  <2>4. Back(cur_buf_idx, on_flight_ios[k].slot) = len - k
    BY <2>2 DEF IInv, ReadsOK
  <2>5. Cardinality(Below(i, expanded)) \in Nat
    <3>1. Below(i, expanded) \subseteq Nodes
      BY DEF Below, IInv, TypeOK
    <3> QED BY <3>1, NodesFinite
  <2>6. len - n <= len - k /\ len - k <= BeamWidth - 1 + Cardinality(Below(i, expanded)) + 0
    BY ONLY <1>1, <1>3, <2>5, k \in 1 .. n
  <2> QED BY <2>3, <2>4, <2>6
<1> QED BY <1>1, <1>4, <1>5, <1>6

(* The node expanded is nearer than all others that have been read.        *)
LEMMA CalcKept ==
  ASSUME IInv, RecordsKept, Calc
  PROVE  RecordsKept'
<1>1. /\ UNCHANGED <<id_buf_map, on_flight_ios, cur_buf_idx, buf>>
      /\ at = "calc" /\ at' # "calc"
  BY DEF Calc, ringVars
<1>2. PICK nbrs \in SUBSET (Nodes \ seen) :
        /\ seen' = seen \cup nbrs
        /\ list' = Best(LSearch, seen')
        /\ expanded \subseteq expanded'
        /\ Read = {} => expanded' = expanded
        /\ Read # {} => expanded' = expanded \cup {Min(Read)}
  BY CalcFacts
<1> SUFFICES ASSUME NEW i \in Read'
             PROVE  /\ buf[id_buf_map[i]] = i
                    /\ Len(on_flight_ios) <= Back(cur_buf_idx, id_buf_map[i])
                    /\ Back(cur_buf_idx, id_buf_map[i])
                         <= BeamWidth - 1 + Cardinality(Below(i, expanded')) + 0
  BY <1>1 DEF RecordsKept, Below
<1>3. i \in list' /\ i \notin expanded' /\ i \in DOMAIN id_buf_map
  BY <1>1 DEF Read
<1>4. i \in list
  <2>1. i \in seen /\ seen \subseteq Nodes /\ list = Best(LSearch, seen) /\ LSearch \in Nat
    BY <1>3, PipeSearchAssumption DEF IInv, TypeOK, PoolOK
  <2>2. Below(i, seen) \subseteq Below(i, seen') /\ Below(i, seen') \subseteq Nodes
    BY <1>2, <2>1 DEF Below
  <2>3. IsFiniteSet(Below(i, seen'))
    BY <2>2, NodesFinite
  <2>4. /\ Cardinality(Below(i, seen)) \in Nat /\ Cardinality(Below(i, seen')) \in Nat
        /\ Cardinality(Below(i, seen)) <= Cardinality(Below(i, seen'))
    BY ONLY <2>2, <2>3, Part
  <2>5. Cardinality(Below(i, seen')) < LSearch
    BY <1>2, <1>3 DEF Best, Below
  <2>6. Cardinality(Below(i, seen)) < LSearch
    BY ONLY <2>1, <2>4, <2>5
  <2> QED BY <2>1, <2>6 DEF Best, Below
<1>5. i \in Read
  BY <1>2, <1>3, <1>4 DEF Read
<1> DEFINE m == Min(Read)
<1>6. Read \subseteq Nodes /\ i \in Nodes /\ Nodes \subseteq Nat
  <2>1. Read \subseteq Nodes
    BY DEF Read, IInv, TypeOK
  <2> QED BY <2>1, <1>5, NodesFinite
<1>7. m \in Read /\ m <= i
  BY ONLY <1>5, <1>6, MinIn
<1>8. expanded' = expanded \cup {m}
  BY <1>2, <1>5
<1> HIDE DEF m
<1>9. m \in Nodes /\ m \notin expanded /\ m < i
  <2>1. m # i /\ m \in Nodes /\ m \notin expanded
    BY <1>3, <1>7, <1>8, ReadFacts
  <2> QED BY ONLY <1>6, <1>7, <2>1
<1>10. Cardinality(Below(i, expanded')) = Cardinality(Below(i, expanded)) + 1
  <2>1. Below(i, expanded') = Below(i, expanded) \cup {m} /\ m \notin Below(i, expanded)
    BY <1>8, <1>9 DEF Below
  <2>2. Below(i, expanded) \subseteq Nodes
    BY DEF Below, IInv, TypeOK
  <2>3. IsFiniteSet(Below(i, expanded))
    BY <2>2, NodesFinite
  <2> QED BY ONLY <2>1, <2>3, FS_AddElement
<1>11. /\ buf[id_buf_map[i]] = i
       /\ Len(on_flight_ios) <= Back(cur_buf_idx, id_buf_map[i])
       /\ Back(cur_buf_idx, id_buf_map[i]) <= BeamWidth - 1 + Cardinality(Below(i, expanded)) + 1
  BY <1>1, <1>5 DEF RecordsKept
<1>12. Cardinality(Below(i, expanded)) \in Nat /\ BeamWidth \in Nat
  BY <1>5, ReadFacts, PipeSearchAssumption
<1>13. BeamWidth - 1 + Cardinality(Below(i, expanded)) + 1
         = BeamWidth - 1 + Cardinality(Below(i, expanded')) + 0
  BY ONLY <1>10, <1>12
<1> QED BY <1>11, <1>13

(* Every step keeps the records that are still to be used.                 *)
LEMMA NextKept ==
  ASSUME RingLarge, IInv, RecordsKept, [Next]_vars
  PROVE  RecordsKept'
<1>1. ASSUME Read' = {}
      PROVE  RecordsKept'
  BY <1>1 DEF RecordsKept
<1>2. CASE Begin
  BY <1>1, <1>2 DEF Begin, Read, NoSlots
<1>3. CASE SendFirst
  <2>1. Read' = {}
    BY <1>3 DEF SendFirst, Read, IInv, PlacesOK
  <2> QED BY <1>1, <2>1
<1>4. CASE Send
  BY <1>4, SendKept
<1>5. CASE Poll
  <2>1. /\ TakeFinished /\ UNCHANGED <<list, expanded, cur_buf_idx, buf>>
        /\ at # "calc" /\ at' # "calc"
    BY <1>5 DEF Poll
  <2> QED BY ONLY <2>1, IInv, RecordsKept, TakeKept
<1>6. CASE Calc
  BY <1>6, CalcKept
<1>7. CASE Drain
  <2>1. /\ TakeFinished /\ UNCHANGED <<list, cur_buf_idx, buf>> /\ at # "calc" /\ at' # "calc"
    BY <1>7 DEF Drain
  <2>2. CASE expanded' = expanded
    BY ONLY <2>1, <2>2, IInv, RecordsKept, TakeKept
  <2>3. CASE expanded' = expanded \cup {i \in list : i \in DOMAIN id_buf_map'}
    <3>1. Read' = {}
      BY <2>1, <2>3 DEF Read
    <3> QED BY <1>1, <3>1
  <2> QED BY <1>7, <2>2, <2>3 DEF Drain
<1>8. CASE \E r \in kernel : Complete(r)
  BY <1>8, CompleteKept
<1>9. CASE \/ Return \/ InsertBegin \/ InsertLock \/ InsertUnlock \/ UNCHANGED vars
  <2>1. /\ UNCHANGED <<list, expanded, id_buf_map, buf, on_flight_ios, cur_buf_idx>>
        /\ at = "calc" <=> at' = "calc"
    BY <1>9 DEF Return, InsertBegin, InsertLock, InsertUnlock, vars, poolVars, ringVars
  <2>2. Read' = Read /\ \A i : Below(i, expanded)' = Below(i, expanded)
    BY <2>1 DEF Read, Below
  <2> QED BY <2>1, <2>2 DEF RecordsKept
<1> QED BY <1>2, <1>3, <1>4, <1>5, <1>6, <1>7, <1>8, <1>9
        DEF Next, SearchStep, KernelStep, InsertStep

(* calc_best_node() expands each node from its own record, if the ring has *)
(* a slot for each node of the list and each read of the beam.  The code   *)
(* has 128 slots and refuses only a beam wider than that.                  *)
LEMMA OwnInLargeRing ==
  ASSUME RingLarge
  PROVE  Spec => []RecordsOwn
<1>1. Init => RecordsKept
  BY DEF Init, RecordsKept, Read
<1>2. IInv /\ RecordsKept /\ [Next]_vars => RecordsKept'
  BY NextKept
<1>3. RecordsKept => RecordsOwn
  BY DEF RecordsKept, RecordsOwn
<1> QED BY <1>1, <1>2, <1>3, Invariance, PTL DEF Spec
=============================================================================
