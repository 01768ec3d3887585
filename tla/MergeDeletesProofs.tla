-------------------------- MODULE MergeDeletesProofs --------------------------
(***************************************************************************)
(* Proofs about MergeDeletes for every layout, graph and set of deleted    *)
(* nodes, and every size of a page, a chunk and a batch.                   *)
(*                                                                         *)
(* The theorems need no more: types, the renumbering and the tables.       *)
(* Whose records are in the new file depends on three hypotheses that the  *)
(* code establishes nowhere, and the lemmas that use them name them: the   *)
(* background thread has nothing to write (BackgroundIdle), a batch is a   *)
(* whole number of chunks (WholeChunks), no search is pipelined (BeamOnly).*)
(* Without any one of them TLC finds what goes wrong (MergeDeletes_bg,     *)
(* _window and _pipe).                                                     *)
(***************************************************************************)
EXTENDS MergeDeletes, FiniteSetTheorems, TLAPS

BackgroundIdle == BgStates \subseteq {"none"}
WholeChunks == \E c \in Nat : LocPerMerge = LocPerPopulate * c
BeamOnly == Modes \subseteq {"beam"}

-----------------------------------------------------------------------------
(* Sets of numbers.                                                        *)

(* A set of numbers has a least one.                                       *)
LEMMA LeastNatural ==
  ASSUME NEW S, S # {}, S \subseteq Nat
  PROVE  \E x \in S : \A y \in S : x <= y
<1> DEFINE Below == StrictSubsetOrdering(Nat)
           T == {0 .. x : x \in S}
<1>1. \A x \in Nat : 0 .. x \in FiniteSubsetsOf(Nat)
  BY FS_Interval DEF FiniteSubsetsOf
<1>2. T \subseteq FiniteSubsetsOf(Nat) /\ T # {}
  BY <1>1
<1>3. \E X \in T : \A Y \in T : ~(<<Y, X>> \in Below)
  <2> HIDE DEF Below, T
  <2> QED BY ONLY <1>2, FS_StrictSubsetOrderingWellFounded, WFMin DEF Below
<1>4. PICK x \in S : \A y \in S : ~(<<0 .. y, 0 .. x>> \in Below)
  BY <1>3
<1>5. \A y \in S : ~(y < x)
  <2> SUFFICES ASSUME NEW y \in S, y < x PROVE FALSE
    OBVIOUS
  <2>1. /\ 0 .. y \in SUBSET Nat /\ 0 .. x \in SUBSET Nat
        /\ 0 .. y \subseteq 0 .. x /\ x \in 0 .. x /\ x \notin 0 .. y
    OBVIOUS
  <2>2. <<0 .. y, 0 .. x>> \in Below
    BY <2>1 DEF StrictSubsetOrdering
  <2> QED BY <1>4, <2>2
<1>6. \A y \in S : x <= y
  BY ONLY <1>5, S \subseteq Nat, x \in S
<1> QED BY <1>6

(* A bounded set of numbers has a greatest one.                            *)
LEMMA GreatestNatural ==
  ASSUME NEW S, S # {}, NEW b \in Nat, S \subseteq 0 .. b
  PROVE  \E x \in S : \A y \in S : y <= x
<1> DEFINE T == {b - x : x \in S}
<1>1. T # {} /\ T \subseteq Nat
  <2>1. PICK x \in S : TRUE
    OBVIOUS
  <2>2. b - x \in T
    BY <2>1
  <2>3. ASSUME NEW y \in S PROVE b - y \in Nat
    OBVIOUS
  <2> QED BY <2>2, <2>3
<1>2. PICK t \in T : \A u \in T : t <= u
  <2> HIDE DEF T
  <2> QED BY ONLY <1>1, LeastNatural
<1>3. PICK x \in S : t = b - x
  OBVIOUS
<1>4. ASSUME NEW y \in S
      PROVE  y <= x
  <2>1. b - y \in T
    OBVIOUS
  <2>2. t <= b - y
    BY <2>1, <1>2
  <2> QED BY <2>2, <1>3
<1> QED BY <1>4

(* A set of n numbers that has all numbers below its members is 0 .. n - 1.*)
LEMMA InitialSegment ==
  ASSUME NEW T, NEW b \in Nat, T \subseteq 0 .. b, \A x \in T : \A y \in 0 .. x : y \in T
  PROVE  IsFiniteSet(T) /\ Cardinality(T) \in Nat /\ T = 0 .. Cardinality(T) - 1
<1>1. CASE T = {}
  <2>1. IsFiniteSet(T) /\ Cardinality(T) = 0
    BY <1>1, FS_EmptySet
  <2> QED BY <2>1, <1>1
<1>2. CASE T # {}
  <2>1. PICK m \in T : \A y \in T : y <= m
    BY ONLY <1>2, b \in Nat, T \subseteq 0 .. b, GreatestNatural
  <2>2. m \in Nat /\ T \subseteq Nat
    OBVIOUS
  <2>3. T = 0 .. m
    <3>1. T \subseteq 0 .. m
      BY ONLY <2>1, <2>2
    <3>2. 0 .. m \subseteq T
      BY <2>1
    <3> QED BY ONLY <3>1, <3>2
  <2>4. IsFiniteSet(0 .. m) /\ Cardinality(0 .. m) = m + 1
    BY <2>2, FS_Interval
  <2> QED BY <2>2, <2>3, <2>4
<1> QED BY <1>1, <1>2

-----------------------------------------------------------------------------
(* Division.                                                               *)

(* Integer division by a page size.                                        *)
LEMMA DivBounds ==
  ASSUME NEW x \in Nat, NEW n \in Nat \ {0}
  PROVE  /\ x \div n \in Nat
         /\ n * (x \div n) <= x
         /\ x < n * (x \div n) + n
  OBVIOUS

(* Multiplication by a page size keeps the order.                          *)
LEMMA MulMonotone ==
  ASSUME NEW n \in Nat, NEW q \in Nat, NEW r \in Nat, q <= r
  PROVE  n * q <= n * r
  OBVIOUS

(* A later location is not in an earlier page (loc_sector_no()).           *)
LEMMA DivMonotone ==
  ASSUME NEW x \in Nat, NEW y \in Nat, NEW n \in Nat \ {0}, x <= y
  PROVE  x \div n <= y \div n
<1> DEFINE q == x \div n
           r == y \div n
<1>1. q \in Nat /\ r \in Nat /\ n * q <= x /\ y < n * r + n
  BY DivBounds
<1> HIDE DEF q, r
<1>2. ~(r + 1 <= q)
  <2> SUFFICES ASSUME r + 1 <= q PROVE FALSE
    OBVIOUS
  <2>1. n * (r + 1) <= n * q
    BY <1>1, MulMonotone
  <2>2. n * (r + 1) = n * r + n
    BY <1>1
  <2> QED BY <2>1, <2>2, <1>1
<1> QED BY <1>1, <1>2 DEF q, r

(* Quotient and remainder are unique.                                      *)
LEMMA DivModUnique ==
  ASSUME NEW n \in Nat \ {0}, NEW q \in Nat, NEW y \in 0 .. n - 1
  PROVE  (n * q + y) \div n = q /\ (n * q + y) % n = y
<1> DEFINE a == n * q + y
           d == a \div n
<1>1. a \in Nat
  OBVIOUS
<1>2. d \in Nat /\ n * d <= a /\ a < n * d + n
  BY <1>1, DivBounds
<1>3. a % n = a - n * d
  BY <1>1
<1>4. a = n * q + y
  OBVIOUS
<1> HIDE DEF a, d
<1>5. ~(q + 1 <= d)
  <2> SUFFICES ASSUME q + 1 <= d PROVE FALSE
    OBVIOUS
  <2>1. n * (q + 1) <= n * d
    BY <1>2, MulMonotone
  <2>2. n * (q + 1) = n * q + n
    OBVIOUS
  <2> QED BY <1>2, <1>4, <2>1, <2>2
<1>6. ~(d + 1 <= q)
  <2> SUFFICES ASSUME d + 1 <= q PROVE FALSE
    OBVIOUS
  <2>1. n * (d + 1) <= n * q
    BY <1>2, MulMonotone
  <2>2. n * (d + 1) = n * d + n
    BY <1>2
  <2> QED BY <1>2, <1>4, <2>1, <2>2
<1>7. d = q
  BY <1>2, <1>5, <1>6
<1>8. a % n = y
  BY <1>3, <1>4, <1>7
<1> QED BY <1>7, <1>8 DEF a, d

(* A multiple of a page size is that size times the quotient.              *)
LEMMA MultipleOf ==
  ASSUME NEW x \in Nat, NEW n \in Nat \ {0}, x % n = 0
  PROVE  x \div n \in Nat /\ x = n * (x \div n)
OBVIOUS

(* The slots of a ring of two batches of b: batch k begins at slot 0 or b. *)
LEMMA RingOfTwo ==
  ASSUME NEW b \in Nat \ {0}, NEW k \in Nat, NEW x \in 0 .. b - 1
  PROVE  LET first == (((b * k) % (2 * b)) \div b) * b
         IN  first + x = (b * k + x) % (2 * b) /\ first + x \in 0 .. 2 * b - 1
<1> DEFINE j == k \div 2
           c == 2 * b
<1>1. j \in Nat /\ (k = 2 * j \/ k = 2 * j + 1)
  OBVIOUS
<1>2. c \in Nat \ {0} /\ c = b + b
  OBVIOUS
<1> HIDE DEF j
<1>3. CASE k = 2 * j
  <2>1. b * k = c * j
    BY <1>1, <1>3
  <2> HIDE DEF c
  <2>2. (c * j + 0) % c = 0 /\ (c * j + x) % c = x
    BY <1>1, <1>2, DivModUnique
  <2>3. (b * k) % c = 0 /\ (b * k + x) % c = x
    BY <1>1, <1>2, <2>1, <2>2
  <2>4. (0 \div b) * b = 0
    OBVIOUS
  <2>5. (((b * k) % c) \div b) * b = 0
    BY <2>3, <2>4
  <2> QED BY <1>2, <2>3, <2>5 DEF c
<1>4. CASE k = 2 * j + 1
  <2>1. b * k = c * j + b
    BY <1>1, <1>4
  <2> HIDE DEF c
  <2>2. (c * j + b) % c = b /\ (c * j + (b + x)) % c = b + x
    <3>1. b \in 0 .. c - 1 /\ b + x \in 0 .. c - 1
      BY <1>2
    <3> QED BY <1>1, <1>2, <3>1, DivModUnique
  <2>3. (b * k) % c = b /\ (b * k + x) % c = b + x
    BY <1>1, <1>2, <2>1, <2>2
  <2>4. (b \div b) * b = b
    <3>1. b \div b = 1
      <4>1. b = b * 1 + 0
        OBVIOUS
      <4>2. (b * 1 + 0) \div b = 1
        BY DivModUnique
      <4> QED BY <4>1, <4>2
    <3> QED BY <3>1
  <2>5. (((b * k) % c) \div b) * b = b
    BY <2>3, <2>4
  <2> QED BY <1>2, <2>3, <2>5 DEF c
<1> QED BY <1>1, <1>3, <1>4

(* Among any c consecutive numbers no two have the same slot of c.         *)
LEMMA SlotsDistinct ==
  ASSUME NEW c \in Nat \ {0}, NEW w \in Nat, NEW x \in w .. w + c - 1, NEW y \in w .. w + c - 1,
         x % c = y % c
  PROVE  x = y
<1> DEFINE p == x \div c
           q == y \div c
           r == x % c
<1>1. p \in Nat /\ q \in Nat /\ r \in Nat /\ x = c * p + r /\ y = c * q + r
  OBVIOUS
<1> HIDE DEF p, q, r
<1>2. ASSUME NEW a \in Nat, NEW b \in Nat, a + 1 <= b PROVE c * b - c * a >= c
  <2>1. c * (a + 1) <= c * b /\ c * (a + 1) = c * a + c
    BY <1>2, MulMonotone
  <2> QED BY <2>1
<1>3. ~(p + 1 <= q) /\ ~(q + 1 <= p)
  <2>1. ASSUME p + 1 <= q PROVE FALSE
    <3>1. c * q - c * p >= c
      BY <1>1, <1>2, <2>1
    <3> QED BY <3>1, <1>1
  <2>2. ASSUME q + 1 <= p PROVE FALSE
    <3>1. c * p - c * q >= c
      BY <1>1, <1>2, <2>2
    <3> QED BY <3>1, <1>1
  <2> QED BY <2>1, <2>2
<1>4. p = q
  BY <1>1, <1>3
<1> QED BY <1>1, <1>4

-----------------------------------------------------------------------------
(* The inductive invariant, first what needs no hypothesis.                *)

Live == Ids \ deleted

(* Before the switch the tables are those of the old index.                *)
Old == pc \notin {"reload", "done"}
TablesOK ==
  Old =>
    /\ cur_loc = Tail /\ npoints = NIds
    /\ DOMAIN tags = Ids
    /\ \A i \in Ids : tags[i] = i /\ nbr_handler.codes[i] = i
    /\ \A i \in Ids : loc2id[id2loc[i]] = i
    /\ \A l \in Locs : loc2id[l] # Invalid => id2loc[loc2id[l]] = l

HandlerOK ==
  /\ nbr_handler = [codes |-> nbr_handler.codes, table |-> nbr_handler.table]
  /\ \A i \in DOMAIN nbr_handler.codes : nbr_handler.codes[i] \in Ids

(* The loops over chunks and over batches.                                 *)
LoopOK ==
  /\ pc \in {"populate", "merge"} => loc_st < Tail
  /\ pc \notin {"populate", "merge"} => loc_st = 0 /\ rbuf = NoRecords /\ done = {}
  /\ done \subseteq Batch
  /\ rbuf = NoRecords \/ rbuf \in [Batch -> Record]
  /\ pc = "populate" => \E k \in Nat : loc_st = LocPerPopulate * k
  /\ pc = "merge" => \E k \in Nat : loc_st = LocPerMerge * k

(* The ids that the current step is through with, and those that each of   *)
(* the two steps is through with.                                          *)
Reached   == {i \in Ids : id2loc[i] < loc_st \/ id2loc[i] \in done}
Populated == IF pc \in {"wait", "populate"} THEN Reached ELSE Ids
Merged    == IF pc \in {"wait", "populate"} THEN {}
             ELSE IF pc = "merge" THEN Reached ELSE Ids

(* The new ids are numbered from 0 without a gap.                          *)
Numbers(map, n) ==
  /\ \A v \in DOMAIN map : map[v] \in 0 .. n - 1
  /\ \A u, v \in DOMAIN map : map[u] = map[v] => u = v
  /\ \A x \in 0 .. n - 1 : \E v \in DOMAIN map : map[v] = x

MapsOK ==
  /\ DOMAIN id_map = Populated \ deleted
  /\ DOMAIN deleted_nhoods = Populated \cap deleted
  /\ \A i \in DOMAIN deleted_nhoods : deleted_nhoods[i] \subseteq Live
  /\ Numbers(id_map, NewId)

(* A node in an earlier chunk has the smaller new id.                      *)
Ordered ==
  pc \in {"populate", "merge"} =>
    \A u, v \in DOMAIN id_map : \A k \in Nat :
      id2loc[u] < LocPerPopulate * k /\ LocPerPopulate * k <= id2loc[v]
        => id_map[u] < id_map[v]

(* What is written back are whole batches of new ids, except at the end.   *)
CountOK ==
  /\ n_used_id = Cardinality(Merged \ deleted)
  /\ pc \in {"wait", "populate", "merge"} \/ wb_id < n_used_id
       => \E k \in Nat : wb_id = LocPerMerge * k
  /\ pc \in {"entry", "reload", "done", "crashed"} => wb_id = n_used_id

(* From the switch on the tables are those of the new index.               *)
SwitchOK ==
  ~Old =>
    /\ npoints = NewId
    /\ DOMAIN tags = 0 .. npoints - 1
    /\ \A v \in Live : tags[id_map[v]] = v /\ nbr_handler.codes[id_map[v]] = v
    /\ \A i \in 0 .. npoints - 1 : id2loc[i] = i /\ loc2id[i] = i
    /\ entry_point < npoints
TailOK ==
  pc = "done" =>
    /\ cur_loc >= npoints /\ cur_loc < npoints + NodesPerPage
    /\ \A l \in npoints .. cur_loc - 1 : loc2id[l] = Invalid
    /\ empty_pages = {}

MergeInv ==
  TypeOK /\ TablesOK /\ HandlerOK /\ LoopOK /\ MapsOK /\ Ordered /\ CountOK
    /\ SwitchOK /\ TailOK

(* With an idle background thread, the file has the records of the index.  *)
FileOK ==
  /\ bg = "none" /\ DOMAIN bg_buf = {}
  /\ Old => \A l \in Locs : loc2id[l] # Invalid => file[l].vec = loc2id[l]
  /\ pc = "done" => file = out
  /\ ReadsCurrent

(* The record that step 2 makes for v.                                     *)
RecordOf(r, v) ==
  /\ r.vec = v
  /\ r.nbrs \subseteq {id_map[u] : u \in Live \ {v}}
  /\ Cardinality(r.nbrs) <= R

(* The ids of the earlier batches of locations end in the first batch of   *)
(* new ids that is still in the ring, and all made records are there.      *)
Earlier == {v \in Live : id2loc[v] < loc_st}
WindowOK ==
  pc = "merge" => wb_id <= Cardinality(Earlier) /\ Cardinality(Earlier) <= wb_id + LocPerMerge
KeptOK ==
  \A v \in Merged \ deleted :
    IF id_map[v] < wb_id THEN RecordOf(out[id_map[v]], v)
    ELSE RecordOf(wbuf[id_map[v] % (2 * LocPerMerge)], v)

(* Beam searches read nodes of the index that is in force.                 *)
SearchOK ==
  /\ cands # {} => search = "beam"
  /\ search = "beam" => pc # "reload"
  /\ \A c \in cands : c.id \in DOMAIN nbr_handler.codes /\ c.vec = nbr_handler.codes[c.id]

-----------------------------------------------------------------------------
(* Facts about the constants, batches and sets of ids.                     *)

(* The sizes, ids and locations are numbers.                               *)
LEMMA Sizes ==
  /\ NIds \in Nat /\ NIds > 0 /\ Tail \in Nat /\ NIds <= Tail
  /\ NodesPerPage \in Nat /\ NodesPerPage > 0
  /\ LocPerPopulate \in Nat /\ LocPerPopulate > 0
  /\ LocPerMerge \in Nat /\ LocPerMerge > 0
  /\ R \in Nat /\ R > 0 /\ NSampled \in Nat
  /\ \A i \in Ids : i \in Nat /\ i < NIds /\ i # Invalid /\ i \in Locs
  /\ \A l \in Locs : l \in Nat /\ l < Tail
  /\ Invalid \notin Ids
BY MergeAssumption DEF Ids, Locs, Invalid

(* There are finitely many ids.                                            *)
LEMMA IdsFinite ==
  \A S \in SUBSET Ids :
    /\ IsFiniteSet(S) /\ Cardinality(S) \in Nat /\ Cardinality(S) <= NIds
    /\ \A x \in Ids \ S : Cardinality(S \cup {x}) = Cardinality(S) + 1 /\ Cardinality(S) < NIds
<1>1. NIds \in Nat /\ NIds - 1 \in Int /\ NIds >= 1
  BY Sizes
<1>2. IsFiniteSet(Ids) /\ Cardinality(Ids) = NIds
  BY <1>1, FS_Interval DEF Ids
<1>3. ASSUME NEW S \in SUBSET Ids
      PROVE  IsFiniteSet(S) /\ Cardinality(S) \in Nat /\ Cardinality(S) <= NIds
  BY <1>2, FS_Subset, FS_CardinalityType
<1>4. ASSUME NEW S \in SUBSET Ids, NEW x \in Ids \ S
      PROVE  Cardinality(S \cup {x}) = Cardinality(S) + 1 /\ Cardinality(S) < NIds
  <2>1. Cardinality(S \cup {x}) = Cardinality(S) + 1
    BY <1>3, FS_AddElement
  <2>2. Cardinality(S \cup {x}) <= NIds
    BY <1>3
  <2> QED BY <2>1, <2>2, <1>3, <1>1
<1> QED BY <1>3, <1>4

(* std::min of two numbers.                                                *)
LEMMA MinOfTwo ==
  ASSUME NEW x \in Int, NEW y \in Int
  PROVE  Min({x, y}) = IF x <= y THEN x ELSE y
<1>1. \E m \in {x, y} : \A z \in {x, y} : m <= z
  <2>1. x <= y \/ y <= x
    OBVIOUS
  <2> QED BY <2>1
<1> QED BY <1>1 DEF Min

(* A chunk or batch starts at loc_st and ends with the locations in use.   *)
Size == IF pc = "populate" THEN LocPerPopulate ELSE LocPerMerge
LEMMA BatchIs ==
  ASSUME cur_loc \in Nat, loc_st \in Nat
  PROVE  /\ \A l : l \in Batch <=> l \in Nat /\ loc_st <= l /\ l < cur_loc /\ l < loc_st + Size
         /\ cur_loc <= Tail => Batch \subseteq Locs
<1> DEFINE e == loc_st + Size
<1>1. e \in Nat /\ Size \in Nat
  BY Sizes DEF Size
<1>2. Batch = loc_st .. Min({cur_loc, e}) - 1
  BY DEF Batch, Size
<1> HIDE DEF e
<1>3. Min({cur_loc, e}) = IF cur_loc <= e THEN cur_loc ELSE e
  BY <1>1, MinOfTwo
<1>4. \A l : l \in Batch <=> l \in Nat /\ loc_st <= l /\ l < cur_loc /\ l < e
  BY <1>1, <1>2, <1>3
<1>5. cur_loc <= Tail => Batch \subseteq Locs
  BY <1>4, Sizes DEF Locs
<1> QED BY <1>4, <1>5 DEF e

(* What the loops do not look at may change.                               *)
LEMMA Frame ==
  ASSUME MergeInv,
         UNCHANGED <<tables, loop, maps, nbr_handler, deleted, pc, wb_id, n_used_id>>
  PROVE  (TablesOK /\ HandlerOK /\ LoopOK /\ MapsOK /\ Ordered /\ CountOK
            /\ SwitchOK /\ TailOK)'
<1> USE DEF MergeInv, tables, loop, maps, Old, Live
<1>1. Batch' = Batch /\ Reached' = Reached /\ NewId' = NewId
  BY DEF Batch, Reached, NewId
<1>2. Populated' = Populated /\ Merged' = Merged
  BY <1>1 DEF Populated, Merged
<1>3. TablesOK'
  BY DEF TablesOK
<1>4. HandlerOK'
  BY DEF HandlerOK
<1>5. LoopOK'
  BY <1>1 DEF LoopOK
<1>6. MapsOK'
  BY <1>1, <1>2 DEF MapsOK
<1>7. Ordered'
  BY DEF Ordered
<1>8. CountOK'
  BY <1>2 DEF CountOK
<1>9. SwitchOK'
  BY <1>1 DEF SwitchOK
<1>10. TailOK'
  BY DEF TailOK
<1> QED BY <1>3, <1>4, <1>5, <1>6, <1>7, <1>8, <1>9, <1>10

-----------------------------------------------------------------------------
(* The inductive invariant.                                                *)

(* The tables of an index that is not being merged name each other.        *)
LEMMA InitTables ==
  ASSUME Init
  PROVE  /\ id2loc \in [Ids -> Locs] /\ loc2id \in [Locs -> Ids \cup {Invalid}]
         /\ \A i \in Ids : loc2id[id2loc[i]] = i
         /\ \A l \in Locs : loc2id[l] # Invalid => id2loc[loc2id[l]] = l
<1>1. id2loc \in [Ids -> Locs] /\ \A i, j \in Ids : id2loc[i] = id2loc[j] => i = j
  <2>1. id2loc \in Injection(Ids, Locs)
    BY MergeAssumption DEF Init
  <2> QED BY <2>1 DEF Injection, IsInjective
<1>2. loc2id = [l \in Locs |-> IF \E i \in Ids : id2loc[i] = l
                               THEN CHOOSE i \in Ids : id2loc[i] = l ELSE Invalid]
  BY DEF Init
<1>3. ASSUME NEW l \in Locs
      PROVE  /\ loc2id[l] \in Ids \cup {Invalid}
             /\ loc2id[l] # Invalid => id2loc[loc2id[l]] = l
  BY <1>2
<1>4. ASSUME NEW i \in Ids
      PROVE  loc2id[id2loc[i]] = i
  <2> DEFINE j == CHOOSE j \in Ids : id2loc[j] = id2loc[i]
  <2>1. id2loc[i] \in Locs /\ loc2id[id2loc[i]] = j
    BY <1>1, <1>2
  <2>2. j \in Ids /\ id2loc[j] = id2loc[i]
    OBVIOUS
  <2> HIDE DEF j
  <2> QED BY <1>1, <2>1, <2>2
<1>5. loc2id \in [Locs -> Ids \cup {Invalid}]
  BY <1>2, <1>3
<1> QED BY <1>1, <1>3, <1>4, <1>5

(* The merge starts with the tables of the old index and empty maps.        *)
LEMMA InitInv == Init => MergeInv
<1> SUFFICES ASSUME Init PROVE MergeInv
  OBVIOUS
<1>1. /\ id2loc \in [Ids -> Locs] /\ loc2id \in [Locs -> Ids \cup {Invalid}]
      /\ \A i \in Ids : loc2id[id2loc[i]] = i
      /\ \A l \in Locs : loc2id[l] # Invalid => id2loc[loc2id[l]] = l
  BY InitTables
<1>2. pc = "wait" /\ loc_st = 0 /\ rbuf = NoRecords /\ done = {} /\ wb_id = 0 /\ n_used_id = 0
  BY DEF Init
<1>3. DOMAIN id_map = {} /\ DOMAIN deleted_nhoods = {} /\ DOMAIN rbuf = {}
  BY DEF Init, Empty, NoRecords
<1>4. Reached = {}
  BY <1>1, <1>2, Sizes DEF Reached
<1>5. TypeOK
  <2>1. file \in [Locs -> Record] /\ \A l \in DOMAIN bg_buf : l \in Locs /\ bg_buf[l] \in Record
    <3>1. PICK g \in Graphs :
            LET new == [l \in Locs |-> IF loc2id[l] = Invalid THEN Blank
                                       ELSE [vec |-> loc2id[l], nbrs |-> g[loc2id[l]]]]
                due == {l \in Locs : bg = "queued" /\ PageOf(l) = PageOf(id2loc[NIds - 1])}
            IN  /\ file = [l \in Locs |-> IF l \in due THEN Blank ELSE new[l]]
                /\ bg_buf = [l \in due |-> new[l]]
      BY DEF Init
    <3> DEFINE new == [l \in Locs |-> IF loc2id[l] = Invalid THEN Blank
                                      ELSE [vec |-> loc2id[l], nbrs |-> g[loc2id[l]]]]
               due == {l \in Locs : bg = "queued" /\ PageOf(l) = PageOf(id2loc[NIds - 1])}
    <3>2. Blank \in Record
      BY DEF Blank, Record
    <3>3. g \in [Ids -> SUBSET Ids]
      BY MergeAssumption
    <3>4. ASSUME NEW l \in Locs PROVE new[l] \in Record
      <4>1. CASE loc2id[l] = Invalid
        BY <3>2, <4>1
      <4>2. CASE loc2id[l] # Invalid
        BY <3>3, <1>1, <4>2 DEF Record
      <4> QED BY <4>1, <4>2
    <3>5. due \subseteq Locs
      OBVIOUS
    <3> HIDE DEF new
    <3> QED BY <3>1, <3>2, <3>4, <3>5 DEF new
  <2>2. bg \in {"none", "queued", "writing"}
    BY MergeAssumption DEF Init
  <2>3. /\ cur_loc \in 0 .. Tail /\ npoints \in 0 .. NIds /\ entry_point \in Ids
        /\ empty_pages \subseteq Pages /\ deleted \subseteq Ids
        /\ \A i \in DOMAIN tags : i \in Ids /\ tags[i] \in Ids
    BY Sizes DEF Init
  <2>4. nbr_handler.table \in BOOLEAN /\ DOMAIN nbr_handler.codes = DOMAIN tags
    BY DEF Init
  <2>5. /\ out \in [Locs -> Record]
        /\ wbuf \in [0 .. 2 * LocPerMerge - 1 -> Record]
    BY DEF Init, Blank, Record
  <2>6. search \in Modes \cup {"none", "crashed"} /\ cands = {}
    BY DEF Init
  <2>7. wb_id \in 0 .. n_used_id /\ n_used_id \in 0 .. NIds
    BY <1>2, Sizes
  <2> QED BY <1>1, <1>2, <1>3, <2>1, <2>2, <2>3, <2>4, <2>5, <2>6, <2>7 DEF TypeOK, Phases
<1>6. TablesOK
  BY <1>1 DEF TablesOK, Init
<1>7. HandlerOK
  BY DEF HandlerOK, Init
<1>8. LoopOK
  BY <1>2 DEF LoopOK
<1>9. MapsOK
  <2>1. NewId = 0
    BY <1>3, FS_EmptySet DEF NewId
  <2> QED BY <1>2, <1>3, <1>4, <2>1 DEF MapsOK, Numbers, Populated
<1>10. Ordered
  BY <1>3 DEF Ordered
<1>11. CountOK
  <2>1. LocPerMerge * 0 = 0
    BY Sizes
  <2> QED BY <1>2, <2>1, FS_EmptySet DEF CountOK, Merged
<1> QED BY <1>2, <1>5, <1>6, <1>7, <1>8, <1>9, <1>10, <1>11
        DEF MergeInv, SwitchOK, TailOK, Old

(* The background thread.                                                  *)
LEMMA BackgroundInv ==
  ASSUME MergeInv, BgPop \/ BgFinish
  PROVE  MergeInv'
<1>1. UNCHANGED <<tables, loop, maps, window, reader, nbr_handler, deleted, pc>>
  BY DEF BgPop, BgFinish
<1>2. /\ file' \in [Locs -> Record] /\ bg' \in {"none", "queued", "writing"}
      /\ \A l \in DOMAIN bg_buf' : l \in Locs /\ bg_buf'[l] \in Record
  BY DEF BgPop, BgFinish, MergeInv, TypeOK, NoRecords
<1>3. Batch' = Batch
  BY <1>1 DEF Batch, tables, loop
<1>4. TypeOK'
  BY <1>1, <1>2, <1>3 DEF MergeInv, TypeOK, tables, loop, maps, window, reader
<1> QED BY <1>1, <1>4, Frame DEF MergeInv, window

(* A search, whose reads take what the file or the cache has.              *)
LEMMA SearchInv ==
  ASSUME MergeInv, SearchStep
  PROVE  MergeInv'
<1>1. UNCHANGED <<tables, bgVars, loop, maps, window, nbr_handler, deleted, pc>>
  BY DEF SearchStep, SearchBegin, SearchRead, SearchEnd
<1>2. ASSUME NEW i \in Ids PROVE Node(i) \in [id : Ids, vec : Ids \cup {Invalid}]
  BY DEF Node, MergeInv, HandlerOK
<1>3. search' \in Modes \cup {"none", "crashed"}
  BY DEF SearchStep, SearchBegin, SearchRead, SearchEnd, MergeInv, TypeOK
<1>4. cands' \subseteq [id : Ids, vec : Ids \cup {Invalid}]
  <2>1. ASSUME NEW m \in Modes, SearchBegin(m) PROVE cands' \subseteq [id : Ids, vec : Ids \cup {Invalid}]
    BY <2>1, <1>2 DEF SearchBegin, MergeInv, TypeOK
  <2>2. ASSUME NEW c \in cands, SearchRead(c) PROVE cands' \subseteq [id : Ids, vec : Ids \cup {Invalid}]
    <3>1. c.id \in Ids /\ id2loc[c.id] \in Locs
      BY DEF MergeInv, TypeOK
    <3>2. Served(id2loc[c.id]).nbrs \subseteq Ids
      BY <3>1 DEF Served, MergeInv, TypeOK, Record
    <3>3. {Node(i) : i \in Served(id2loc[c.id]).nbrs} \subseteq [id : Ids, vec : Ids \cup {Invalid}]
      BY <1>2, <3>2
    <3>4. cands \subseteq [id : Ids, vec : Ids \cup {Invalid}]
      BY DEF MergeInv, TypeOK
    <3>5. cands' = (cands \ {c}) \cup {Node(i) : i \in Served(id2loc[c.id]).nbrs}
      BY <2>2 DEF SearchRead
    <3> QED BY ONLY <3>3, <3>4, <3>5
  <2>3. CASE SearchEnd
    BY <2>3 DEF SearchEnd
  <2> QED BY <2>1, <2>2, <2>3 DEF SearchStep
<1>5. Batch' = Batch
  BY <1>1 DEF Batch, tables, loop
<1>6. TypeOK'
  BY <1>1, <1>3, <1>4, <1>5 DEF MergeInv, TypeOK, tables, bgVars, loop, maps, window
<1> QED BY <1>1, <1>6, Frame DEF MergeInv, window

(* The new entry point is a neighbour that the deleted one had.            *)
LEMMA ChooseEntryInv ==
  ASSUME MergeInv, ChooseEntry
  PROVE  MergeInv'
<1>1. /\ pc = "entry"
      /\ UNCHANGED <<id2loc, loc2id, cur_loc, empty_pages, npoints, tags, bgVars, loop, maps,
                     window, reader, nbr_handler, deleted, pc>>
  BY DEF ChooseEntry
<1>2. entry_point' \in Ids
  <2>1. entry_point \in DOMAIN deleted_nhoods
    BY <1>1 DEF ChooseEntry, MergeInv, TypeOK, MapsOK, Populated
  <2> QED BY <2>1 DEF ChooseEntry, MergeInv, TypeOK
<1>3. Batch' = Batch /\ Reached' = Reached /\ NewId' = NewId
  BY <1>1 DEF Batch, Reached, NewId, loop, maps
<1>4. Populated' = Populated /\ Merged' = Merged
  BY <1>1, <1>3 DEF Populated, Merged
<1>5. TypeOK'
  BY <1>1, <1>2, <1>3 DEF MergeInv, TypeOK, bgVars, loop, maps, window, reader
<1>6. TablesOK' /\ HandlerOK'
  BY <1>1 DEF MergeInv, TablesOK, HandlerOK, Old
<1>7. LoopOK'
  BY <1>1, <1>3 DEF MergeInv, LoopOK, loop
<1>8. MapsOK'
  BY <1>1, <1>3, <1>4 DEF MergeInv, MapsOK, maps, Live
<1>9. (Ordered /\ SwitchOK /\ TailOK)'
  BY <1>1 DEF Ordered, SwitchOK, TailOK, Old
<1>10. CountOK'
  BY <1>1, <1>4 DEF MergeInv, CountOK, window
<1> QED BY <1>5, <1>6, <1>7, <1>8, <1>9, <1>10 DEF MergeInv

(* Steps that change the phase and nothing the invariant speaks of.        *)
LEMMA PhaseInv ==
  ASSUME MergeInv, CrashEntry \/ Shuffle \/ WaitForBackground
  PROVE  MergeInv'
<1>1. /\ \/ pc = "entry" /\ pc' = "crashed"
         \/ pc = "flush" /\ pc' = "entry"
         \/ pc = "wait" /\ pc' = "populate"
      /\ UNCHANGED <<tables, bgVars, loop, maps, window, reader, deleted>>
  BY DEF CrashEntry, Shuffle, WaitForBackground
<1>2. /\ nbr_handler'.codes = nbr_handler.codes /\ nbr_handler'.table \in BOOLEAN
      /\ nbr_handler' = [codes |-> nbr_handler'.codes, table |-> nbr_handler'.table]
  <2>1. nbr_handler = [codes |-> nbr_handler.codes, table |-> nbr_handler.table]
        /\ nbr_handler.table \in BOOLEAN
    BY DEF MergeInv, HandlerOK, TypeOK
  <2>2. CASE UNCHANGED nbr_handler
    BY <2>1, <2>2
  <2>3. CASE nbr_handler' = [nbr_handler EXCEPT !.table = FALSE]
    <3>1. nbr_handler' = [codes |-> nbr_handler.codes, table |-> FALSE]
      BY ONLY <2>1, <2>3
    <3> QED BY ONLY <3>1
  <2> QED BY <2>2, <2>3 DEF CrashEntry, Shuffle, WaitForBackground
<1>3. loc_st = 0 /\ loc_st' = 0 /\ rbuf' = NoRecords /\ done' = {} /\ done = {}
  BY <1>1 DEF MergeInv, LoopOK, loop
<1>4. Reached' = Reached /\ NewId' = NewId
  BY <1>1 DEF Reached, NewId, loop, maps, tables
<1>5. Populated' = Populated /\ Merged' = Merged
  BY <1>1, <1>4 DEF Populated, Merged
<1>6. TypeOK'
  <2>1. DOMAIN rbuf' = {}
    BY <1>3 DEF NoRecords
  <2> QED BY <1>1, <1>2, <2>1 DEF MergeInv, TypeOK, Phases, tables, bgVars, loop, maps, window, reader
<1>7. TablesOK' /\ HandlerOK'
  BY <1>1, <1>2 DEF MergeInv, TablesOK, HandlerOK, Old, tables
<1>8. LoopOK'
  <2>1. LocPerPopulate * 0 = 0
    BY Sizes
  <2> QED BY <1>1, <1>3, <2>1, Sizes DEF LoopOK
<1>9. MapsOK'
  BY <1>1, <1>4, <1>5 DEF MergeInv, MapsOK, maps, Live
<1>10. Ordered'
  <2>1. CASE pc' = "populate"
    <3>1. pc = "wait" /\ Reached = {}
      <4>1. ASSUME NEW i \in Ids PROVE ~(id2loc[i] < 0)
        BY Sizes DEF MergeInv, TypeOK
      <4> QED BY <1>1, <1>3, <2>1, <4>1 DEF Reached
    <3>2. DOMAIN id_map' = {}
      BY <1>1, <3>1 DEF MergeInv, MapsOK, Populated, maps
    <3> QED BY <3>2 DEF Ordered
  <2>2. CASE pc' # "populate"
    BY <1>1, <2>2 DEF Ordered
  <2> QED BY <2>1, <2>2
<1>11. CountOK'
  <2>1. CASE pc = "flush"
    <3>1. wb_id = n_used_id
      BY <2>1 DEF Shuffle, CrashEntry, WaitForBackground, MergeInv, TypeOK
    <3> QED BY <1>1, <1>5, <2>1, <3>1 DEF MergeInv, CountOK, window, TypeOK
  <2>2. CASE pc # "flush"
    BY <1>1, <1>5, <2>2 DEF MergeInv, CountOK, window
  <2> QED BY <2>1, <2>2
<1>12. SwitchOK' /\ TailOK'
  BY <1>1 DEF SwitchOK, TailOK, Old
<1> QED BY <1>6, <1>7, <1>8, <1>9, <1>10, <1>11, <1>12 DEF MergeInv

(* The chunk or batch is read.                                             *)
LEMMA ReadBatchInv ==
  ASSUME MergeInv, ReadBatch
  PROVE  MergeInv'
<1>1. /\ pc \in {"populate", "merge"}
      /\ rbuf' = [l \in Batch |-> file[l]]
      /\ UNCHANGED <<tables, bgVars, loc_st, done, maps, window, reader, nbr_handler, deleted, pc>>
  BY DEF ReadBatch
<1>2. Batch' = Batch /\ Reached' = Reached /\ NewId' = NewId
  BY <1>1 DEF Batch, Reached, NewId, tables, maps
<1>3. Populated' = Populated /\ Merged' = Merged
  BY <1>1, <1>2 DEF Populated, Merged
<1>4. Batch \subseteq Locs
  BY BatchIs, Sizes DEF MergeInv, TypeOK, Locs
<1>5. rbuf' \in [Batch -> Record]
  BY <1>1, <1>4 DEF MergeInv, TypeOK
<1>6. TypeOK'
  BY <1>1, <1>2, <1>5 DEF MergeInv, TypeOK, tables, bgVars, maps, window, reader
<1>7. (TablesOK /\ HandlerOK /\ Ordered /\ SwitchOK /\ TailOK)'
  BY <1>1, <1>2 DEF MergeInv, TablesOK, HandlerOK, Ordered, SwitchOK, TailOK, Old, tables, maps
<1>8. LoopOK'
  BY <1>1, <1>2, <1>5 DEF MergeInv, LoopOK
<1>9. MapsOK'
  BY <1>1, <1>2, <1>3 DEF MergeInv, MapsOK, maps, Live
<1>10. CountOK'
  BY <1>1, <1>3 DEF MergeInv, CountOK, window
<1> QED BY <1>6, <1>7, <1>8, <1>9, <1>10 DEF MergeInv

-----------------------------------------------------------------------------
(* Step 1.                                                                 *)

(* The location that a thread takes has an id that was not reached before. *)
LEMMA NextReached ==
  ASSUME MergeInv, pc \in {"populate", "merge"}, NEW l \in Todo
  PROVE  /\ l \in Batch /\ l \in Locs /\ l \notin done
         /\ loc_st <= l /\ l < loc_st + Size
         /\ loc2id[l] \in Ids /\ loc2id[l] \notin Reached /\ id2loc[loc2id[l]] = l
         /\ {i \in Ids : id2loc[i] < loc_st \/ id2loc[i] \in done \cup {l}} = Reached \cup {loc2id[l]}
<1>1. /\ cur_loc = Tail /\ loc_st \in Nat
      /\ id2loc \in [Ids -> Locs] /\ loc2id \in [Locs -> Ids \cup {Invalid}]
      /\ \A i \in Ids : loc2id[id2loc[i]] = i
      /\ \A m \in Locs : loc2id[m] # Invalid => id2loc[loc2id[m]] = m
  BY Sizes DEF MergeInv, TypeOK, TablesOK, Old
<1>2. l \in Batch /\ l \notin done /\ loc2id[l] # Invalid
  BY DEF Todo
<1>3. l \in Locs /\ l \in Nat /\ loc_st <= l /\ l < loc_st + Size
  BY <1>1, <1>2, BatchIs, Sizes
<1>4. loc2id[l] \in Ids /\ id2loc[loc2id[l]] = l
  BY <1>1, <1>2, <1>3
<1>5. loc2id[l] \notin Reached
  BY <1>1, <1>2, <1>3, <1>4 DEF Reached
<1>6. {i \in Ids : id2loc[i] < loc_st \/ id2loc[i] \in done \cup {l}} = Reached \cup {loc2id[l]}
  BY <1>1, <1>4 DEF Reached
<1> QED BY <1>2, <1>3, <1>4, <1>5, <1>6

(* At the end of a chunk or batch all ids before its end are reached.      *)
LEMMA EndOfBatch ==
  ASSUME MergeInv, pc \in {"populate", "merge"}, Todo = {}
  PROVE  /\ Reached = {i \in Ids : id2loc[i] < loc_st + Size}
         /\ loc_st + Size >= cur_loc => Reached = Ids
<1>1. /\ cur_loc = Tail /\ loc_st \in Nat /\ Size \in Nat
      /\ id2loc \in [Ids -> Locs]
      /\ \A i \in Ids : loc2id[id2loc[i]] = i
      /\ done \subseteq Batch
  BY Sizes DEF MergeInv, TypeOK, TablesOK, LoopOK, Old, Size
<1>2. \A l : l \in Batch <=> l \in Nat /\ loc_st <= l /\ l < cur_loc /\ l < loc_st + Size
  BY <1>1, BatchIs, Sizes
<1>3. ASSUME NEW i \in Ids
      PROVE  i \in Reached <=> id2loc[i] < loc_st + Size
  <2>1. id2loc[i] \in Nat /\ id2loc[i] < cur_loc
    BY <1>1, Sizes
  <2>2. CASE id2loc[i] < loc_st
    BY <1>1, <2>1, <2>2 DEF Reached
  <2>3. CASE ~(id2loc[i] < loc_st)
    <3>1. id2loc[i] < loc_st + Size => id2loc[i] \in Batch
      BY <1>1, <1>2, <2>1, <2>3
    <3>2. id2loc[i] \in Batch => id2loc[i] \in done
      BY <1>1, Sizes DEF Todo
    <3>3. id2loc[i] \in done => id2loc[i] < loc_st + Size
      BY <1>1, <1>2
    <3> QED BY <2>3, <3>1, <3>2, <3>3 DEF Reached
  <2> QED BY <2>2, <2>3
<1>4. Reached = {i \in Ids : id2loc[i] < loc_st + Size}
  BY <1>3 DEF Reached
<1>5. loc_st + Size >= cur_loc => Reached = Ids
  <2>1. ASSUME NEW i \in Ids, loc_st + Size >= cur_loc PROVE id2loc[i] < loc_st + Size
    BY <1>1, <2>1, Sizes
  <2> QED BY <1>4, <2>1
<1> QED BY <1>4, <1>5

(* A new number continues the numbering.                                   *)
LEMMA NextNumber ==
  ASSUME NEW map, NEW n \in Nat, NEW x, x \notin DOMAIN map, Numbers(map, n)
  PROVE  Numbers(Inserted(map, x, n), n + 1)
<1> DEFINE map2 == Inserted(map, x, n)
<1>1. DOMAIN map2 = DOMAIN map \cup {x} /\ map2[x] = n
      /\ \A v \in DOMAIN map : map2[v] = map[v]
  BY DEF Inserted
<1> HIDE DEF map2
<1>2. \A v \in DOMAIN map2 : map2[v] \in 0 .. n
  BY <1>1 DEF Numbers
<1>3. ASSUME NEW u \in DOMAIN map2, NEW v \in DOMAIN map2, map2[u] = map2[v] PROVE u = v
  <2>1. \A w \in DOMAIN map : map[w] # n
    BY DEF Numbers
  <2> QED BY <1>1, <1>3, <2>1 DEF Numbers
<1>4. ASSUME NEW y \in 0 .. n PROVE \E v \in DOMAIN map2 : map2[v] = y
  <2>1. CASE y = n
    BY <1>1, <2>1
  <2>2. CASE y # n
    <3>1. y \in 0 .. n - 1
      BY <2>2
    <3>2. PICK v \in DOMAIN map : map[v] = y
      BY <3>1 DEF Numbers
    <3> QED BY <1>1, <3>2
  <2> QED BY <2>1, <2>2
<1>5. n + 1 - 1 = n
  OBVIOUS
<1>6. Numbers(map2, n + 1)
  BY <1>2, <1>3, <1>4, <1>5 DEF Numbers
<1> QED BY <1>6 DEF map2

(* A thread gives an id its new one, or collects its neighbours.           *)
LEMMA PopulateInv ==
  ASSUME MergeInv, NEW l \in Locs, Populate(l)
  PROVE  MergeInv'
<1> DEFINE id == loc2id[l]
<1>1. /\ pc = "populate" /\ rbuf # NoRecords /\ l \in Todo
      /\ done' = done \cup {l}
      /\ UNCHANGED <<tables, bgVars, loc_st, rbuf, window, reader, nbr_handler, deleted, pc>>
  BY DEF Populate
<1>2. /\ l \in Batch /\ l \in Locs /\ l \notin done
      /\ loc_st <= l /\ l < loc_st + Size
      /\ id \in Ids /\ id \notin Reached /\ id2loc[id] = l
      /\ {i \in Ids : id2loc[i] < loc_st \/ id2loc[i] \in done \cup {l}} = Reached \cup {id}
  BY <1>1, NextReached
<1>3. Reached' = Reached \cup {id} /\ Batch' = Batch
  BY <1>1, <1>2 DEF Reached, Batch, tables
<1>4. Populated = Reached /\ Populated' = Reached' /\ Merged' = {} /\ Merged = {}
  BY <1>1 DEF Populated, Merged
<1>5. /\ DOMAIN id_map = Reached \ deleted /\ DOMAIN deleted_nhoods = Reached \cap deleted
      /\ \A i \in DOMAIN deleted_nhoods : deleted_nhoods[i] \subseteq Live
      /\ DOMAIN id_map \subseteq Ids /\ deleted \subseteq Ids
      /\ NewId \in Nat /\ NewId <= NIds
  BY <1>4, IdsFinite DEF MergeInv, MapsOK, TypeOK, NewId
<1>6. Numbers(id_map, NewId)
  BY DEF MergeInv, MapsOK
<1>7. /\ DOMAIN id_map' = Reached' \ deleted /\ DOMAIN deleted_nhoods' = Reached' \cap deleted
      /\ \A i \in DOMAIN deleted_nhoods' : deleted_nhoods'[i] \subseteq Live
      /\ Numbers(id_map', NewId') /\ Ordered'
      /\ \A v \in DOMAIN id_map' : id_map'[v] \in Ids
  <2>1. CASE id \notin deleted
    <3>1. id_map' = Inserted(id_map, id, NewId) /\ deleted_nhoods' = deleted_nhoods
      BY <1>1, <2>1 DEF Populate
    <3>2. id \notin DOMAIN id_map
      BY <1>2, <1>5
    <3>3. /\ DOMAIN id_map' = DOMAIN id_map \cup {id} /\ id_map'[id] = NewId
          /\ \A v \in DOMAIN id_map : id_map'[v] = id_map[v]
          /\ \A v \in DOMAIN id_map' : id_map'[v] \in 0 .. NewId
          /\ \A u, v \in DOMAIN id_map' : id_map'[u] = id_map'[v] => u = v
          /\ \A y \in 0 .. NewId : \E v \in DOMAIN id_map' : id_map'[v] = y
      <4>1. NewId \in Nat /\ Numbers(id_map, NewId)
        BY ONLY <1>5, <1>6
      <4>2. Numbers(id_map', NewId + 1)
        BY ONLY <3>1, <3>2, <4>1, NextNumber
      <4>3. NewId + 1 - 1 = NewId
        BY <1>5
      <4>4. /\ DOMAIN id_map' = DOMAIN id_map \cup {id} /\ id_map'[id] = NewId
            /\ \A v \in DOMAIN id_map : id_map'[v] = id_map[v]
        BY ONLY <3>1, <3>2 DEF Inserted
      <4> QED BY ONLY <4>2, <4>3, <4>4 DEF Numbers
    <3>4. NewId' = NewId + 1 /\ NewId < NIds
      BY <1>2, <1>5, <3>2, <3>3, IdsFinite DEF NewId
    <3>5. Numbers(id_map', NewId')
      <4>1. NewId' - 1 = NewId
        BY <1>5, <3>4
      <4> QED BY <3>3, <4>1 DEF Numbers
    <3>6. DOMAIN id_map' = Reached' \ deleted /\ DOMAIN deleted_nhoods' = Reached' \cap deleted
      BY <1>3, <1>5, <2>1, <3>1, <3>3
    <3>7. \A v \in DOMAIN id_map' : id_map'[v] \in Ids
      BY <1>5, <3>3, <3>4, Sizes DEF Ids
    <3>8. Ordered'
      <4> SUFFICES ASSUME NEW u \in DOMAIN id_map', NEW v \in DOMAIN id_map', NEW k \in Nat,
                          id2loc[u] < LocPerPopulate * k, LocPerPopulate * k <= id2loc[v]
                   PROVE  id_map'[u] < id_map'[v]
        BY <1>1 DEF Ordered, tables
      <4>1. CASE u = id
        <5>1. v \in Reached
          BY <1>5, <3>3, <4>1, <1>2, Sizes DEF MergeInv, TypeOK
        <5>2. PICK k0 \in Nat : loc_st = LocPerPopulate * k0
          BY <1>1 DEF MergeInv, LoopOK
        <5>3. id2loc[v] \in Nat /\ id2loc[v] < loc_st + LocPerPopulate
          <6>1. cur_loc = Tail /\ loc_st \in Nat /\ done \subseteq Batch /\ Size = LocPerPopulate
                /\ id2loc[v] \in Nat
            BY <1>1, <5>1, Sizes DEF MergeInv, TypeOK, TablesOK, LoopOK, Old, Size, Reached
          <6>2. id2loc[v] < loc_st \/ id2loc[v] \in Batch
            BY <5>1, <6>1 DEF Reached
          <6> QED BY <6>1, <6>2, BatchIs, Sizes
        <5>4. k0 + 1 <= k
          <6> SUFFICES ASSUME k <= k0 PROVE FALSE
            OBVIOUS
          <6>1. LocPerPopulate * k <= LocPerPopulate * k0
            BY MulMonotone, Sizes
          <6> QED BY <6>1, <5>2, <1>2, <4>1, Sizes
        <5>5. LocPerPopulate * (k0 + 1) <= LocPerPopulate * k
          BY <5>4, MulMonotone, Sizes
        <5>6. LocPerPopulate * (k0 + 1) = LocPerPopulate * k0 + LocPerPopulate
          BY Sizes
        <5> QED BY <5>2, <5>3, <5>5, <5>6, Sizes
      <4>2. CASE u # id /\ v = id
        BY <1>6, <3>3, <4>2
      <4>3. CASE u # id /\ v # id
        <5>1. u \in DOMAIN id_map /\ v \in DOMAIN id_map
          BY <3>3, <4>3
        <5>2. id_map[u] < id_map[v]
          BY <1>1, <5>1 DEF MergeInv, Ordered
        <5> QED BY <3>3, <5>1, <5>2
      <4> QED BY <4>1, <4>2, <4>3
    <3> QED BY <1>5, <3>1, <3>5, <3>6, <3>7, <3>8
  <2>2. CASE id \in deleted
    <3>1. PICK nhood \in SUBSET (rbuf[l].nbrs \ deleted) :
            deleted_nhoods' = Inserted(deleted_nhoods, id, nhood)
      BY <1>1, <2>2 DEF Populate
    <3>2. id_map' = id_map
      BY <1>1, <2>2 DEF Populate
    <3>3. nhood \subseteq Live
      <4>1. rbuf[l] \in Record
        BY <1>1, <1>2 DEF MergeInv, LoopOK
      <4> QED BY <4>1 DEF Live, Record
    <3>4. /\ DOMAIN deleted_nhoods' = DOMAIN deleted_nhoods \cup {id}
          /\ \A i \in DOMAIN deleted_nhoods' :
               deleted_nhoods'[i] = nhood \/ (i \in DOMAIN deleted_nhoods /\ deleted_nhoods'[i] = deleted_nhoods[i])
      BY <3>1 DEF Inserted
    <3>5. DOMAIN id_map' = Reached' \ deleted /\ DOMAIN deleted_nhoods' = Reached' \cap deleted
      BY <1>3, <1>5, <2>2, <3>2, <3>4
    <3>6. \A i \in DOMAIN deleted_nhoods' : deleted_nhoods'[i] \subseteq Live
      BY <1>5, <3>3, <3>4
    <3>7. Numbers(id_map', NewId')
      BY <3>2 DEF MergeInv, MapsOK, NewId
    <3>8. Ordered'
      BY <1>1, <3>2 DEF MergeInv, Ordered, tables
    <3>9. \A v \in DOMAIN id_map' : id_map'[v] \in Ids
      BY <3>2 DEF MergeInv, TypeOK
    <3> QED BY <3>5, <3>6, <3>7, <3>8, <3>9
  <2> QED BY <2>1, <2>2
<1>8. TypeOK'
  <2>1. DOMAIN id_map' \subseteq Ids /\ \A i \in DOMAIN deleted_nhoods' : deleted_nhoods'[i] \subseteq Ids
    BY <1>2, <1>3, <1>5, <1>7 DEF Live
  <2>2. done' \subseteq Locs
    BY <1>1 DEF MergeInv, TypeOK
  <2> QED BY <1>1, <1>3, <1>7, <2>1, <2>2 DEF MergeInv, TypeOK, tables, bgVars, window, reader
<1>9. (TablesOK /\ HandlerOK /\ SwitchOK /\ TailOK)'
  BY <1>1 DEF MergeInv, TablesOK, HandlerOK, SwitchOK, TailOK, Old, tables
<1>10. LoopOK'
  BY <1>1, <1>2, <1>3 DEF MergeInv, LoopOK
<1>11. MapsOK'
  BY <1>1, <1>4, <1>7 DEF MapsOK, Live
<1>12. CountOK'
  BY <1>1, <1>4 DEF MergeInv, CountOK, window
<1> QED BY <1>7, <1>8, <1>9, <1>10, <1>11, <1>12 DEF MergeInv

(* The end of a chunk, or of the first step.                               *)
LEMMA EndPopulateInv ==
  ASSUME MergeInv, EndPopulate
  PROVE  MergeInv'
<1> DEFINE last == loc_st + LocPerPopulate >= cur_loc
<1>1. /\ pc = "populate" /\ Todo = {}
      /\ loc_st' = IF last THEN 0 ELSE loc_st + LocPerPopulate
      /\ pc' = IF last THEN "merge" ELSE "populate"
      /\ rbuf' = NoRecords /\ done' = {}
      /\ UNCHANGED <<tables, bgVars, maps, window, reader, nbr_handler, deleted>>
  BY DEF EndPopulate
<1>2. Size = LocPerPopulate /\ cur_loc = Tail /\ loc_st \in Nat /\ loc_st < Tail
      /\ id2loc \in [Ids -> Locs]
  BY <1>1, Sizes DEF Size, MergeInv, TypeOK, TablesOK, LoopOK, Old
<1>3. /\ Reached = {i \in Ids : id2loc[i] < loc_st + LocPerPopulate}
      /\ last => Reached = Ids
  BY <1>1, <1>2, EndOfBatch
<1>4. Populated' = Reached /\ Populated = Reached
  <2>1. CASE last
    BY <1>1, <1>3, <2>1 DEF Populated
  <2>2. CASE ~last
    BY <1>1, <1>3, <2>2 DEF Populated, Reached, tables
  <2> QED BY <2>1, <2>2
<1>5. Merged = {} /\ Merged' = {}
  <2>1. CASE last
    <3>1. Reached' = {}
      <4>1. ASSUME NEW i \in Ids PROVE ~(id2loc[i] < 0)
        BY <1>2, Sizes
      <4> QED BY <1>1, <2>1, <4>1 DEF Reached, tables
    <3> QED BY <1>1, <2>1, <3>1 DEF Merged
  <2>2. CASE ~last
    BY <1>1, <2>2 DEF Merged
  <2> QED BY <2>1, <2>2
<1>6. TypeOK'
  <2>1. loc_st' \in Locs \cup {0}
    BY <1>1, <1>2, Sizes DEF Locs
  <2>2. DOMAIN rbuf' = {}
    BY <1>1 DEF NoRecords
  <2> QED BY <1>1, <2>1, <2>2 DEF MergeInv, TypeOK, Phases, tables, bgVars, maps, window, reader
<1>7. (TablesOK /\ HandlerOK /\ SwitchOK /\ TailOK)'
  BY <1>1 DEF MergeInv, TablesOK, HandlerOK, SwitchOK, TailOK, Old, tables
<1>8. LoopOK'
  <2>1. pc' = "populate" => \E k \in Nat : loc_st' = LocPerPopulate * k
    <3>1. PICK k0 \in Nat : loc_st = LocPerPopulate * k0
      BY <1>1 DEF MergeInv, LoopOK
    <3>2. LocPerPopulate * (k0 + 1) = LocPerPopulate * k0 + LocPerPopulate
      BY Sizes
    <3> QED BY <1>1, <3>1, <3>2
  <2>2. pc' = "merge" => \E k \in Nat : loc_st' = LocPerMerge * k
    <3>1. LocPerMerge * 0 = 0
      BY Sizes
    <3> QED BY <1>1, <3>1
  <2>3. loc_st' < Tail
    BY <1>1, <1>2, Sizes
  <2> QED BY <1>1, <2>1, <2>2, <2>3 DEF LoopOK
<1>9. MapsOK'
  BY <1>1, <1>4 DEF MergeInv, MapsOK, NewId, Live, maps
<1>10. Ordered'
  BY <1>1 DEF MergeInv, Ordered, maps, tables
<1>11. CountOK'
  BY <1>1, <1>5 DEF MergeInv, CountOK, window
<1> QED BY <1>6, <1>7, <1>8, <1>9, <1>10, <1>11 DEF MergeInv

-----------------------------------------------------------------------------
(* Step 2.                                                                 *)

(* write_back() writes the next ids, a batch of them or all that are left, *)
(* from their slots of the ring, and no id before them.                    *)
LEMMA WrittenBack ==
  ASSUME MergeInv, wb_id < n_used_id, NEW k \in Nat, wb_id = LocPerMerge * k, WriteBack
  PROVE  /\ out' \in [Locs -> Record]
         /\ wb_id' \in Nat /\ wb_id < wb_id' /\ wb_id' <= n_used_id
         /\ wb_id' <= wb_id + LocPerMerge
         /\ wb_id' = n_used_id \/ (wb_id' = wb_id + LocPerMerge /\ wb_id' = LocPerMerge * (k + 1))
         /\ \A l \in Locs : l < wb_id => out'[l] = out[l]
         /\ \A l \in Locs : wb_id <= l /\ l < wb_id' => out'[l] = wbuf[l % (2 * LocPerMerge)]
         /\ \A l \in Locs : out'[l] = out[l] \/ \E s \in 0 .. 2 * LocPerMerge - 1 : out'[l] = wbuf[s]
<1> DEFINE delta == Min({LocPerMerge, n_used_id - wb_id})
           first == ((wb_id % (2 * LocPerMerge)) \div LocPerMerge) * LocPerMerge
           p == PageOf(wb_id)
           q == PageOf(wb_id + delta - 1)
           n == NodesPerPage
<1>1. /\ out' = [l \in Locs |-> IF PageOf(l) \in p .. q THEN wbuf[first + l - wb_id] ELSE out[l]]
      /\ wb_id' = wb_id + delta
  BY DEF WriteBack
<1>2. /\ wb_id \in Nat /\ n_used_id \in Nat /\ out \in [Locs -> Record]
      /\ wbuf \in [0 .. 2 * LocPerMerge - 1 -> Record]
  BY Sizes DEF MergeInv, TypeOK
<1>3. /\ delta \in Nat /\ 0 < delta /\ delta <= LocPerMerge /\ delta <= n_used_id - wb_id
      /\ delta = LocPerMerge \/ delta = n_used_id - wb_id
  <2>1. LocPerMerge \in Int /\ n_used_id - wb_id \in Int /\ 0 < n_used_id - wb_id /\ 0 < LocPerMerge
    BY <1>2, Sizes
  <2>2. delta = IF LocPerMerge <= n_used_id - wb_id THEN LocPerMerge ELSE n_used_id - wb_id
    BY <2>1, MinOfTwo
  <2> HIDE DEF delta
  <2> QED BY <2>1, <2>2
<1> HIDE DEF delta
<1>4. \A x \in 0 .. LocPerMerge - 1 :
        first + x = (wb_id + x) % (2 * LocPerMerge) /\ first + x \in 0 .. 2 * LocPerMerge - 1
  BY Sizes, RingOfTwo
<1>5. PICK m \in Nat : LocPerMerge = n * m
  BY MergeAssumption, Sizes, MultipleOf
<1>6. wb_id = n * (m * k) /\ wb_id + LocPerMerge = n * (m * k + m) /\ m * k \in Nat
  BY <1>5, Sizes
<1>7. ASSUME NEW l \in Nat
      PROVE  /\ l < wb_id => PageOf(l) < p
             /\ wb_id <= l => p <= PageOf(l)
             /\ PageOf(l) <= q => l < wb_id + LocPerMerge
             /\ l <= wb_id + delta - 1 => PageOf(l) <= q
  <2> DEFINE r == PageOf(l)
  <2>1. r \in Nat /\ n * r <= l /\ l < n * r + n
    BY DivBounds, Sizes DEF PageOf
  <2>2. p = m * k
    <3>1. (n * (m * k) + 0) \div n = m * k
      BY <1>6, DivModUnique, Sizes
    <3>2. n * (m * k) + 0 = wb_id
      BY <1>6, Sizes
    <3> QED BY <3>1, <3>2 DEF PageOf
  <2>3. q \in Nat /\ n * q <= wb_id + delta - 1
    BY <1>2, <1>3, DivBounds, Sizes DEF PageOf
  <2>4. l < wb_id => r < p
    <3> SUFFICES ASSUME l < wb_id, m * k <= r PROVE FALSE
      BY <1>6, <2>1, <2>2
    <3>1. n * (m * k) <= n * r
      BY <1>6, <2>1, MulMonotone, Sizes
    <3> QED BY <3>1, <1>2, <1>6, <2>1, Sizes
  <2>5. wb_id <= l => p <= r
    BY <1>2, DivMonotone, Sizes DEF PageOf
  <2>6. r <= q => l < wb_id + LocPerMerge
    <3> SUFFICES ASSUME r <= q, wb_id + LocPerMerge <= l PROVE FALSE
      BY <1>2, Sizes
    <3>1. n * r <= n * q
      BY <2>1, <2>3, MulMonotone, Sizes
    <3>2. r < m * k + m
      <4> SUFFICES ASSUME m * k + m <= r PROVE FALSE
        BY <1>6, <2>1
      <4>1. n * (m * k + m) <= n * r
        BY <1>6, <2>1, MulMonotone, Sizes
      <4>2. wb_id + LocPerMerge <= wb_id + delta - 1
        BY <4>1, <3>1, <2>1, <2>3, <1>6, <1>2, <1>3, Sizes
      <4> QED BY ONLY <4>2, <1>2, <1>3, Sizes
    <3>3. n * (r + 1) <= n * (m * k + m)
      BY <3>2, <1>6, <2>1, MulMonotone, Sizes
    <3>4. n * (r + 1) = n * r + n
      BY <2>1, Sizes
    <3> QED BY <3>3, <3>4, <2>1, <1>6, <1>2, Sizes
  <2>7. l <= wb_id + delta - 1 => r <= q
    BY <1>2, <1>3, DivMonotone, Sizes DEF PageOf
  <2> QED BY <2>4, <2>5, <2>6, <2>7
<1>8. p \in Int /\ q \in Int /\ \A l \in Locs : l \in Nat /\ PageOf(l) \in Int
  BY <1>2, <1>3, DivBounds, Sizes DEF PageOf
<1> HIDE DEF p, q, first
<1>9. ASSUME NEW l \in Locs
      PROVE  /\ out'[l] \in Record
             /\ l < wb_id => out'[l] = out[l]
             /\ wb_id <= l /\ l < wb_id + delta => out'[l] = wbuf[l % (2 * LocPerMerge)]
             /\ out'[l] = out[l] \/ \E s \in 0 .. 2 * LocPerMerge - 1 : out'[l] = wbuf[s]
  <2>1. CASE PageOf(l) \in p .. q
    <3>1. wb_id <= l /\ l < wb_id + LocPerMerge
      BY <1>2, <1>7, <1>8, <2>1
    <3>2. l - wb_id \in 0 .. LocPerMerge - 1 /\ wb_id + (l - wb_id) = l
      BY <3>1, <1>2, <1>8, Sizes
    <3>3. /\ first + (l - wb_id) = l % (2 * LocPerMerge)
          /\ first + (l - wb_id) \in 0 .. 2 * LocPerMerge - 1
      BY <1>4, <3>2
    <3>4. first + l - wb_id = first + (l - wb_id)
      <4>1. first \in Int
        BY <1>2, Sizes DEF first
      <4> QED BY <4>1, <1>2, <1>8
    <3>5. out'[l] = wbuf[first + l - wb_id]
      BY <1>1, <2>1
    <3>6. \E s \in 0 .. 2 * LocPerMerge - 1 : out'[l] = wbuf[s]
      BY <3>3, <3>4, <3>5
    <3>7. out'[l] \in Record
      BY <3>6, <1>2
    <3>8. wb_id <= l /\ l < wb_id + delta => out'[l] = wbuf[l % (2 * LocPerMerge)]
      BY <3>3, <3>4, <3>5
    <3>9. ~(l < wb_id)
      BY <3>1, <1>2, <1>8
    <3> QED BY <3>6, <3>7, <3>8, <3>9
  <2>2. CASE PageOf(l) \notin p .. q
    <3>1. out'[l] = out[l]
      BY <1>1, <2>2
    <3>2. ~(wb_id <= l /\ l < wb_id + delta)
      BY <1>2, <1>3, <1>7, <1>8, <2>2
    <3> QED BY <3>1, <3>2, <1>2
  <2> QED BY <2>1, <2>2
<1>10. out' \in [Locs -> Record]
  BY <1>1, <1>9
<1>11. LocPerMerge * (k + 1) = wb_id + LocPerMerge
  BY Sizes
<1> QED BY <1>1, <1>2, <1>3, <1>9, <1>10, <1>11, Sizes

(* A repaired list has live nodes other than its own.                      *)
LEMMA RepairedLive ==
  ASSUME MergeInv, pc = "merge", rbuf # NoRecords, NEW l \in Todo, NEW s \in Pruned(Repaired(l))
  PROVE  s \subseteq Live \ {loc2id[l]} /\ Cardinality(s) <= R
<1>1. DOMAIN deleted_nhoods = Ids \cap deleted /\ \A i \in DOMAIN deleted_nhoods : deleted_nhoods[i] \subseteq Live
  BY DEF MergeInv, MapsOK, Populated
<1>2. rbuf[l].nbrs \subseteq Ids /\ deleted \subseteq Ids
  BY DEF MergeInv, LoopOK, Todo, Record, TypeOK
<1>3. Repaired(l) \subseteq Live \ {loc2id[l]}
  BY <1>1, <1>2 DEF Repaired, Live
<1>4. s \subseteq Repaired(l) /\ Cardinality(s) <= R
  <2>1. CASE Cardinality(Repaired(l)) <= R
    BY <2>1 DEF Pruned
  <2>2. CASE ~(Cardinality(Repaired(l)) <= R)
    BY <2>2, Sizes DEF Pruned
  <2> QED BY <2>1, <2>2
<1> QED BY <1>3, <1>4

(* A thread makes the record of an id.                                     *)
LEMMA MergeRecordInv ==
  ASSUME MergeInv, NEW l \in Locs, Merge(l)
  PROVE  MergeInv'
<1> DEFINE id == loc2id[l]
           slot == id_map[id] % (2 * LocPerMerge)
<1>1. /\ pc = "merge" /\ rbuf # NoRecords /\ l \in Todo
      /\ done' = done \cup {l}
      /\ UNCHANGED <<tables, bgVars, loc_st, rbuf, maps, wb_id, out, reader, nbr_handler, deleted, pc>>
  BY DEF Merge
<1>2. /\ l \in Batch /\ id \in Ids /\ id \notin Reached
      /\ {i \in Ids : id2loc[i] < loc_st \/ id2loc[i] \in done \cup {l}} = Reached \cup {id}
  BY <1>1, NextReached
<1>3. Reached' = Reached \cup {id} /\ Batch' = Batch
  BY <1>1, <1>2 DEF Reached, Batch, tables
<1>4. Populated' = Populated /\ Merged = Reached /\ Merged' = Reached'
  BY <1>1 DEF Populated, Merged
<1>5. DOMAIN id_map = Ids \ deleted
  BY <1>1 DEF MergeInv, MapsOK, Populated
<1>6. /\ n_used_id' = Cardinality(Reached' \ deleted) /\ n_used_id <= n_used_id' /\ n_used_id' <= NIds
      /\ n_used_id' \in Nat /\ wbuf' \in [0 .. 2 * LocPerMerge - 1 -> Record]
  <2>1. /\ Reached \ deleted \in SUBSET Ids /\ n_used_id = Cardinality(Reached \ deleted)
        /\ n_used_id \in Nat /\ n_used_id <= NIds /\ wbuf \in [0 .. 2 * LocPerMerge - 1 -> Record]
    BY <1>4, Sizes DEF MergeInv, CountOK, Reached, TypeOK
  <2>2. CASE id \in deleted
    <3>1. n_used_id' = n_used_id /\ wbuf' = wbuf
      BY <1>1, <2>2 DEF Merge
    <3>2. Reached' \ deleted = Reached \ deleted
      BY <1>3, <2>2
    <3>3. n_used_id <= n_used_id
      BY <2>1
    <3> QED BY ONLY <2>1, <3>1, <3>2, <3>3, Zenon
  <2>3. CASE id \notin deleted
    <3>1. PICK s \in Pruned(Repaired(l)) :
            wbuf' = [wbuf EXCEPT ![slot] = [vec |-> rbuf[l].vec, nbrs |-> {id_map[i] : i \in s}]]
      BY <1>1, <2>3 DEF Merge, Renumbered
    <3>2. n_used_id' = n_used_id + 1
      BY <1>1, <2>3 DEF Merge
    <3>3. Reached' \ deleted = (Reached \ deleted) \cup {id} /\ id \in Ids \ (Reached \ deleted)
      BY <1>2, <1>3, <2>3
    <3>4. n_used_id' = Cardinality(Reached' \ deleted) /\ n_used_id < NIds
      <4>1. /\ Cardinality((Reached \ deleted) \cup {id}) = Cardinality(Reached \ deleted) + 1
            /\ Cardinality(Reached \ deleted) < NIds
        BY ONLY <2>1, <3>3, IdsFinite
      <4> QED BY ONLY <2>1, <3>2, <3>3, <4>1
    <3>5. rbuf[l] \in Record
      BY <1>1, <1>2 DEF MergeInv, LoopOK
    <3>6. {id_map[i] : i \in s} \subseteq Ids
      BY <1>1, <1>5, RepairedLive DEF Live, MergeInv, TypeOK
    <3>7. [vec |-> rbuf[l].vec, nbrs |-> {id_map[i] : i \in s}] \in Record
      BY <3>5, <3>6 DEF Record
    <3>8. wbuf' \in [0 .. 2 * LocPerMerge - 1 -> Record]
      BY <2>1, <3>1, <3>7
    <3> QED BY <2>1, <3>2, <3>4, <3>8, Sizes
  <2> QED BY <2>2, <2>3
<1>7. TypeOK'
  <2>1. done' \subseteq Locs
    BY <1>1 DEF MergeInv, TypeOK
  <2>2. wb_id' \in 0 .. n_used_id' /\ n_used_id' \in 0 .. NIds
    BY <1>1, <1>6, Sizes DEF MergeInv, TypeOK
  <2> QED BY <1>1, <1>3, <1>6, <2>1, <2>2 DEF MergeInv, TypeOK, tables, bgVars, maps, reader
<1>8. (TablesOK /\ HandlerOK /\ Ordered /\ SwitchOK /\ TailOK)'
  BY <1>1 DEF MergeInv, TablesOK, HandlerOK, Ordered, SwitchOK, TailOK, Old, tables, maps
<1>9. LoopOK'
  BY <1>1, <1>2, <1>3 DEF MergeInv, LoopOK
<1>10. MapsOK'
  BY <1>1, <1>4 DEF MergeInv, MapsOK, Numbers, NewId, maps, Live
<1>11. CountOK'
  BY <1>1, <1>4, <1>6 DEF MergeInv, CountOK
<1> QED BY <1>7, <1>8, <1>9, <1>10, <1>11 DEF MergeInv

(* The end of a batch, or of the second step.                              *)
LEMMA EndMergeInv ==
  ASSUME MergeInv, EndMerge
  PROVE  MergeInv'
<1> DEFINE last == loc_st + LocPerMerge >= cur_loc
<1>1. /\ pc = "merge" /\ Todo = {}
      /\ loc_st' = IF last THEN 0 ELSE loc_st + LocPerMerge
      /\ pc' = IF last THEN "flush" ELSE "merge"
      /\ rbuf' = NoRecords /\ done' = {}
      /\ UNCHANGED <<tables, bgVars, maps, wbuf, n_used_id, reader, nbr_handler, deleted>>
  BY DEF EndMerge
<1>2. Size = LocPerMerge /\ cur_loc = Tail /\ loc_st \in Nat /\ loc_st < Tail
  BY <1>1, Sizes DEF Size, MergeInv, TypeOK, TablesOK, LoopOK, Old
<1>3. /\ Reached = {i \in Ids : id2loc[i] < loc_st + LocPerMerge}
      /\ last => Reached = Ids
  BY <1>1, <1>2, EndOfBatch
<1>4. Populated' = Populated /\ Merged = Reached /\ Merged' = Reached
  <2>1. CASE last
    BY <1>1, <1>3, <2>1 DEF Populated, Merged
  <2>2. CASE ~last
    BY <1>1, <1>3, <2>2 DEF Populated, Merged, Reached, tables
  <2> QED BY <2>1, <2>2
<1>5. /\ out' \in [Locs -> Record] /\ wb_id' \in 0 .. n_used_id
      /\ \E k \in Nat : wb_id' = LocPerMerge * k
  <2>1. PICK k \in Nat : wb_id = LocPerMerge * k
    BY <1>1 DEF MergeInv, CountOK
  <2>2. wb_id \in Nat /\ n_used_id \in Nat /\ wb_id <= n_used_id
    BY Sizes DEF MergeInv, TypeOK
  <2>3. CASE n_used_id - wb_id >= LocPerMerge
    <3>1. WriteBack /\ wb_id < n_used_id
      BY <2>2, <2>3, Sizes DEF EndMerge
    <3>2. /\ out' \in [Locs -> Record]
          /\ wb_id' \in Nat /\ wb_id < wb_id' /\ wb_id' <= n_used_id
          /\ wb_id' <= wb_id + LocPerMerge
          /\ wb_id' = n_used_id \/ (wb_id' = wb_id + LocPerMerge /\ wb_id' = LocPerMerge * (k + 1))
      BY <3>1, <2>1, WrittenBack
    <3>3. wb_id' = LocPerMerge * (k + 1)
      <4>1. LocPerMerge * (k + 1) = LocPerMerge * k + LocPerMerge
        BY Sizes
      <4>2. wb_id' = wb_id + LocPerMerge
        BY ONLY <3>2, <2>2, <2>3, Sizes
      <4> QED BY ONLY <4>1, <4>2, <2>1
    <3> QED BY <3>2, <3>3, <2>2
  <2>4. CASE n_used_id - wb_id < LocPerMerge
    <3>1. UNCHANGED <<out, wb_id>>
      BY <2>2, <2>4, Sizes DEF EndMerge
    <3> QED BY <3>1, <2>1, <2>2 DEF MergeInv, TypeOK
  <2>5. n_used_id - wb_id >= LocPerMerge \/ n_used_id - wb_id < LocPerMerge
    BY <2>2, Sizes
  <2> QED BY ONLY <2>3, <2>4, <2>5
<1>6. TypeOK'
  <2>1. loc_st' \in Locs \cup {0}
    BY <1>1, <1>2, Sizes DEF Locs
  <2>2. DOMAIN rbuf' = {}
    BY <1>1 DEF NoRecords
  <2> QED BY <1>1, <1>5, <2>1, <2>2 DEF MergeInv, TypeOK, Phases, tables, bgVars, maps, reader
<1>7. (TablesOK /\ HandlerOK /\ SwitchOK /\ TailOK)'
  BY <1>1 DEF MergeInv, TablesOK, HandlerOK, SwitchOK, TailOK, Old, tables
<1>8. LoopOK'
  <2>1. \E k \in Nat : loc_st + LocPerMerge = LocPerMerge * k
    <3>1. PICK k0 \in Nat : loc_st = LocPerMerge * k0
      BY <1>1 DEF MergeInv, LoopOK
    <3>2. LocPerMerge * (k0 + 1) = LocPerMerge * k0 + LocPerMerge
      BY Sizes
    <3> QED BY <3>1, <3>2
  <2>2. pc' = "merge" => loc_st' < Tail
    BY <1>1, <1>2, Sizes
  <2> QED BY <1>1, <2>1, <2>2 DEF LoopOK
<1>9. MapsOK'
  BY <1>1, <1>4 DEF MergeInv, MapsOK, Numbers, NewId, Live, maps
<1>10. Ordered'
  BY <1>1 DEF MergeInv, Ordered, maps, tables
<1>11. CountOK'
  <2>1. n_used_id' = Cardinality(Merged' \ deleted')
    BY <1>1, <1>4 DEF MergeInv, CountOK
  <2> QED BY <1>1, <1>5, <2>1 DEF CountOK
<1> QED BY <1>6, <1>7, <1>8, <1>9, <1>10, <1>11 DEF MergeInv

(* The ids that are left are written.                                      *)
LEMMA FlushInv ==
  ASSUME MergeInv, Flush
  PROVE  MergeInv'
<1>1. /\ pc = "flush" /\ wb_id < n_used_id /\ WriteBack
      /\ UNCHANGED <<tables, bgVars, loop, maps, wbuf, n_used_id, reader, nbr_handler, deleted, pc>>
  BY DEF Flush
<1>2. PICK k \in Nat : wb_id = LocPerMerge * k
  BY <1>1 DEF MergeInv, CountOK
<1>3. /\ out' \in [Locs -> Record] /\ wb_id' \in Nat /\ wb_id' <= n_used_id /\ n_used_id \in Nat
      /\ wb_id' = n_used_id \/ wb_id' = LocPerMerge * (k + 1)
  <2>1. n_used_id \in Nat
    BY Sizes DEF MergeInv, TypeOK
  <2> QED BY <1>1, <1>2, <2>1, WrittenBack
<1>4. Batch' = Batch /\ Reached' = Reached /\ NewId' = NewId
  BY <1>1 DEF Batch, Reached, NewId, tables, loop, maps
<1>5. Populated' = Populated /\ Merged' = Merged
  BY <1>1, <1>4 DEF Populated, Merged
<1>6. TypeOK'
  <2>1. wb_id' \in 0 .. n_used_id
    BY <1>3
  <2> QED BY <1>1, <1>3, <1>4, <2>1 DEF MergeInv, TypeOK, tables, bgVars, loop, maps, reader
<1>7. (TablesOK /\ HandlerOK /\ Ordered /\ SwitchOK /\ TailOK)'
  BY <1>1 DEF MergeInv, TablesOK, HandlerOK, Ordered, SwitchOK, TailOK, Old, tables, maps
<1>8. LoopOK'
  BY <1>1, <1>4 DEF MergeInv, LoopOK, loop
<1>9. MapsOK'
  BY <1>1, <1>4, <1>5 DEF MergeInv, MapsOK, Numbers, maps, Live
<1>10. CountOK'
  <2>1. n_used_id' = Cardinality(Merged' \ deleted')
    BY <1>1, <1>5 DEF MergeInv, CountOK
  <2>2. wb_id' < n_used_id' => \E j \in Nat : wb_id' = LocPerMerge * j
    BY <1>1, <1>3
  <2> QED BY <1>1, <2>1, <2>2 DEF CountOK
<1> QED BY <1>6, <1>7, <1>8, <1>9, <1>10 DEF MergeInv

-----------------------------------------------------------------------------
(* The switch.                                                             *)

(* At the switch the vectors are the live ids in the order of the new ids. *)
LEMMA NewOrder ==
  ASSUME MergeInv, pc = "entry",
         NEW vecs, vecs = [i \in 0 .. NewId - 1 |-> CHOOSE v \in DOMAIN id_map : id_map[v] = i]
  PROVE  /\ NewId \in Nat /\ NewId <= NIds /\ DOMAIN id_map = Live
         /\ \A i \in 0 .. NewId - 1 : vecs[i] \in Live /\ vecs[i] \in Ids
         /\ \A v \in Live : id_map[v] \in 0 .. NewId - 1 /\ vecs[id_map[v]] = v
<1>1. DOMAIN id_map = Live /\ Numbers(id_map, NewId)
  BY DEF MergeInv, MapsOK, Populated, Live
<1>2. Live \subseteq Ids
  BY DEF Live
<1>3. NewId \in Nat /\ NewId <= NIds
  BY <1>1, <1>2, IdsFinite DEF NewId
<1>4. ASSUME NEW i \in 0 .. NewId - 1
      PROVE  vecs[i] \in Live /\ id_map[vecs[i]] = i
  <2>1. \E v \in DOMAIN id_map : id_map[v] = i
    BY <1>1 DEF Numbers
  <2> QED BY <1>1, <2>1
<1>5. ASSUME NEW v \in Live
      PROVE  id_map[v] \in 0 .. NewId - 1 /\ vecs[id_map[v]] = v
  <2>1. id_map[v] \in 0 .. NewId - 1
    BY <1>1 DEF Numbers
  <2>2. vecs[id_map[v]] \in Live /\ id_map[vecs[id_map[v]]] = id_map[v]
    BY <1>4, <2>1
  <2> QED BY <1>1, <2>1, <2>2 DEF Numbers
<1> QED BY <1>1, <1>2, <1>3, <1>4, <1>5

(* The tables and the metadata are those of the new index.                 *)
LEMMA CommitInv ==
  ASSUME MergeInv, Commit
  PROVE  MergeInv'
<1> DEFINE vecs == [i \in 0 .. NewId - 1 |-> CHOOSE v \in DOMAIN id_map : id_map[v] = i]
<1>1. /\ pc = "entry" /\ entry_point \notin deleted
      /\ npoints' = NewId /\ entry_point' = id_map[entry_point]
      /\ nbr_handler' = [codes |-> vecs, table |-> TRUE]
      /\ tags' = [i \in DOMAIN vecs |-> tags[vecs[i]]]
      /\ id2loc' = [i \in Ids |-> IF i < NewId THEN i ELSE id2loc[i]]
      /\ loc2id' = [l \in Locs |-> IF l < NewId THEN l ELSE loc2id[l]]
      /\ pc' = "reload"
      /\ UNCHANGED <<cur_loc, empty_pages, bgVars, loop, maps, window, reader, deleted>>
  BY DEF Commit, NewId
<1>2. DOMAIN vecs = 0 .. NewId - 1
  OBVIOUS
<1>3. /\ NewId \in Nat /\ NewId <= NIds /\ DOMAIN id_map = Live
      /\ \A i \in 0 .. NewId - 1 : vecs[i] \in Live /\ vecs[i] \in Ids
      /\ \A v \in Live : id_map[v] \in 0 .. NewId - 1 /\ vecs[id_map[v]] = v
  BY <1>1, NewOrder
<1> HIDE DEF vecs
<1>4. entry_point \in Live /\ entry_point' \in 0 .. NewId - 1
  BY <1>1, <1>3 DEF Live, MergeInv, TypeOK
<1>5. /\ DOMAIN tags' = 0 .. NewId - 1
      /\ \A i \in 0 .. NewId - 1 : tags'[i] = vecs[i]
  BY <1>1, <1>2, <1>3 DEF MergeInv, TablesOK, Old
<1>6. /\ nbr_handler'.codes = vecs /\ nbr_handler'.table = TRUE
      /\ nbr_handler' = [codes |-> nbr_handler'.codes, table |-> nbr_handler'.table]
  BY <1>1
<1>7. id2loc' \in [Ids -> Locs] /\ loc2id' \in [Locs -> Ids \cup {Invalid}]
  <2>1. ASSUME NEW i \in Ids PROVE (IF i < NewId THEN i ELSE id2loc[i]) \in Locs
    BY Sizes DEF MergeInv, TypeOK
  <2>2. ASSUME NEW l \in Locs PROVE (IF l < NewId THEN l ELSE loc2id[l]) \in Ids \cup {Invalid}
    <3>1. l < NewId => l \in Ids
      BY <1>3, Sizes DEF Ids
    <3>2. loc2id[l] \in Ids \cup {Invalid}
      BY DEF MergeInv, TypeOK
    <3> QED BY <3>1, <3>2
  <2> QED BY <1>1, <2>1, <2>2
<1>8. loc_st = 0 /\ rbuf = NoRecords /\ done = {} /\ wb_id = n_used_id
  BY <1>1 DEF MergeInv, LoopOK, CountOK
<1>9. Populated = Ids /\ Populated' = Ids /\ Merged = Ids /\ Merged' = Ids /\ NewId' = NewId
  BY <1>1 DEF Populated, Merged, NewId, maps
<1>10. TypeOK'
  <2>1. DOMAIN rbuf' = {}
    BY <1>1, <1>8 DEF NoRecords, loop
  <2>2. npoints' \in 0 .. NIds /\ entry_point' \in Ids
    BY <1>1, <1>3, <1>4, Sizes DEF Ids
  <2>3. /\ \A i \in DOMAIN tags' : i \in Ids /\ tags'[i] \in Ids
        /\ DOMAIN nbr_handler'.codes = DOMAIN tags' /\ nbr_handler'.table \in BOOLEAN
    <3>1. \A i \in 0 .. NewId - 1 : i \in Ids
      BY <1>3, Sizes DEF Ids
    <3> QED BY <1>2, <1>3, <1>5, <1>6, <3>1
  <2> QED BY <1>1, <1>7, <2>1, <2>2, <2>3 DEF MergeInv, TypeOK, Phases, bgVars, loop, maps, window, reader
<1>11. TablesOK' /\ TailOK' /\ Ordered'
  BY <1>1 DEF TablesOK, TailOK, Ordered, Old
<1>12. HandlerOK'
  BY <1>2, <1>3, <1>6 DEF HandlerOK
<1>13. LoopOK'
  BY <1>1, <1>8 DEF LoopOK, loop
<1>14. MapsOK'
  BY <1>1, <1>9 DEF MergeInv, MapsOK, Numbers, maps, Live
<1>15. CountOK'
  BY <1>1, <1>8, <1>9 DEF MergeInv, CountOK, window, TypeOK
<1>16. SwitchOK'
  <2>1. Live' = Live
    BY <1>1 DEF Live
  <2>2. \A v \in Live : tags'[id_map'[v]] = v /\ nbr_handler'.codes[id_map'[v]] = v
    BY <1>1, <1>3, <1>5, <1>6 DEF maps
  <2>3. \A i \in 0 .. NewId - 1 : id2loc'[i] = i /\ loc2id'[i] = i
    <3>1. \A i \in 0 .. NewId - 1 : i \in Ids /\ i \in Locs /\ i < NewId
      BY <1>3, Sizes DEF Ids, Locs
    <3> QED BY <1>1, <3>1
  <2>4. entry_point' < NewId
    BY <1>3, <1>4
  <2> QED BY <1>1, <1>5, <1>9, <2>1, <2>2, <2>3, <2>4 DEF SwitchOK
<1> QED BY <1>10, <1>11, <1>12, <1>13, <1>14, <1>15, <1>16 DEF MergeInv

(* cur_loc is the first location after the pages of npoints ids.           *)
LEMMA NewTail ==
  ASSUME NEW np \in Nat, np <= Tail
  PROVE  LET tail == ((np + NodesPerPage - 1) \div NodesPerPage) * NodesPerPage
         IN  tail \in 0 .. Tail /\ tail >= np /\ tail < np + NodesPerPage
<1> DEFINE n == NodesPerPage
           x == np + n - 1
           q == x \div n
<1>1. n \in Nat \ {0} /\ x \in Nat /\ Tail \in Nat
  BY Sizes
<1>2. q \in Nat /\ n * q <= x /\ x < n * q + n /\ q * n = n * q
  BY <1>1, DivBounds
<1>3. PICK m \in Nat : Tail = n * m
  BY MergeAssumption, Sizes, MultipleOf
<1>4. q <= m
  <2> HIDE DEF q
  <2> SUFFICES ASSUME m + 1 <= q PROVE FALSE
    BY <1>2
  <2>1. n * (m + 1) <= n * q
    BY <1>1, <1>2, MulMonotone
  <2>2. n * (m + 1) = n * m + n
    BY <1>1
  <2> QED BY <1>1, <1>2, <1>3, <2>1, <2>2
<1>5. n * q <= n * m
  BY <1>1, <1>2, <1>4, MulMonotone
<1>6. n * q \in Nat
  BY <1>1, <1>2
<1> HIDE DEF q
<1>7. q * n \in 0 .. Tail /\ q * n >= np /\ q * n < np + n
  BY <1>1, <1>2, <1>3, <1>5, <1>6
<1> QED BY <1>7 DEF q

(* The new file is opened.                                                 *)
LEMMA ReloadInv ==
  ASSUME MergeInv, Reload
  PROVE  MergeInv'
<1> DEFINE tail == ((npoints + NodesPerPage - 1) \div NodesPerPage) * NodesPerPage
<1>1. /\ pc = "reload" /\ pc' = "done" /\ file' = out /\ cur_loc' = tail
      /\ loc2id' = [l \in Locs |-> IF l \in npoints .. tail - 1 THEN Invalid ELSE loc2id[l]]
      /\ empty_pages' = {}
      /\ UNCHANGED <<id2loc, npoints, entry_point, tags, bg, bg_buf, loop, maps, window,
                     reader, nbr_handler, deleted>>
  BY DEF Reload
<1>2. npoints \in Nat /\ npoints <= NIds /\ npoints <= Tail
  BY Sizes DEF MergeInv, TypeOK
<1>3. tail \in 0 .. Tail /\ tail >= npoints /\ tail < npoints + NodesPerPage
  BY <1>2, NewTail
<1> HIDE DEF tail
<1>4. /\ loc2id' \in [Locs -> Ids \cup {Invalid}]
      /\ \A l \in npoints .. tail - 1 : loc2id'[l] = Invalid
      /\ \A i \in 0 .. npoints - 1 : loc2id'[i] = loc2id[i]
  <2>1. ASSUME NEW l \in npoints .. tail - 1 PROVE l \in Locs
    BY <1>2, <1>3, Sizes DEF Locs
  <2>2. ASSUME NEW i \in 0 .. npoints - 1 PROVE i \in Locs /\ i \notin npoints .. tail - 1
    BY <1>2, <1>3, Sizes DEF Locs
  <2>3. loc2id \in [Locs -> Ids \cup {Invalid}]
    BY DEF MergeInv, TypeOK
  <2> QED BY <1>1, <2>1, <2>2, <2>3
<1>5. loc_st = 0 /\ rbuf = NoRecords /\ done = {} /\ wb_id = n_used_id
  BY <1>1 DEF MergeInv, LoopOK, CountOK
<1>6. Populated = Ids /\ Populated' = Ids /\ Merged = Ids /\ Merged' = Ids /\ NewId' = NewId
  BY <1>1 DEF Populated, Merged, NewId, maps
<1>7. TypeOK'
  <2>1. DOMAIN rbuf' = {}
    BY <1>1, <1>5 DEF NoRecords, loop
  <2> QED BY <1>1, <1>3, <1>4, <2>1 DEF MergeInv, TypeOK, Phases, loop, maps, window, reader
<1>8. TablesOK' /\ Ordered'
  BY <1>1 DEF TablesOK, Ordered, Old
<1>9. HandlerOK'
  BY <1>1 DEF MergeInv, HandlerOK
<1>10. LoopOK'
  BY <1>1, <1>5 DEF LoopOK, loop
<1>11. MapsOK'
  BY <1>1, <1>6 DEF MergeInv, MapsOK, Numbers, maps, Live
<1>12. CountOK'
  BY <1>1, <1>5, <1>6 DEF MergeInv, CountOK, window, TypeOK
<1>13. SwitchOK'
  BY <1>1, <1>4, <1>6 DEF MergeInv, SwitchOK, Old, maps, Live
<1>14. TailOK'
  BY <1>1, <1>3, <1>4 DEF TailOK
<1> QED BY <1>7, <1>8, <1>9, <1>10, <1>11, <1>12, <1>13, <1>14 DEF MergeInv

(* MergeInv is inductive.                                                  *)
LEMMA NextInv == MergeInv /\ [Next]_vars => MergeInv'
<1> SUFFICES ASSUME MergeInv, [Next]_vars PROVE MergeInv'
  OBVIOUS
<1>1. CASE BgPop \/ BgFinish
  BY <1>1, BackgroundInv
<1>2. CASE SearchStep
  BY <1>2, SearchInv
<1>3. CASE ReadBatch
  BY <1>3, ReadBatchInv
<1>4. ASSUME NEW l \in Locs, Populate(l) PROVE MergeInv'
  BY <1>4, PopulateInv
<1>5. ASSUME NEW l \in Locs, Merge(l) PROVE MergeInv'
  BY <1>5, MergeRecordInv
<1>6. CASE EndPopulate
  BY <1>6, EndPopulateInv
<1>7. CASE EndMerge
  BY <1>7, EndMergeInv
<1>8. CASE Flush
  BY <1>8, FlushInv
<1>9. CASE CrashEntry \/ Shuffle \/ WaitForBackground
  BY <1>9, PhaseInv
<1>10. CASE ChooseEntry
  BY <1>10, ChooseEntryInv
<1>11. CASE Commit
  BY <1>11, CommitInv
<1>12. CASE Reload
  BY <1>12, ReloadInv
<1>13. CASE UNCHANGED vars
  <2>1. Batch' = Batch
    BY <1>13 DEF vars, Batch, tables, loop
  <2>2. TypeOK'
    BY <1>13, <2>1 DEF MergeInv, TypeOK, vars, tables, bgVars, loop, maps, window, reader
  <2> QED BY <1>13, <2>2, Frame DEF MergeInv, vars, window
<1> QED
  BY <1>1, <1>2, <1>3, <1>4, <1>5, <1>6, <1>7, <1>8, <1>9, <1>10, <1>11, <1>12, <1>13
     DEF Next, MergeStep

(* The inductive invariant holds in every state of a merge.                *)
THEOREM Invariance == Spec => []MergeInv
  BY InitInv, NextInv, PTL DEF Spec

(* Every variable keeps its type: in particular the new ids are ids, and   *)
(* the ring of two batches is never indexed outside.                       *)
THEOREM TypeCorrect == Spec => []TypeOK
<1>1. MergeInv => TypeOK
  BY DEF MergeInv
<1> QED BY <1>1, Invariance, PTL

-----------------------------------------------------------------------------
(* The new index, for any sizes of chunks and batches and whatever the     *)
(* background thread still has to write.                                   *)

(* The records in the ring and in the new file have lists of new ids, no   *)
(* longer than R; none is made before all live nodes are numbered.         *)
Slots == 0 .. 2 * LocPerMerge - 1
ListOf(r) ==
  /\ r.nbrs \subseteq {id_map[v] : v \in Live}
  /\ Cardinality(r.nbrs) <= R
ListsOK ==
  /\ \A s \in Slots : ListOf(wbuf[s])
  /\ \A l \in Locs : ListOf(out[l])
  /\ pc \in {"wait", "populate"} =>
       (\A s \in Slots : wbuf[s] = Blank) /\ (\A l \in Locs : out[l] = Blank)

(* A record without neighbours has a list of new ids.                      *)
LEMMA BlankList == Blank.nbrs = {} /\ Cardinality(Blank.nbrs) <= R
<1>1. Blank.nbrs = {}
  BY DEF Blank
<1> QED BY <1>1, FS_EmptySet, Sizes

(* Nothing has been written at the start.                                  *)
LEMMA InitLists == Init => ListsOK
<1> SUFFICES ASSUME Init PROVE ListsOK
  OBVIOUS
<1>1. (\A s \in Slots : wbuf[s] = Blank) /\ \A l \in Locs : out[l] = Blank
  BY DEF Init, Slots
<1> QED BY <1>1, BlankList DEF ListsOK, ListOf

(* The new ids of a set of live nodes are as many as these at most.        *)
LEMMA MappedList ==
  ASSUME MergeInv, NEW s, s \subseteq Live, Cardinality(s) <= R
  PROVE  /\ {id_map[i] : i \in s} \subseteq {id_map[v] : v \in Live}
         /\ Cardinality({id_map[i] : i \in s}) <= R
<1> DEFINE T == {id_map[i] : i \in s}
           f == [i \in s |-> id_map[i]]
<1>1. T \subseteq {id_map[v] : v \in Live}
  OBVIOUS
<1>2. IsFiniteSet(s) /\ Cardinality(s) \in Nat
  BY IdsFinite DEF Live
<1>3. f \in Surjection(s, T)
  BY DEF Surjection
<1> HIDE DEF f, T
<1>4. Cardinality(T) <= Cardinality(s) /\ IsFiniteSet(T)
  BY ONLY <1>2, <1>3, FS_Surjection
<1>5. Cardinality(T) \in Nat
  BY <1>4, FS_CardinalityType
<1>6. Cardinality(T) <= R
  BY <1>2, <1>4, <1>5, Sizes
<1> QED BY <1>1, <1>6 DEF T

(* A thread puts a repaired list in the ring.                              *)
LEMMA MergeLists ==
  ASSUME MergeInv, ListsOK, NEW l \in Locs, Merge(l)
  PROVE  ListsOK'
<1> DEFINE slot == id_map[loc2id[l]] % (2 * LocPerMerge)
<1>1. /\ pc = "merge" /\ rbuf # NoRecords /\ l \in Todo
      /\ UNCHANGED <<id_map, out, deleted, pc>>
  BY DEF Merge, maps
<1>2. CASE wbuf' = wbuf
  BY <1>1, <1>2 DEF ListsOK, ListOf, Live
<1>3. ASSUME NEW s \in Pruned(Repaired(l)),
             wbuf' = [wbuf EXCEPT ![slot] = [vec |-> rbuf[l].vec, nbrs |-> {id_map[i] : i \in s}]]
      PROVE  ListsOK'
  <2> DEFINE T == {id_map[i] : i \in s}
  <2>1. T \subseteq {id_map[v] : v \in Live} /\ Cardinality(T) <= R
    BY <1>1, RepairedLive, MappedList
  <2>2. DOMAIN wbuf = Slots
    BY DEF MergeInv, TypeOK, Slots
  <2>3. ASSUME NEW x \in Slots PROVE wbuf'[x] = wbuf[x] \/ wbuf'[x].nbrs = T
    BY <1>3, <2>2
  <2> HIDE DEF T
  <2>4. ASSUME NEW x \in Slots PROVE ListOf(wbuf'[x])
    BY <2>1, <2>3 DEF ListsOK, ListOf
  <2> QED BY <1>1, <2>4 DEF ListsOK, ListOf, Live
<1> QED BY <1>2, <1>3 DEF Merge, Renumbered

(* write_back() takes the records of the new file from the ring.           *)
LEMMA WriteBackLists ==
  ASSUME MergeInv, ListsOK, wb_id < n_used_id, \E k \in Nat : wb_id = LocPerMerge * k, WriteBack,
         UNCHANGED <<id_map, deleted, wbuf>>, pc' \notin {"wait", "populate"}
  PROVE  ListsOK'
<1>1. \A l \in Locs : out'[l] = out[l] \/ \E s \in Slots : out'[l] = wbuf[s]
  BY WrittenBack DEF Slots
<1> QED BY <1>1 DEF ListsOK, ListOf, Live

(* Every list that step 2 makes is one of new ids.                         *)
LEMMA NextLists ==
  ASSUME MergeInv, ListsOK, [Next]_vars
  PROVE  ListsOK'
<1>1. ASSUME UNCHANGED <<id_map, deleted, wbuf, out>>, pc' \in {"wait", "populate"} => pc \in {"wait", "populate"}
      PROVE  ListsOK'
  BY <1>1 DEF ListsOK, ListOf, Live
<1>2. ASSUME NEW l \in Locs, Populate(l) PROVE ListsOK'
  <2>1. pc = "populate" /\ UNCHANGED <<wbuf, out, pc>>
    BY <1>2 DEF Populate, window
  <2>2. (\A s \in Slots : wbuf'[s] = Blank) /\ (\A m \in Locs : out'[m] = Blank)
    BY <2>1 DEF ListsOK
  <2> QED BY <2>2, BlankList DEF ListsOK, ListOf
<1>3. ASSUME NEW l \in Locs, Merge(l) PROVE ListsOK'
  BY <1>3, MergeLists
<1>4. CASE EndMerge
  <2>1. /\ pc = "merge" /\ pc' \notin {"wait", "populate"}
        /\ UNCHANGED <<id_map, deleted, wbuf>>
    BY <1>4 DEF EndMerge, maps
  <2>2. CASE n_used_id - wb_id >= LocPerMerge /\ WriteBack
    <3>1. wb_id < n_used_id /\ \E k \in Nat : wb_id = LocPerMerge * k
      BY <2>1, <2>2, Sizes DEF MergeInv, TypeOK, CountOK
    <3> QED BY <2>1, <2>2, <3>1, WriteBackLists
  <2>3. CASE UNCHANGED <<out, wb_id>>
    BY <1>1, <2>1, <2>3
  <2> QED BY <1>4, <2>2, <2>3 DEF EndMerge
<1>5. CASE Flush
  <2>1. /\ pc' \notin {"wait", "populate"} /\ wb_id < n_used_id /\ WriteBack
        /\ UNCHANGED <<id_map, deleted, wbuf>>
    BY <1>5 DEF Flush, maps
  <2>2. \E k \in Nat : wb_id = LocPerMerge * k
    BY <2>1 DEF MergeInv, CountOK
  <2> QED BY <2>1, <2>2, WriteBackLists
<1>6. CASE WaitForBackground \/ ReadBatch \/ EndPopulate
  BY <1>1, <1>6 DEF WaitForBackground, ReadBatch, EndPopulate, maps, window
<1>7. CASE Shuffle \/ ChooseEntry \/ CrashEntry \/ Commit \/ Reload
  BY <1>1, <1>7 DEF Shuffle, ChooseEntry, CrashEntry, Commit, Reload, maps, window
<1>8. CASE SearchStep \/ BgPop \/ BgFinish \/ UNCHANGED vars
  BY <1>1, <1>8 DEF SearchStep, SearchBegin, SearchRead, SearchEnd, BgPop, BgFinish, vars,
                    maps, window
<1> QED BY <1>2, <1>3, <1>4, <1>5, <1>6, <1>7, <1>8 DEF Next, MergeStep

(* From the switch on the renumbering is sound: an id for every live       *)
(* vector, whose tag and code are of that vector, lists of new ids that    *)
(* are not longer than R, and an entry point among the new ids.            *)
THEOREM NumberingAlwaysSound == Spec => []NumberingSound
<1>1. MergeInv /\ ListsOK => NumberingSound
  <2> SUFFICES ASSUME MergeInv, ListsOK, pc \in {"reload", "done"}
               PROVE  /\ npoints = Cardinality(Ids \ deleted)
                      /\ DOMAIN tags = 0 .. npoints - 1
                      /\ {tags[i] : i \in DOMAIN tags} = Ids \ deleted
                      /\ \A i \in DOMAIN tags : nbr_handler.codes[i] = tags[i]
                      /\ \A l \in Locs : out[l].nbrs \subseteq DOMAIN tags /\ Cardinality(out[l].nbrs) <= R
                      /\ entry_point \in DOMAIN tags
    BY DEF NumberingSound
  <2>1. /\ DOMAIN id_map = Live /\ npoints = NewId /\ DOMAIN tags = 0 .. npoints - 1
        /\ Numbers(id_map, NewId) /\ entry_point < npoints
        /\ \A v \in Live : tags[id_map[v]] = v /\ nbr_handler.codes[id_map[v]] = v
    BY DEF MergeInv, MapsOK, Populated, Live, SwitchOK, Old
  <2>2. npoints = Cardinality(Ids \ deleted) /\ npoints \in Nat
    BY <2>1, IdsFinite DEF NewId, Live
  <2>3. \A v \in Live : id_map[v] \in DOMAIN tags
    BY <2>1 DEF Numbers
  <2>4. \A i \in DOMAIN tags : \E v \in Live : id_map[v] = i
    BY <2>1 DEF Numbers
  <2>5. {tags[i] : i \in DOMAIN tags} = Live
    BY <2>1, <2>3, <2>4
  <2>6. \A i \in DOMAIN tags : nbr_handler.codes[i] = tags[i]
    BY <2>1, <2>4
  <2>7. ASSUME NEW l \in Locs
        PROVE  out[l].nbrs \subseteq DOMAIN tags /\ Cardinality(out[l].nbrs) <= R
    BY <2>3 DEF ListsOK, ListOf
  <2>8. entry_point \in DOMAIN tags
    BY <2>1, <2>2, Sizes DEF MergeInv, TypeOK
  <2> QED BY <2>1, <2>2, <2>5, <2>6, <2>7, <2>8 DEF Live
<1> QED BY <1>1, InitInv, NextInv, InitLists, NextLists, PTL DEF Spec

(* Once reloaded, the tables below the new tail are those of a freshly     *)
(* loaded index: every id is at the location of its number, the rest of    *)
(* the last page is free, and no page is queued as empty.                  *)
THEOREM TablesAlwaysRenewed == Spec => []TablesRenewed
<1>1. MergeInv => TablesRenewed
  <2> SUFFICES ASSUME MergeInv, pc = "done"
               PROVE  /\ cur_loc >= npoints /\ cur_loc < npoints + NodesPerPage
                      /\ \A i \in 0 .. npoints - 1 : id2loc[i] = i /\ loc2id[i] = i
                      /\ \A l \in npoints .. cur_loc - 1 : loc2id[l] = Invalid
                      /\ \A l \in Locs : PageOf(l) \in empty_pages => loc2id[l] = Invalid /\ l < cur_loc
    BY DEF TablesRenewed
  <2>1. \A i \in 0 .. npoints - 1 : id2loc[i] = i /\ loc2id[i] = i
    BY DEF MergeInv, SwitchOK, Old
  <2> QED BY <2>1 DEF MergeInv, TailOK
<1> QED BY <1>1, Invariance, PTL

-----------------------------------------------------------------------------
(* What the merge reads, with an idle background thread.                   *)

(* At the start the file has the records of the index.                     *)
LEMMA InitFile ==
  ASSUME BackgroundIdle, Init
  PROVE  FileOK
<1>1. bg = "none"
  BY DEF Init, BackgroundIdle
<1>2. PICK g \in Graphs :
        LET new == [l \in Locs |-> IF loc2id[l] = Invalid THEN Blank
                                   ELSE [vec |-> loc2id[l], nbrs |-> g[loc2id[l]]]]
            due == {l \in Locs : bg = "queued" /\ PageOf(l) = PageOf(id2loc[NIds - 1])}
        IN  /\ file = [l \in Locs |-> IF l \in due THEN Blank ELSE new[l]]
            /\ bg_buf = [l \in due |-> new[l]]
  BY DEF Init
<1>3. {l \in Locs : bg = "queued" /\ PageOf(l) = PageOf(id2loc[NIds - 1])} = {}
  BY <1>1
<1>4. DOMAIN bg_buf = {}
  BY <1>2, <1>3
<1>5. ASSUME NEW l \in Locs, loc2id[l] # Invalid PROVE file[l].vec = loc2id[l]
  <2>1. file[l] = [vec |-> loc2id[l], nbrs |-> g[loc2id[l]]]
    BY <1>2, <1>3, <1>5
  <2> QED BY <2>1
<1>6. pc = "wait" /\ DOMAIN rbuf = {}
  BY DEF Init, NoRecords
<1> QED BY <1>1, <1>4, <1>5, <1>6 DEF FileOK, ReadsCurrent

(* No step changes the file before the new one is opened, and no step      *)
(* changes that.                                                           *)
LEMMA NextFile ==
  ASSUME MergeInv, FileOK, [Next]_vars
  PROVE  FileOK'
<1>1. bg = "none" /\ ~BgPop /\ ~BgFinish
  BY DEF FileOK, BgPop, BgFinish
<1>2. CASE ReadBatch
  <2>1. /\ Old /\ rbuf' = [l \in Batch |-> file[l]]
        /\ UNCHANGED <<loc2id, file, bg, bg_buf, out, pc>>
    BY <1>2 DEF ReadBatch, Old, tables, bgVars, window
  <2>2. Batch \subseteq Locs
    BY BatchIs, Sizes DEF MergeInv, TypeOK, Locs
  <2>3. ReadsCurrent'
    BY <2>1, <2>2 DEF FileOK, ReadsCurrent
  <2> QED BY <2>1, <2>3 DEF FileOK, Old
<1>3. CASE Commit \/ Reload
  <2>1. rbuf = NoRecords /\ rbuf' = rbuf /\ bg' = bg /\ bg_buf' = bg_buf /\ ~Old'
        /\ (pc' = "done" => file' = out /\ out' = out)
    BY <1>3 DEF Commit, Reload, MergeInv, LoopOK, loop, bgVars, Old, window
  <2>2. DOMAIN rbuf' = {}
    BY <2>1 DEF NoRecords
  <2> QED BY <2>1, <2>2 DEF FileOK, ReadsCurrent
<1>4. CASE ~ReadBatch /\ ~Commit /\ ~Reload
  <2>1. /\ UNCHANGED <<file, bg, bg_buf, loc2id>>
        /\ rbuf' = rbuf \/ rbuf' = NoRecords
        /\ pc' = pc \/ (pc # "done" /\ pc' # "done")
        /\ pc = "done" => out' = out
        /\ Old' => Old
    <3>1. CASE SearchStep
      BY <3>1 DEF SearchStep, SearchBegin, SearchRead, SearchEnd, tables, bgVars, loop, window, Old
    <3>2. ASSUME NEW l \in Locs, Populate(l) \/ Merge(l)
          PROVE  /\ UNCHANGED <<file, bg, bg_buf, loc2id, rbuf, pc>>
                 /\ pc # "done" /\ (Old' => Old)
      BY <3>2 DEF Populate, Merge, tables, bgVars, Old
    <3>3. CASE EndPopulate \/ EndMerge \/ Flush
      BY <3>3 DEF EndPopulate, EndMerge, Flush, tables, bgVars, loop, Old
    <3>4. CASE WaitForBackground \/ Shuffle \/ ChooseEntry \/ CrashEntry
      BY <3>4 DEF WaitForBackground, Shuffle, ChooseEntry, CrashEntry, tables, bgVars, loop, Old
    <3>5. CASE UNCHANGED vars
      BY <3>5 DEF vars, tables, bgVars, loop, window, Old
    <3> QED BY <1>1, <1>4, <3>1, <3>2, <3>3, <3>4, <3>5 DEF Next, MergeStep
  <2>2. ReadsCurrent'
    <3>1. CASE rbuf' = rbuf
      BY <2>1, <3>1 DEF FileOK, ReadsCurrent
    <3>2. CASE rbuf' = NoRecords
      BY <3>2 DEF ReadsCurrent, NoRecords
    <3> QED BY <2>1, <3>1, <3>2
  <2> QED BY <2>1, <2>2 DEF FileOK
<1> QED BY <1>2, <1>3, <1>4

-----------------------------------------------------------------------------
(* The ring of two batches, when a batch is a whole number of chunks.      *)

(* The live ids before a boundary of chunks have the numbers from 0 on.    *)
LEMMA IdsBefore ==
  ASSUME MergeInv, pc = "merge", NEW k \in Nat
  PROVE  LET S == {v \in Live : id2loc[v] < LocPerPopulate * k}
         IN  /\ Cardinality(S) \in Nat
             /\ \A v \in Live : id_map[v] < Cardinality(S) <=> v \in S
<1> DEFINE S == {v \in Live : id2loc[v] < LocPerPopulate * k}
           T == {id_map[v] : v \in S}
           f == [v \in S |-> id_map[v]]
<1>1. DOMAIN id_map = Live /\ Numbers(id_map, NewId) /\ NewId \in Nat /\ id2loc \in [Ids -> Locs]
      /\ \A u, v \in DOMAIN id_map : \A j \in Nat :
           id2loc[u] < LocPerPopulate * j /\ LocPerPopulate * j <= id2loc[v]
             => id_map[u] < id_map[v]
  BY IdsFinite DEF MergeInv, MapsOK, Populated, Live, NewId, TypeOK, Ordered
<1>2. S \subseteq Live /\ Live \subseteq Ids /\ LocPerPopulate * k \in Nat
      /\ \A v \in Live : id2loc[v] \in Nat /\ id_map[v] \in 0 .. NewId - 1
  BY <1>1, Sizes DEF Live, Numbers
<1>3. IsFiniteSet(S) /\ Cardinality(S) \in Nat
  BY <1>2, IdsFinite
<1>4. T \subseteq 0 .. NewId
  BY <1>1, <1>2
<1>5. ASSUME NEW x \in T, NEW y \in 0 .. x PROVE y \in T
  <2>1. PICK u \in S : x = id_map[u]
    OBVIOUS
  <2>2. y \in 0 .. NewId - 1
    BY <1>1, <1>2, <2>1
  <2>3. PICK v \in Live : id_map[v] = y
    BY <1>1, <2>2 DEF Numbers
  <2>4. v \in S
    <3> SUFFICES ASSUME LocPerPopulate * k <= id2loc[v] PROVE FALSE
      BY <1>2
    <3>1. id2loc[u] < LocPerPopulate * k
      OBVIOUS
    <3>2. x < y
      BY ONLY <1>1, <1>2, <2>1, <2>3, <3>1, LocPerPopulate * k <= id2loc[v], k \in Nat
    <3> QED BY <1>1, <1>2, <2>1, <2>3, <3>2
  <2> QED BY <2>3, <2>4
<1>6. IsFiniteSet(T) /\ Cardinality(T) \in Nat /\ T = 0 .. Cardinality(T) - 1
  <2> HIDE DEF T
  <2>1. \A x \in T : \A y \in 0 .. x : y \in T
    BY <1>5
  <2> QED BY ONLY <1>1, <1>4, <2>1, InitialSegment
<1>7. Cardinality(T) = Cardinality(S)
  <2>1. f \in Bijection(S, T)
    <3>1. f \in [S -> T]
      OBVIOUS
    <3>2. \A u, v \in S : f[u] = f[v] => u = v
      BY <1>1, <1>2 DEF Numbers
    <3>3. \A t \in T : \E s \in S : f[s] = t
      OBVIOUS
    <3>4. DOMAIN f = S
      OBVIOUS
    <3> HIDE DEF f, S, T
    <3> QED BY ONLY <3>1, <3>2, <3>3, <3>4 DEF Bijection, Injection, Surjection, IsInjective
  <2> HIDE DEF f, S, T
  <2>2. ExistsBijection(S, T)
    BY <2>1 DEF ExistsBijection
  <2> QED BY ONLY <1>3, <2>2, FS_Bijection
<1>8. ASSUME NEW v \in Live PROVE id_map[v] < Cardinality(S) <=> v \in S
  <2>1. id_map[v] < Cardinality(S) <=> id_map[v] \in T
    <3> HIDE DEF T, S
    <3> QED BY <1>1, <1>2, <1>3, <1>6, <1>7
  <2>2. id_map[v] \in T <=> v \in S
    <3>1. ASSUME id_map[v] \in T PROVE v \in S
      <4>1. PICK u \in S : id_map[u] = id_map[v]
        BY <3>1
      <4> QED BY <1>1, <1>2, <4>1 DEF Numbers
    <3> QED BY <3>1
  <2> QED BY <2>1, <2>2
<1> QED BY <1>3, <1>8

(* A batch of locations has at most a batch of new ids, which follow those *)
(* of the batches before it.                                               *)
InBatches == {v \in Live : id2loc[v] < loc_st + LocPerMerge}
LEMMA BatchIds ==
  ASSUME WholeChunks, MergeInv, pc = "merge"
  PROVE  /\ Cardinality(Earlier) \in Nat /\ Cardinality(InBatches) \in Nat
         /\ Cardinality(InBatches) <= Cardinality(Earlier) + LocPerMerge
         /\ \A v \in Live : id_map[v] < Cardinality(Earlier) <=> v \in Earlier
         /\ \A v \in Live : id_map[v] < Cardinality(InBatches) <=> v \in InBatches
<1>1. PICK c \in Nat : LocPerMerge = LocPerPopulate * c
  BY DEF WholeChunks
<1>2. PICK k \in Nat : loc_st = LocPerMerge * k
  BY DEF MergeInv, LoopOK
<1>3. c * k \in Nat /\ c * (k + 1) \in Nat
  OBVIOUS
<1>4. loc_st = LocPerPopulate * (c * k) /\ loc_st + LocPerMerge = LocPerPopulate * (c * (k + 1))
  BY <1>1, <1>2, Sizes
<1>5. Earlier = {v \in Live : id2loc[v] < LocPerPopulate * (c * k)}
      /\ InBatches = {v \in Live : id2loc[v] < LocPerPopulate * (c * (k + 1))}
  BY <1>4 DEF Earlier, InBatches
<1>6. Cardinality(Earlier) \in Nat
      /\ \A v \in Live : id_map[v] < Cardinality(Earlier) <=> v \in Earlier
  BY <1>3, <1>5, IdsBefore
<1>7. Cardinality(InBatches) \in Nat
      /\ \A v \in Live : id_map[v] < Cardinality(InBatches) <=> v \in InBatches
  BY <1>3, <1>5, IdsBefore
<1>8. Cardinality(InBatches) <= Cardinality(Earlier) + LocPerMerge
  <2> DEFINE X == InBatches \ Earlier
             T == loc_st .. loc_st + LocPerMerge - 1
             f == [v \in X |-> id2loc[v]]
  <2>1. loc_st \in Nat /\ loc_st + LocPerMerge - 1 \in Int /\ LocPerMerge \in Nat /\ LocPerMerge > 0
    BY Sizes DEF MergeInv, TypeOK
  <2>2. IsFiniteSet(T) /\ Cardinality(T) = LocPerMerge
    BY <2>1, FS_Interval
  <2>3. f \in Injection(X, T)
    <3>1. \A v \in X : v \in Ids /\ id2loc[v] \in Nat /\ ~(id2loc[v] < loc_st) /\ id2loc[v] < loc_st + LocPerMerge
      BY Sizes DEF InBatches, Earlier, Live, MergeInv, TypeOK
    <3>2. f \in [X -> T]
      BY <2>1, <3>1
    <3>3. \A u, v \in X : f[u] = f[v] => u = v
      BY <3>1 DEF MergeInv, TablesOK, Old
    <3>4. DOMAIN f = X
      OBVIOUS
    <3> HIDE DEF f, X, T
    <3> QED BY ONLY <3>2, <3>3, <3>4 DEF Injection, IsInjective
  <2>4. IsFiniteSet(X) /\ Cardinality(X) <= Cardinality(T)
    <3> HIDE DEF f, X, T
    <3> QED BY ONLY <2>2, <2>3, FS_Injection
  <2>5. IsFiniteSet(Earlier) /\ Earlier \subseteq InBatches
    <3>1. Earlier \in SUBSET Ids
      BY DEF Earlier, Live
    <3>2. \A v \in Earlier : id2loc[v] < loc_st + LocPerMerge
      <4>1. \A v \in Earlier : id2loc[v] \in Nat /\ id2loc[v] < loc_st
        BY Sizes DEF Earlier, Live, MergeInv, TypeOK
      <4> QED BY ONLY <2>1, <4>1
    <3> QED BY <3>1, <3>2, IdsFinite DEF Earlier, InBatches
  <2>6. InBatches = Earlier \cup X /\ Earlier \cap X = {}
    BY <2>5
  <2>7. Cardinality(X) \in Nat
    BY <2>4, FS_CardinalityType
  <2>8. Cardinality(InBatches) = Cardinality(Earlier) + Cardinality(X)
    <3> HIDE DEF X
    <3>1. Cardinality(Earlier \cup X) = Cardinality(Earlier) + Cardinality(X) - Cardinality(Earlier \cap X)
      BY <2>4, <2>5, FS_Union
    <3> QED BY <3>1, <1>6, <2>6, <2>7, FS_EmptySet
  <2> HIDE DEF X, T
  <2> QED BY ONLY <1>6, <2>1, <2>2, <2>4, <2>7, <2>8
<1> QED BY <1>6, <1>7, <1>8

(* The record of an id goes to a slot that holds no record still needed.   *)
LEMMA MergeRecordKept ==
  ASSUME WholeChunks, MergeInv, FileOK, WindowOK, KeptOK, NEW l \in Locs, Merge(l)
  PROVE  WindowOK' /\ KeptOK'
<1> DEFINE id == loc2id[l]
           ring == 2 * LocPerMerge
           slot == id_map[id] % ring
<1>1. /\ pc = "merge" /\ rbuf # NoRecords /\ l \in Todo /\ done' = done \cup {l}
      /\ UNCHANGED <<id2loc, loc2id, loc_st, id_map, wb_id, out, deleted, pc>>
  BY DEF Merge, tables, maps
<1>2. /\ l \in Batch /\ loc_st <= l /\ l < loc_st + LocPerMerge /\ id \in Ids /\ id2loc[id] = l
      /\ {i \in Ids : id2loc[i] < loc_st \/ id2loc[i] \in done \cup {l}} = Reached \cup {id}
  BY <1>1, NextReached DEF Size
<1>3. Merged = Reached /\ Merged' = Reached \cup {id} /\ Earlier' = Earlier /\ Live' = Live
  BY <1>1, <1>2 DEF Merged, Reached, Earlier, Live
<1>4. WindowOK'
  BY <1>1, <1>3 DEF WindowOK
<1>5. /\ Cardinality(Earlier) \in Nat /\ Cardinality(InBatches) \in Nat
      /\ Cardinality(InBatches) <= Cardinality(Earlier) + LocPerMerge
      /\ \A v \in Live : id_map[v] < Cardinality(Earlier) <=> v \in Earlier
      /\ \A v \in Live : id_map[v] < Cardinality(InBatches) <=> v \in InBatches
      /\ wb_id <= Cardinality(Earlier) /\ Cardinality(Earlier) <= wb_id + LocPerMerge
      /\ wb_id \in Nat
  BY <1>1, BatchIds, Sizes DEF WindowOK, MergeInv, TypeOK
<1>6. DOMAIN id_map = Live /\ Numbers(id_map, NewId) /\ \A v \in Live : id_map[v] \in Nat /\ v \in Ids
  <2>1. DOMAIN id_map = Live /\ Numbers(id_map, NewId) /\ Live \subseteq Ids
    BY <1>1 DEF MergeInv, MapsOK, Populated, Live
  <2>2. \A v \in Live : id_map[v] \in Nat
    BY <2>1 DEF Numbers
  <2> QED BY <2>1, <2>2
<1>7. ring \in Nat \ {0} /\ wb_id + ring = wb_id + LocPerMerge + LocPerMerge
  BY <1>5, Sizes
<1>8. \A v \in Reached : id2loc[v] < loc_st + LocPerMerge
  <2>1. cur_loc = Tail /\ loc_st \in Nat /\ done \subseteq Batch /\ Size = LocPerMerge
        /\ id2loc \in [Ids -> Locs]
    BY <1>1, Sizes DEF MergeInv, TypeOK, TablesOK, LoopOK, Old, Size
  <2>2. \A m \in Batch : m < loc_st + LocPerMerge
    BY <2>1, BatchIs, Sizes
  <2> QED BY <2>1, <2>2, Sizes DEF Reached
<1>9. CASE id \in deleted
  <2>1. wbuf' = wbuf /\ Merged' \ deleted = Merged \ deleted
    BY <1>1, <1>3, <1>9 DEF Merge
  <2>2. \A v \in Merged' \ deleted :
          IF id_map[v] < wb_id THEN RecordOf(out[id_map[v]], v)
          ELSE RecordOf(wbuf[id_map[v] % ring], v)
    BY <2>1 DEF KeptOK
  <2>3. KeptOK'
    BY <1>1, <1>3, <2>1, <2>2 DEF KeptOK, RecordOf
  <2> QED BY <1>4, <2>3
<1>10. CASE id \notin deleted
  <2>1. PICK s \in Pruned(Repaired(l)) :
          wbuf' = [wbuf EXCEPT ![slot] = [vec |-> rbuf[l].vec, nbrs |-> {id_map[i] : i \in s}]]
    BY <1>1, <1>10 DEF Merge, Renumbered
  <2>2. id \in Live /\ id_map[id] \in Nat /\ wb_id <= id_map[id] /\ id_map[id] < wb_id + ring
    <3>1. id \in Live /\ id \notin Earlier /\ id \in InBatches
      BY <1>2, <1>10, Sizes DEF Live, Earlier, InBatches, MergeInv, TypeOK
    <3>2. ~(id_map[id] < Cardinality(Earlier)) /\ id_map[id] < Cardinality(InBatches)
          /\ id_map[id] \in Nat
      BY <1>5, <1>6, <3>1
    <3> HIDE DEF id, ring
    <3> QED BY ONLY <1>5, <1>7, <3>1, <3>2, Sizes
  <2>3. slot \in 0 .. ring - 1 /\ wbuf \in [0 .. ring - 1 -> Record]
    <3>1. wbuf \in [0 .. ring - 1 -> Record]
      BY DEF MergeInv, TypeOK
    <3>2. id_map[id] % ring \in 0 .. ring - 1
      BY <1>7, <2>2
    <3> QED BY <3>1, <3>2
  <2>4. ASSUME NEW v \in (Merged \ deleted) \ {id}, ~(id_map[v] < wb_id)
        PROVE  wbuf'[id_map[v] % ring] = wbuf[id_map[v] % ring]
    <3>1. v \in Live /\ id_map[v] \in Nat /\ v \in InBatches /\ v # id
      BY <1>3, <1>6, <1>8 DEF Live, InBatches, Reached
    <3>2. id_map[v] < Cardinality(InBatches)
      BY <1>5, <3>1
    <3>3. id_map[v] \in wb_id .. wb_id + ring - 1 /\ id_map[id] \in wb_id .. wb_id + ring - 1
      <4> HIDE DEF id, ring
      <4> QED BY ONLY <1>5, <1>7, <2>2, <2>4, <3>1, <3>2, Sizes
    <3>4. id_map[v] # id_map[id]
      BY <1>6, <2>2, <3>1 DEF Numbers
    <3>5. id_map[v] % ring # slot
      <4> HIDE DEF ring
      <4> QED BY <1>5, <1>7, <3>3, <3>4, SlotsDistinct
    <3>6. id_map[v] % ring \in 0 .. ring - 1
      BY <1>7, <3>1
    <3> QED BY <2>1, <2>3, <3>5, <3>6
  <2>5. RecordOf(wbuf'[slot], id)
    <3>1. wbuf'[slot] = [vec |-> rbuf[l].vec, nbrs |-> {id_map[i] : i \in s}]
      BY <2>1, <2>3
    <3>2. rbuf[l].vec = id
      <4>1. l \in DOMAIN rbuf /\ loc2id[l] # Invalid
        BY <1>1, <1>2, Sizes DEF MergeInv, LoopOK
      <4> QED BY <4>1 DEF FileOK, ReadsCurrent
    <3>3. s \subseteq Live \ {id} /\ Cardinality(s) <= R
      BY <1>1, RepairedLive
    <3> DEFINE T == {id_map[i] : i \in s}
               r == wbuf'[slot]
    <3>4. T \subseteq {id_map[u] : u \in Live \ {id}}
      BY <3>3
    <3>5. Cardinality(T) <= R
      <4> DEFINE f == [i \in s |-> id_map[i]]
      <4>1. IsFiniteSet(s) /\ Cardinality(s) \in Nat
        BY <1>6, <3>3, IdsFinite
      <4>2. f \in Surjection(s, T)
        BY DEF Surjection
      <4> HIDE DEF f, T
      <4>3. Cardinality(T) <= Cardinality(s) /\ IsFiniteSet(T)
        BY ONLY <4>1, <4>2, FS_Surjection
      <4>4. Cardinality(T) \in Nat
        BY <4>3, FS_CardinalityType
      <4> QED BY <4>1, <4>3, <4>4, <3>3, Sizes
    <3>6. r.vec = id /\ r.nbrs = T
      BY <3>1, <3>2
    <3> HIDE DEF T, r, id
    <3>7. RecordOf(r, id)
      BY ONLY <3>4, <3>5, <3>6 DEF RecordOf
    <3> QED BY <3>7 DEF r, id
  <2>6. ASSUME NEW v \in Merged' \ deleted
        PROVE  IF id_map[v] < wb_id THEN RecordOf(out[id_map[v]], v)
               ELSE RecordOf(wbuf'[id_map[v] % ring], v)
    <3>1. CASE v = id
      <4>1. ~(id_map[id] < wb_id)
        BY <1>5, <2>2
      <4> QED BY <2>5, <3>1, <4>1
    <3>2. CASE v # id
      <4>1. v \in (Merged \ deleted) \ {id}
        BY <1>3, <3>2
      <4>2. IF id_map[v] < wb_id THEN RecordOf(out[id_map[v]], v)
            ELSE RecordOf(wbuf[id_map[v] % ring], v)
        BY <4>1 DEF KeptOK
      <4> QED BY <2>4, <4>1, <4>2
    <3> QED BY <3>1, <3>2
  <2>7. KeptOK'
    BY <1>1, <1>3, <2>6 DEF KeptOK, RecordOf
  <2> QED BY <1>4, <2>7
<1> QED BY <1>9, <1>10

(* write_back() takes the records from their slots to the file.            *)
LEMMA WriteBackKept ==
  ASSUME MergeInv, KeptOK, wb_id < n_used_id, NEW k \in Nat, wb_id = LocPerMerge * k, WriteBack,
         UNCHANGED <<wbuf, id_map, deleted>>, Merged' \ deleted = Merged \ deleted,
         Merged \ deleted \subseteq DOMAIN id_map
  PROVE  KeptOK'
<1>1. /\ wb_id' \in Nat /\ wb_id < wb_id'
      /\ \A l \in Locs : l < wb_id => out'[l] = out[l]
      /\ \A l \in Locs : wb_id <= l /\ l < wb_id' => out'[l] = wbuf[l % (2 * LocPerMerge)]
  BY WrittenBack
<1>2. Live' = Live /\ wb_id \in Nat
  BY Sizes DEF Live, MergeInv, TypeOK
<1>3. ASSUME NEW v \in Merged \ deleted
      PROVE  IF id_map[v] < wb_id' THEN RecordOf(out'[id_map[v]], v)
             ELSE RecordOf(wbuf[id_map[v] % (2 * LocPerMerge)], v)
  <2>1. id_map[v] \in Locs /\ id_map[v] \in Nat
    BY Sizes DEF MergeInv, TypeOK
  <2>2. IF id_map[v] < wb_id THEN RecordOf(out[id_map[v]], v)
        ELSE RecordOf(wbuf[id_map[v] % (2 * LocPerMerge)], v)
    BY DEF KeptOK
  <2>3. CASE id_map[v] < wb_id
    <3>1. id_map[v] < wb_id' /\ out'[id_map[v]] = out[id_map[v]]
      BY <1>1, <1>2, <2>1, <2>3
    <3> QED BY <2>2, <2>3, <3>1
  <2>4. CASE wb_id <= id_map[v] /\ id_map[v] < wb_id'
    <3>1. ~(id_map[v] < wb_id) /\ out'[id_map[v]] = wbuf[id_map[v] % (2 * LocPerMerge)]
      BY <1>1, <1>2, <2>1, <2>4
    <3> QED BY <2>2, <2>4, <3>1
  <2>5. CASE ~(id_map[v] < wb_id')
    <3>1. ~(id_map[v] < wb_id)
      BY <1>1, <1>2, <2>1, <2>5
    <3> QED BY <2>2, <2>5, <3>1
  <2> QED BY <1>1, <1>2, <2>1, <2>3, <2>4, <2>5
<1> QED BY <1>2, <1>3 DEF KeptOK, RecordOf

(* A step that leaves the ring and the new file alone loses no record.     *)
LEMMA KeptFrame ==
  ASSUME KeptOK, UNCHANGED <<id_map, wbuf, out, wb_id, deleted>>, Merged' = Merged
  PROVE  KeptOK'
<1>1. Live' = Live
  BY DEF Live
<1> QED BY <1>1 DEF KeptOK, RecordOf

(* A full batch is written back, so that the next one fits in the ring.    *)
LEMMA EndMergeKept ==
  ASSUME WholeChunks, MergeInv, WindowOK, KeptOK, EndMerge
  PROVE  WindowOK' /\ KeptOK'
<1> DEFINE last == loc_st + LocPerMerge >= cur_loc
<1>1. /\ pc = "merge" /\ Todo = {}
      /\ loc_st' = IF last THEN 0 ELSE loc_st + LocPerMerge
      /\ pc' = IF last THEN "flush" ELSE "merge"
      /\ done' = {}
      /\ UNCHANGED <<id2loc, id_map, wbuf, n_used_id, deleted>>
  BY DEF EndMerge, tables, maps
<1>2. Size = LocPerMerge /\ DOMAIN id_map = Ids \ deleted /\ Merged = Reached
  BY <1>1 DEF Size, MergeInv, MapsOK, Populated, Merged
<1>3. /\ Reached = {i \in Ids : id2loc[i] < loc_st + LocPerMerge}
      /\ last => Reached = Ids
  BY <1>1, <1>2, EndOfBatch
<1>4. Merged' = Reached
  <2>1. CASE last
    BY <1>1, <1>3, <2>1 DEF Merged
  <2>2. CASE ~last
    BY <1>1, <1>3, <2>2 DEF Merged, Reached
  <2> QED BY <2>1, <2>2
<1>5. n_used_id = Cardinality(InBatches)
  <2>1. Reached \ deleted = InBatches
    BY <1>3 DEF InBatches, Live
  <2> QED BY <1>2, <2>1 DEF MergeInv, CountOK
<1>6. /\ Cardinality(Earlier) \in Nat /\ n_used_id \in Nat /\ wb_id \in Nat /\ wb_id <= n_used_id
      /\ n_used_id <= Cardinality(Earlier) + LocPerMerge
      /\ Cardinality(Earlier) <= wb_id + LocPerMerge
  <2>1. wb_id \in Nat /\ n_used_id \in Nat /\ wb_id <= n_used_id
    BY Sizes DEF MergeInv, TypeOK
  <2> QED BY <1>1, <1>5, <2>1, BatchIds DEF WindowOK
<1>7. PICK k \in Nat : wb_id = LocPerMerge * k
  BY <1>1 DEF MergeInv, CountOK
<1>8. KeptOK' /\ wb_id' <= n_used_id /\ n_used_id <= wb_id' + LocPerMerge /\ wb_id' \in Nat
  <2>1. CASE n_used_id - wb_id >= LocPerMerge
    <3>1. WriteBack /\ wb_id < n_used_id
      BY <1>6, <2>1, Sizes DEF EndMerge
    <3>2. /\ wb_id' \in Nat /\ wb_id' <= n_used_id
          /\ wb_id' = n_used_id \/ wb_id' = wb_id + LocPerMerge
      BY <1>7, <3>1, WrittenBack
    <3>3. KeptOK'
      <4>1. Merged' \ deleted = Merged \ deleted /\ Merged \ deleted \subseteq DOMAIN id_map
        BY <1>2, <1>3, <1>4
      <4> QED BY <1>1, <1>7, <3>1, <4>1, WriteBackKept
    <3>4. n_used_id <= wb_id' + LocPerMerge
      <4>1. LocPerMerge \in Nat
        BY Sizes
      <4>2. CASE wb_id' = n_used_id
        BY ONLY <1>6, <3>2, <4>1, <4>2
      <4>3. CASE wb_id' = wb_id + LocPerMerge
        <5> DEFINE e == Cardinality(Earlier)
        <5>1. e \in Nat /\ n_used_id <= e + LocPerMerge /\ e <= wb_id + LocPerMerge
          BY <1>6
        <5> HIDE DEF e
        <5>2. n_used_id <= wb_id + LocPerMerge + LocPerMerge
          BY ONLY <1>6, <4>1, <5>1
        <5> QED BY ONLY <4>3, <5>2
      <4> QED BY ONLY <3>2, <4>2, <4>3
    <3> QED BY <3>2, <3>3, <3>4
  <2>2. CASE n_used_id - wb_id < LocPerMerge
    <3>1. UNCHANGED <<out, wb_id>>
      BY <1>6, <2>2, Sizes DEF EndMerge
    <3>2. KeptOK'
      <4>1. Merged' = Merged
        BY <1>2, <1>4
      <4> QED BY <1>1, <3>1, <4>1, KeptFrame
    <3>3. n_used_id <= wb_id + LocPerMerge
      BY ONLY <1>6, <2>2, Sizes
    <3> QED BY <3>1, <3>2, <3>3, <1>6
  <2>3. n_used_id - wb_id >= LocPerMerge \/ n_used_id - wb_id < LocPerMerge
    BY <1>6, Sizes
  <2> QED BY ONLY <2>1, <2>2, <2>3
<1>9. WindowOK'
  <2>1. CASE last
    BY <1>1, <2>1 DEF WindowOK
  <2>2. CASE ~last
    <3>1. Earlier' = InBatches
      BY <1>1, <2>2 DEF Earlier, InBatches, Live
    <3> QED BY <1>5, <1>8, <3>1 DEF WindowOK
  <2> QED BY <2>1, <2>2
<1> QED BY <1>8, <1>9

(* At the start nothing has been made.                                     *)
LEMMA InitKept == Init => WindowOK /\ KeptOK
  BY DEF Init, WindowOK, KeptOK, Merged

(* No step loses a record.                                                 *)
LEMMA NextKept ==
  ASSUME WholeChunks, MergeInv, FileOK, WindowOK, KeptOK, [Next]_vars
  PROVE  WindowOK' /\ KeptOK'
<1>1. CASE EndMerge
  BY <1>1, EndMergeKept
<1>2. ASSUME NEW l \in Locs, Merge(l) PROVE WindowOK' /\ KeptOK'
  BY <1>2, MergeRecordKept
<1>3. CASE Flush
  <2>1. pc = "flush" /\ pc' = "flush" /\ wb_id < n_used_id /\ WriteBack
        /\ UNCHANGED <<wbuf, id_map, deleted>>
    BY <1>3 DEF Flush, maps
  <2>2. Merged = Ids /\ Merged' = Ids /\ DOMAIN id_map = Ids \ deleted
    BY <2>1 DEF Merged, MergeInv, MapsOK, Populated
  <2>3. PICK k \in Nat : wb_id = LocPerMerge * k
    BY <2>1 DEF MergeInv, CountOK
  <2>4. KeptOK'
    BY <2>1, <2>2, <2>3, WriteBackKept
  <2> QED BY <2>1, <2>4 DEF WindowOK
<1>4. ASSUME pc' \in {"wait", "populate"} PROVE WindowOK' /\ KeptOK'
  BY <1>4 DEF WindowOK, KeptOK, Merged
<1>5. CASE EndPopulate
  <2>1. CASE pc' = "populate"
    BY <1>4, <2>1
  <2>2. CASE pc' # "populate"
    <3>1. /\ pc = "populate" /\ pc' = "merge" /\ loc_st' = 0 /\ done' = {}
          /\ UNCHANGED <<id2loc, wb_id, deleted>>
      BY <1>5, <2>2 DEF EndPopulate, tables, window
    <3>2. \A i \in Ids : ~(id2loc'[i] < 0)
      BY <3>1, Sizes DEF MergeInv, TypeOK
    <3>3. Merged' = {} /\ Earlier' = {}
      BY <3>1, <3>2 DEF Merged, Reached, Earlier, Live
    <3>4. wb_id = 0
      <4>1. n_used_id = Cardinality({})
        BY <3>1 DEF MergeInv, CountOK, Merged
      <4> QED BY <4>1, FS_EmptySet DEF MergeInv, TypeOK
    <3>5. WindowOK'
      BY <3>1, <3>3, <3>4, FS_EmptySet, Sizes DEF WindowOK
    <3>6. KeptOK'
      BY <3>3 DEF KeptOK
    <3> QED BY <3>5, <3>6
  <2> QED BY <2>1, <2>2
<1>6. ASSUME UNCHANGED <<id_map, wbuf, out, wb_id, deleted>>,
             Merged' = Merged, pc' = "merge" => pc = "merge" /\ UNCHANGED <<id2loc, loc_st>>
      PROVE  WindowOK' /\ KeptOK'
  <2>1. Live' = Live
    BY <1>6 DEF Live
  <2>2. KeptOK'
    BY <1>6, KeptFrame
  <2>3. WindowOK'
    BY <1>6, <2>1 DEF WindowOK, Earlier
  <2> QED BY <2>2, <2>3
<1>7. CASE ReadBatch \/ SearchStep \/ BgPop \/ BgFinish \/ UNCHANGED vars
  <2>1. UNCHANGED <<id_map, wbuf, out, wb_id, deleted, pc, id2loc, loc_st, done>>
    BY <1>7 DEF ReadBatch, SearchStep, SearchBegin, SearchRead, SearchEnd, BgPop, BgFinish,
                vars, tables, loop, maps, window
  <2>2. Merged' = Merged
    BY <2>1 DEF Merged, Reached
  <2> QED BY <1>6, <2>1, <2>2
<1>8. CASE WaitForBackground
  <2>1. pc' = "populate"
    BY <1>8 DEF WaitForBackground
  <2> QED BY <1>4, <2>1
<1>9. ASSUME NEW l \in Locs, Populate(l) PROVE WindowOK' /\ KeptOK'
  <2>1. pc' = "populate"
    BY <1>9 DEF Populate
  <2> QED BY <1>4, <2>1
<1>10. CASE Shuffle \/ ChooseEntry \/ CrashEntry \/ Commit \/ Reload
  <2>1. UNCHANGED <<id_map, wbuf, out, wb_id, deleted>>
    BY <1>10 DEF Shuffle, ChooseEntry, CrashEntry, Commit, Reload, maps, window
  <2>2. pc \in {"flush", "entry", "reload"} /\ pc' \in {"entry", "crashed", "reload", "done"}
    BY <1>10 DEF Shuffle, ChooseEntry, CrashEntry, Commit, Reload
  <2>3. Merged' = Merged
    BY <2>2 DEF Merged
  <2> QED BY <1>6, <2>1, <2>2, <2>3
<1> QED BY <1>1, <1>2, <1>3, <1>5, <1>7, <1>8, <1>9, <1>10 DEF Next, MergeStep

(* With whole chunks and an idle background thread no record is lost.      *)
LEMMA KeptAlways ==
  ASSUME BackgroundIdle, WholeChunks
  PROVE  Spec => [](MergeInv /\ FileOK /\ WindowOK /\ KeptOK)
<1>1. Init => FileOK
  BY InitFile
<1>2. MergeInv /\ FileOK /\ [Next]_vars => FileOK'
  BY NextFile
<1>3. MergeInv /\ FileOK /\ WindowOK /\ KeptOK /\ [Next]_vars => WindowOK' /\ KeptOK'
  BY NextKept
<1> QED BY <1>1, <1>2, <1>3, InitInv, NextInv, InitKept, PTL DEF Spec

-----------------------------------------------------------------------------
(* The new index.                                                          *)

(* The record, the tag and the code of an id are those of one live vector. *)
LEMMA NewRecord ==
  ASSUME MergeInv, KeptOK, pc \in {"reload", "done"}, NEW i \in 0 .. npoints - 1
  PROVE  \E v \in Live :
           /\ id_map[v] = i /\ RecordOf(out[i], v)
           /\ tags[i] = v /\ nbr_handler.codes[i] = v
<1>1. /\ DOMAIN id_map = Live /\ Merged = Ids /\ Numbers(id_map, NewId) /\ NewId \in Nat
      /\ npoints = NewId
  BY IdsFinite DEF MergeInv, MapsOK, Populated, Merged, Live, NewId, SwitchOK, Old
<1>2. wb_id = NewId
  BY <1>1 DEF MergeInv, CountOK, NewId, Live
<1>3. PICK v \in Live : id_map[v] = i
  BY <1>1 DEF Numbers
<1>4. RecordOf(out[i], v)
  <2>1. i < wb_id
    BY <1>1, <1>2
  <2>2. v \in Merged \ deleted
    BY <1>1 DEF Live
  <2> QED BY <1>3, <2>1, <2>2 DEF KeptOK
<1>5. tags[i] = v /\ nbr_handler.codes[i] = v
  BY <1>3 DEF MergeInv, SwitchOK, Old
<1> QED BY <1>3, <1>4, <1>5

(* The neighbours in a new record are other ids of the new index.          *)
LEMMA NewNeighbours ==
  ASSUME MergeInv, pc \in {"reload", "done"}, NEW v \in Live, NEW r, RecordOf(r, v)
  PROVE  r.nbrs \subseteq (0 .. npoints - 1) \ {id_map[v]}
<1>1. DOMAIN id_map = Live /\ Numbers(id_map, NewId) /\ npoints = NewId
  BY DEF MergeInv, MapsOK, Populated, Live, SwitchOK, Old
<1>2. ASSUME NEW u \in Live \ {v} PROVE id_map[u] \in (0 .. npoints - 1) \ {id_map[v]}
  BY <1>1 DEF Numbers
<1>3. r.nbrs \subseteq {id_map[u] : u \in Live \ {v}}
  BY DEF RecordOf
<1>4. {id_map[u] : u \in Live \ {v}} \subseteq (0 .. npoints - 1) \ {id_map[v]}
  BY <1>2
<1> QED BY ONLY <1>3, <1>4

(* The records of the new index are those of its tags and link to other    *)
(* ids, if the background thread has nothing to write and a batch is a     *)
(* whole number of chunks.                                                 *)
LEMMA MergedRecords ==
  ASSUME BackgroundIdle, WholeChunks
  PROVE  Spec => []MergedIndexSound
<1>1. MergeInv /\ FileOK /\ KeptOK => MergedIndexSound
  <2>1. ASSUME MergeInv, KeptOK, pc \in {"reload", "done"}, NEW i \in 0 .. npoints - 1
        PROVE  out[i].vec = tags[i] /\ i \notin out[i].nbrs
    <3>1. PICK v \in Live : id_map[v] = i /\ RecordOf(out[i], v) /\ tags[i] = v
      BY <2>1, NewRecord
    <3>2. out[i].nbrs \subseteq (0 .. npoints - 1) \ {i}
      BY <2>1, <3>1, NewNeighbours
    <3> QED BY <3>1, <3>2 DEF RecordOf
  <2>2. ASSUME MergeInv, FileOK, pc = "done", NEW i \in 0 .. npoints - 1
        PROVE  file[id2loc[i]] = out[i]
    BY <2>2 DEF MergeInv, SwitchOK, Old, FileOK
  <2> QED BY <2>1, <2>2 DEF MergedIndexSound
<1>2. BackgroundIdle /\ WholeChunks
  OBVIOUS
<1> QED BY <1>1, <1>2, KeptAlways, PTL

-----------------------------------------------------------------------------
(* Beam searches, which hold merge_lock.                                   *)

(* No search is in progress at the start.                                  *)
LEMMA InitSearch == Init => SearchOK
  BY DEF Init, SearchOK

(* A candidate's location has the record of the candidate.                 *)
LEMMA CandidateRead ==
  ASSUME MergeInv, FileOK, KeptOK, SearchOK, NEW c \in cands
  PROVE  /\ Served(id2loc[c.id]).vec = c.vec
         /\ \A i \in Served(id2loc[c.id]).nbrs : i \in DOMAIN nbr_handler.codes
<1>1. /\ c.id \in DOMAIN nbr_handler.codes /\ c.vec = nbr_handler.codes[c.id] /\ c.id \in Ids
      /\ DOMAIN nbr_handler.codes = DOMAIN tags
      /\ pc # "reload"
  BY DEF SearchOK, MergeInv, TypeOK
<1>2. \A l : Served(l) = file[l]
  BY DEF Served, FileOK
<1>3. CASE Old
  <2>1. /\ DOMAIN tags = Ids /\ nbr_handler.codes[c.id] = c.id /\ loc2id[id2loc[c.id]] = c.id
        /\ id2loc[c.id] \in Locs
    BY <1>1, <1>3 DEF MergeInv, TablesOK, TypeOK
  <2>2. file[id2loc[c.id]].vec = c.id /\ file[id2loc[c.id]].nbrs \subseteq Ids
    BY <1>1, <1>3, <2>1, Sizes DEF FileOK, MergeInv, TypeOK, Record
  <2> QED BY <1>1, <1>2, <2>1, <2>2
<1>4. CASE pc = "done"
  <2>1. DOMAIN tags = 0 .. npoints - 1 /\ file = out /\ id2loc[c.id] = c.id
    BY <1>1, <1>4 DEF MergeInv, SwitchOK, Old, FileOK
  <2>2. PICK v \in Live :
          /\ id_map[v] = c.id /\ RecordOf(out[c.id], v)
          /\ tags[c.id] = v /\ nbr_handler.codes[c.id] = v
    BY <1>1, <1>4, <2>1, NewRecord
  <2>3. out[c.id].nbrs \subseteq (0 .. npoints - 1) \ {c.id}
    BY <1>4, <2>2, NewNeighbours
  <2> QED BY <1>1, <1>2, <2>1, <2>2, <2>3 DEF RecordOf
<1> QED BY <1>1, <1>3, <1>4 DEF Old

(* The switch happens between searches, and a search does not begin in it. *)
LEMMA NextSearch ==
  ASSUME BeamOnly, MergeInv, FileOK, KeptOK, SearchOK, [Next]_vars
  PROVE  SearchOK'
<1> DEFINE NodeOK(c) == c.id \in DOMAIN nbr_handler.codes /\ c.vec = nbr_handler.codes[c.id]
<1>1. CASE SearchStep
  <2>1. UNCHANGED <<nbr_handler, pc>>
    BY <1>1 DEF SearchStep, SearchBegin, SearchRead, SearchEnd
  <2>2. ASSUME NEW i \in DOMAIN nbr_handler.codes PROVE NodeOK(Node(i))
    BY DEF Node
  <2>3. ASSUME NEW m \in Modes, SearchBegin(m) PROVE SearchOK'
    <3>1. m = "beam"
      BY DEF BeamOnly
    <3>2. entry_point \in DOMAIN nbr_handler.codes
      <4>1. CASE Old
        BY <4>1 DEF MergeInv, TypeOK, TablesOK
      <4>2. CASE ~Old
        <5>1. DOMAIN tags = 0 .. npoints - 1 /\ entry_point < npoints /\ npoints \in Nat
              /\ entry_point \in Nat /\ DOMAIN nbr_handler.codes = DOMAIN tags
          BY <4>2, Sizes DEF MergeInv, TypeOK, SwitchOK
        <5> QED BY <5>1
      <4> QED BY <4>1, <4>2
    <3>3. \/ search' = "beam" /\ cands' = {Node(entry_point)} /\ pc # "reload"
          \/ search' = "crashed" /\ cands' = {}
      BY <2>3, <3>1 DEF SearchBegin
    <3> QED BY <2>1, <2>2, <3>2, <3>3 DEF SearchOK
  <2>4. ASSUME NEW c \in cands, SearchRead(c) PROVE SearchOK'
    <3>1. cands' = (cands \ {c}) \cup {Node(i) : i \in Served(id2loc[c.id]).nbrs} /\ search' = search
      BY <2>4 DEF SearchRead
    <3>2. \A d \in cands' : NodeOK(d)
      <4>1. \A i \in Served(id2loc[c.id]).nbrs : NodeOK(Node(i))
        BY <2>2, CandidateRead
      <4>2. \A d \in cands : NodeOK(d)
        BY DEF SearchOK
      <4> HIDE DEF NodeOK
      <4> QED BY ONLY <3>1, <4>1, <4>2
    <3>3. search = "beam" /\ pc # "reload"
      BY DEF SearchOK
    <3> QED BY <2>1, <3>1, <3>2, <3>3 DEF SearchOK
  <2>5. CASE SearchEnd
    BY <2>5 DEF SearchEnd, SearchOK
  <2> QED BY <1>1, <2>3, <2>4, <2>5 DEF SearchStep
<1>2. CASE Commit
  <2>1. cands' = {} /\ search' # "beam"
    BY <1>2 DEF Commit, MergeLockFree, SearchOK, reader
  <2> QED BY <2>1 DEF SearchOK
<1>3. CASE ~SearchStep /\ ~Commit
  <2>1. UNCHANGED <<search, cands>> /\ nbr_handler'.codes = nbr_handler.codes
        /\ (pc' = "reload" => pc = "reload")
    <3>1. CASE Shuffle
      <4>1. nbr_handler' = [nbr_handler EXCEPT !.table = FALSE]
            /\ nbr_handler = [codes |-> nbr_handler.codes, table |-> nbr_handler.table]
        BY <3>1 DEF Shuffle, MergeInv, HandlerOK
      <4>2. nbr_handler'.codes = nbr_handler.codes
        BY ONLY <4>1
      <4> QED BY <3>1, <4>2 DEF Shuffle, reader
    <3>2. ASSUME NEW l \in Locs, Populate(l) \/ Merge(l)
          PROVE  UNCHANGED <<search, cands, nbr_handler, pc>>
      BY <3>2 DEF Populate, Merge, reader
    <3>3. CASE WaitForBackground \/ ReadBatch \/ EndPopulate \/ EndMerge \/ Flush
      BY <3>3 DEF WaitForBackground, ReadBatch, EndPopulate, EndMerge, Flush, reader
    <3>4. CASE ChooseEntry \/ CrashEntry \/ Reload
      BY <3>4 DEF ChooseEntry, CrashEntry, Reload, reader
    <3>5. CASE BgPop \/ BgFinish \/ UNCHANGED vars
      BY <3>5 DEF BgPop, BgFinish, vars, reader
    <3> QED BY <1>3, <3>1, <3>2, <3>3, <3>4, <3>5 DEF Next, MergeStep
  <2> QED BY <2>1 DEF SearchOK
<1> QED BY <1>1, <1>2, <1>3

(* "serve search during merge" (ssd_index.h): what a search reads is the   *)
(* node that it put in its list, before, during and after the switch, if   *)
(* all searches are beam searches and no record is lost.                   *)
LEMMA BeamServed ==
  ASSUME BackgroundIdle, WholeChunks, BeamOnly
  PROVE  Spec => []CandidatesServed
<1>1. MergeInv /\ FileOK /\ KeptOK /\ SearchOK /\ [Next]_vars => SearchOK'
  BY NextSearch
<1>2. MergeInv /\ FileOK /\ KeptOK /\ SearchOK => CandidatesServed
  BY CandidateRead DEF CandidatesServed
<1>3. BackgroundIdle /\ WholeChunks
  OBVIOUS
<1> QED BY <1>1, <1>2, <1>3, KeptAlways, InitSearch, PTL DEF Spec
=============================================================================
