-------------------------- MODULE IndexMergerProofs --------------------------
(***************************************************************************)
(* Proofs about IndexMerger, for any indices, batches and number of        *)
(* merges: merge after merge the disk index holds the live vectors, each   *)
(* of them once and linked, and no link or entry point leads to an id      *)
(* whose vector is gone.                                                   *)
(***************************************************************************)
EXTENDS IndexMerger, FiniteSetTheorems, TLAPS

-----------------------------------------------------------------------------
(* Sets of numbers.                                                        *)

(* A set of numbers has a least one.                                       *)
LEMMA LeastNatural ==
  ASSUME NEW S, S # {}, S \subseteq Nat
  PROVE  \E x \in S : \A y \in S : x <= y
<1> DEFINE R == StrictSubsetOrdering(Nat)
           T == {0 .. x : x \in S}
<1>1. \A x \in Nat : 0 .. x \in FiniteSubsetsOf(Nat)
  BY FS_Interval DEF FiniteSubsetsOf
<1>2. T \subseteq FiniteSubsetsOf(Nat) /\ T # {}
  BY <1>1
<1>3. \E X \in T : \A Y \in T : ~(<<Y, X>> \in R)
  <2> HIDE DEF R, T
  <2> QED BY ONLY <1>2, FS_StrictSubsetOrderingWellFounded, WFMin DEF R
<1>4. PICK x \in S : \A y \in S : ~(<<0 .. y, 0 .. x>> \in R)
  BY <1>3
<1>5. \A y \in S : ~(y < x)
  <2> SUFFICES ASSUME NEW y \in S, y < x PROVE FALSE
    OBVIOUS
  <2>1. /\ 0 .. y \in SUBSET Nat /\ 0 .. x \in SUBSET Nat
        /\ 0 .. y \subseteq 0 .. x /\ x \in 0 .. x /\ x \notin 0 .. y
    OBVIOUS
  <2>2. <<0 .. y, 0 .. x>> \in R
    BY <2>1 DEF StrictSubsetOrdering
  <2> QED BY <1>4, <2>2
<1>6. \A y \in S : x <= y
  BY ONLY <1>5, S \subseteq Nat, x \in S
<1> QED BY <1>6

(* A bounded set of numbers has a greatest one.                            *)
LEMMA GreatestNatural ==
  ASSUME NEW S, S # {}, NEW b \in Nat, S \subseteq 0 .. b
  PROVE  \E x \in S : \A y \in S : y <= x
<1> DEFINE T == {b - x : x \in S}
<1>1. T # {} /\ T \subseteq Nat
  <2>1. PICK x \in S : TRUE
    OBVIOUS
  <2>2. b - x \in T
    BY <2>1
  <2>3. ASSUME NEW y \in S PROVE b - y \in Nat
    OBVIOUS
  <2> QED BY <2>2, <2>3
<1>2. PICK t \in T : \A u \in T : t <= u
  <2> HIDE DEF T
  <2> QED BY ONLY <1>1, LeastNatural
<1>3. PICK x \in S : t = b - x
  OBVIOUS
<1>4. ASSUME NEW y \in S
      PROVE  y <= x
  <2>1. b - y \in T
    OBVIOUS
  <2>2. t <= b - y
    BY <2>1, <1>2
  <2> QED BY <2>2, <1>3
<1> QED BY <1>4

(* A bounded set of numbers is finite.                                     *)
LEMMA BoundedFinite ==
  ASSUME NEW b \in Nat, NEW S, S \subseteq 0 .. b
  PROVE  IsFiniteSet(S) /\ Cardinality(S) \in Nat /\ \A z \in S : z \in Nat
<1>1. IsFiniteSet(0 .. b)
  BY FS_Interval
<1>2. IsFiniteSet(S)
  BY <1>1, FS_Subset
<1>3. \A z \in S : z \in 0 .. b
  OBVIOUS
<1> QED BY <1>2, <1>3, FS_CardinalityType

(* The elements of a set of numbers below one of them.                     *)
SmallerIn(x, S) == {z \in S : z < x}

(* A larger element of a set of numbers has more elements below it.        *)
LEMMA RankGrows ==
  ASSUME NEW b \in Nat, NEW S, S \subseteq 0 .. b, NEW x \in S, NEW y \in S, x < y
  PROVE  /\ Cardinality(SmallerIn(x, S)) \in Nat
         /\ Cardinality(SmallerIn(x, S)) < Cardinality(SmallerIn(y, S))
         /\ IsFiniteSet(S) /\ Cardinality(SmallerIn(y, S)) < Cardinality(S)
<1> USE DEF SmallerIn
<1> DEFINE Lx == {z \in S : z < x}
           Ly == {z \in S : z < y}
<1>1. IsFiniteSet(S) /\ \A z \in S : z \in Nat
  BY BoundedFinite
<1>2. Lx \subseteq Ly /\ Ly \subseteq S /\ Lx \subseteq S /\ x \in Ly \ Lx /\ y \in S \ Ly
  <2>1. \A z \in S : z < x => z < y
    BY ONLY <1>1, x \in S, y \in S, x < y
  <2>2. ~(x < x) /\ ~(y < y)
    BY ONLY <1>1, x \in S, y \in S
  <2> QED BY ONLY <2>1, <2>2, x \in S, y \in S, x < y
<1>3. IsFiniteSet(Ly) /\ Cardinality(Ly) <= Cardinality(S) /\ Cardinality(Ly) # Cardinality(S)
  BY <1>1, <1>2, FS_Subset
<1>4. IsFiniteSet(Lx) /\ Cardinality(Lx) <= Cardinality(Ly) /\ Cardinality(Lx) # Cardinality(Ly)
  BY <1>2, <1>3, FS_Subset
<1>5. Cardinality(Lx) \in Nat /\ Cardinality(Ly) \in Nat /\ Cardinality(S) \in Nat
  BY <1>1, <1>3, <1>4, FS_CardinalityType
<1> QED BY <1>1, <1>3, <1>4, <1>5

(* The rank of an element is below the size of the set.                    *)
LEMMA RankBound ==
  ASSUME NEW b \in Nat, NEW S, S \subseteq 0 .. b, NEW x \in S
  PROVE  Cardinality(SmallerIn(x, S)) \in 0 .. Cardinality(S) - 1
<1> USE DEF SmallerIn
<1> DEFINE Lx == {z \in S : z < x}
<1>1. IsFiniteSet(S) /\ \A z \in S : z \in Nat
  BY BoundedFinite
<1>2. Lx \subseteq S /\ x \in S \ Lx
  BY <1>1
<1>3. IsFiniteSet(Lx) /\ Cardinality(Lx) <= Cardinality(S) /\ Cardinality(Lx) # Cardinality(S)
  BY <1>1, <1>2, FS_Subset
<1>4. Cardinality(Lx) \in Nat /\ Cardinality(S) \in Nat
  BY <1>1, <1>3, FS_CardinalityType
<1> QED BY <1>3, <1>4

(* A set of more than n numbers has one with n smaller ones in it.         *)
LEMMA RankExists ==
  ASSUME NEW b \in Nat, NEW S, S \subseteq 0 .. b, NEW n \in Nat, n < Cardinality(S)
  PROVE  \E x \in S : Cardinality(SmallerIn(x, S)) = n
<1> USE DEF SmallerIn
<1> DEFINE Late == {x \in S : n <= Cardinality(SmallerIn(x, S))}
<1>1. IsFiniteSet(S) /\ Cardinality(S) \in Nat /\ \A z \in S : z \in Nat
  BY BoundedFinite
<1>0. S # {}
  BY FS_EmptySet
<1>2. Late # {}
  <2>1. PICK m \in S : \A y \in S : y <= m
    BY <1>0, GreatestNatural
  <2>2. SmallerIn(m, S) = S \ {m}
    <3>1. \A y \in S : y # m => y < m
      BY ONLY <1>1, <2>1, m \in S
    <3>2. ~(m < m)
      BY ONLY <1>1, m \in S
    <3> QED BY ONLY <3>1, <3>2
  <2>3. Cardinality(SmallerIn(m, S)) = Cardinality(S) - 1
    BY <1>1, <2>2, FS_RemoveElement
  <2> QED BY <1>1, <2>3
<1>3. PICK x \in Late : \A y \in Late : x <= y
  <2>1. Late \subseteq Nat
    BY <1>1
  <2> HIDE DEF Late
  <2> QED BY <1>2, <2>1, LeastNatural
<1>4. IsFiniteSet(SmallerIn(x, S)) /\ Cardinality(SmallerIn(x, S)) \in Nat
  BY <1>1, FS_Subset, FS_CardinalityType
<1>5. ~(n < Cardinality(SmallerIn(x, S)))
  <2> SUFFICES ASSUME n < Cardinality(SmallerIn(x, S)) PROVE FALSE
    OBVIOUS
  <2>1. SmallerIn(x, S) # {}
    BY FS_EmptySet
  <2>2. PICK g \in SmallerIn(x, S) : \A y \in SmallerIn(x, S) : y <= g
    <3>1. SmallerIn(x, S) \subseteq 0 .. b
      OBVIOUS
    <3> QED BY ONLY <2>1, <3>1, b \in Nat, GreatestNatural
  <2>3. SmallerIn(g, S) = SmallerIn(x, S) \ {g}
    <3>1. \A y \in SmallerIn(x, S) : y # g => y < g
      BY <1>1, <2>2
    <3>2. g \in S /\ g < x /\ x \in S
      OBVIOUS
    <3>3. ~(g < g) /\ \A z \in S : z < g => z < x
      BY ONLY <1>1, <3>2
    <3> QED BY ONLY <3>1, <3>2, <3>3
  <2>4. Cardinality(SmallerIn(g, S)) = Cardinality(SmallerIn(x, S)) - 1
    BY <1>4, <2>3, FS_RemoveElement
  <2>5. g \in Late
    BY <1>4, <2>4
  <2> QED BY <1>3, <2>5
<1> QED BY <1>4, <1>5

-----------------------------------------------------------------------------
(* The inductive invariant.                                                *)

(* The disk index is always one that a merge may begin with.               *)
DiskSound ==
  /\ IsIndex(disk) /\ VectorsUnderTags(disk) /\ NoLinksToHoles(disk) /\ OnlyHolesUnlinked(disk)

(* What a merge is about.                                                  *)
Merging ==
  /\ mem_tags \in Seq(TagsOf(mem_tags)) /\ Hole \notin TagsOf(mem_tags)
  /\ \A j, k \in DOMAIN mem_tags : mem_tags[j] = mem_tags[k] => j = k
  /\ TagsOf(mem_tags) \cap Tags(disk) = {}
  /\ Hole \notin deleted_tags
  /\ live = (Tags(disk) \cup TagsOf(mem_tags)) \ deleted_tags

(* The ids whose vectors stay.                                             *)
kept_ids == Ids(disk) \ free_ids

(* A node that consolidate_deletes() has seen.                             *)
Consolidated(i) ==
  /\ out.nbrs[i] \subseteq kept_ids
  /\ Cardinality(out.nbrs[i]) <= range
  /\ out.nbrs[i] = {} <=> i \notin kept_ids

(* The vectors and the codes of the ids before the new ones are written.   *)
OldVectors(f) == [i \in 0 .. NewSize - 1 |-> IF i \in Ids(disk) THEN f[i] ELSE Hole]

NewVectors(f) ==
  [i \in 0 .. NewSize - 1 |-> IF i \in Renamed THEN mem_tags[RenameInverse(i)]
                              ELSE IF i \in Ids(disk) THEN f[i] ELSE Hole]

(* The neighbourhood of a new vector.                                      *)
Searched(k) ==
  /\ mem_delta[k] \subseteq kept_ids /\ mem_delta[k] # {}
  /\ Cardinality(mem_delta[k]) <= range

(* A node that process_merges() has written.                               *)
MergedNode(i) ==
  /\ out.vec[i] = NewVectors(disk.vec)[i]
  /\ i \in Renamed => out.nbrs[i] = mem_delta[RenameInverse(i)]
  /\ i \notin Renamed =>
       /\ out.nbrs[i] \subseteq kept_ids \cup Renamed
       /\ Cardinality(out.nbrs[i]) <= range
       /\ out.nbrs[i] = {} <=> i \notin kept_ids
       /\ \A k \in Inserted : i \in mem_delta[k] =>
            Rename(k) \in out.nbrs[i] \/ Cardinality(out.nbrs[i]) = range

InDeletes ==
  /\ out.npts = disk.npts /\ out.medoid = disk.medoid
  /\ out.tag = disk.tag /\ out.vec = disk.vec /\ out.pq = disk.pq
  /\ mem_delta = <<>> /\ todo \subseteq Ids(disk)
  /\ \A i \in todo : out.nbrs[i] = disk.nbrs[i]
  /\ \A i \in Ids(disk) \ todo : Consolidated(i)

InRename ==
  /\ mem_delta = <<>>
  /\ out.npts = disk.npts /\ out.medoid \in kept_ids
  /\ out.tag = disk.tag /\ out.vec = disk.vec /\ out.pq = disk.pq
  /\ \A i \in Ids(disk) : Consolidated(i)

Reloaded ==
  /\ Inserted # {}
  /\ out.npts = NewSize /\ out.medoid \in kept_ids /\ out.tag = NewTags(NewSize)

InInserts ==
  /\ Reloaded
  /\ out.vec = OldVectors(disk.vec) /\ out.pq = OldVectors(disk.pq)
  /\ \A i \in Ids(out) : Consolidated(i)
  /\ todo \subseteq Inserted /\ DOMAIN mem_delta = Inserted \ todo
  /\ \A k \in DOMAIN mem_delta : Searched(k)

InMerges ==
  /\ Reloaded
  /\ out.pq = NewVectors(disk.pq)
  /\ DOMAIN mem_delta = Inserted /\ \A k \in Inserted : Searched(k)
  /\ todo \subseteq Ids(out)
  /\ \A i \in todo : Consolidated(i) /\ out.vec[i] = OldVectors(disk.vec)[i]
  /\ \A i \in Ids(out) \ todo : MergedNode(i)

IInv ==
  /\ TypeOK /\ DiskSound
  /\ pc = "idle" => Tags(disk) = live
  /\ pc # "idle" => Merging
  /\ pc = "deletes" => InDeletes
  /\ pc = "rename" => InRename
  /\ pc = "inserts" => InInserts
  /\ pc = "merges" => InMerges

-----------------------------------------------------------------------------
(* The rename map.                                                         *)

(* The n-th free id is one of the free ids, or follows the disk index when *)
(* they are used up; no id is given out twice.                             *)
LEMMA FreeIdFacts ==
  ASSUME IsIndex(disk), NEW m \in Nat, NEW n \in Nat
  PROVE  /\ FreeId(n) \in Nat /\ free_ids \subseteq Ids(disk)
         /\ Cardinality(free_ids) \in Nat
         /\ n < Cardinality(free_ids) => FreeId(n) \in free_ids
         /\ n >= Cardinality(free_ids) =>
              FreeId(n) = disk.npts + n - Cardinality(free_ids)
         /\ m # n => FreeId(m) # FreeId(n)
<1> DEFINE c == Cardinality(free_ids)
<1>1. disk.npts \in Nat
  BY DEF IsIndex
<1>2. free_ids \subseteq Ids(disk) /\ free_ids \subseteq 0 .. disk.npts
  BY <1>1 DEF free_ids, Ids
<1>3. IsFiniteSet(free_ids) /\ c \in Nat /\ \A z \in free_ids : z \in Nat /\ z < disk.npts
  <2>1. \A z \in Ids(disk) : z \in Nat /\ z < disk.npts
    BY <1>1 DEF Ids
  <2> QED BY <1>1, <1>2, <2>1, BoundedFinite
<1>4. ASSUME NEW l \in Nat
      PROVE  /\ l < c => FreeId(l) \in free_ids /\ IsNth(FreeId(l), l, free_ids)
             /\ ~(l < c) => FreeId(l) = disk.npts + l - c
  <2>1. CASE l < c
    <3>1. PICK x \in free_ids : Cardinality(SmallerIn(x, free_ids)) = l
      BY <1>1, <1>2, <2>1, RankExists
    <3>2. IsNth(x, l, free_ids)
      BY <3>1 DEF IsNth, SmallerIn
    <3>3. FreeId(l) = CHOOSE i \in free_ids : IsNth(i, l, free_ids)
      BY <2>1 DEF FreeId
    <3> QED BY <2>1, <3>1, <3>2, <3>3
  <2>2. CASE ~(l < c)
    BY <2>2 DEF FreeId
  <2> QED BY <2>1, <2>2
<1> HIDE DEF c
<1>5. m # n => FreeId(m) # FreeId(n)
  <2>1. CASE m < c /\ n < c
    BY <1>4, <2>1 DEF IsNth
  <2>2. CASE m < c /\ ~(n < c)
    BY <1>1, <1>3, <1>4, <2>2
  <2>3. CASE ~(m < c) /\ n < c
    BY <1>1, <1>3, <1>4, <2>3
  <2>4. CASE ~(m < c) /\ ~(n < c)
    BY <1>1, <1>3, <1>4, <2>4
  <2> QED BY <2>1, <2>2, <2>3, <2>4
<1>6. FreeId(n) \in Nat
  BY <1>1, <1>3, <1>4
<1> QED BY <1>1, <1>2, <1>3, <1>4, <1>5, <1>6 DEF c

(* The number of the insertions before position k.                         *)
Rank(k) == Cardinality(SmallerIn(k, Inserted))

(* The insertions have the ranks below their number, each one once.        *)
LEMMA RankFacts ==
  ASSUME mem_tags \in Seq(TagsOf(mem_tags))
  PROVE  /\ IsFiniteSet(Inserted) /\ Cardinality(Inserted) \in Nat
         /\ \A k \in Inserted : k \in Nat /\ Rank(k) \in 0 .. Cardinality(Inserted) - 1
         /\ \A j, k \in Inserted : Rank(j) = Rank(k) => j = k
         /\ \A n \in 0 .. Cardinality(Inserted) - 1 : \E k \in Inserted : Rank(k) = n
<1>1. Len(mem_tags) \in Nat /\ Inserted \subseteq 0 .. Len(mem_tags)
  BY DEF Inserted
<1>2. IsFiniteSet(Inserted) /\ Cardinality(Inserted) \in Nat /\ \A z \in Inserted : z \in Nat
  BY <1>1, BoundedFinite
<1>3. \A k \in Inserted : Rank(k) \in 0 .. Cardinality(Inserted) - 1
  BY <1>1, RankBound DEF Rank
<1>4. ASSUME NEW j \in Inserted, NEW k \in Inserted, Rank(j) = Rank(k)
      PROVE  j = k
  <2>1. ASSUME NEW x \in Inserted, NEW y \in Inserted, x < y
        PROVE  Rank(x) \in Nat /\ Rank(x) < Rank(y) /\ Rank(y) \in Nat
    <3>1. Cardinality(SmallerIn(x, Inserted)) < Cardinality(SmallerIn(y, Inserted))
      BY <1>1, <2>1, RankGrows
    <3> QED BY <1>2, <1>3, <3>1 DEF Rank
  <2>2. ~(j < k) /\ ~(k < j)
    <3>1. Rank(j) \in Nat /\ Rank(k) \in Nat
      BY <1>2, <1>3
    <3>2. ~(Rank(j) < Rank(k)) /\ ~(Rank(k) < Rank(j))
      BY ONLY <1>4, <3>1
    <3> QED BY <2>1, <3>2
  <2> QED BY <1>2, <2>2
<1>5. ASSUME NEW n \in 0 .. Cardinality(Inserted) - 1
      PROVE  \E k \in Inserted : Rank(k) = n
  <2>1. n \in Nat /\ n < Cardinality(Inserted)
    BY <1>2
  <2> QED BY <1>1, <2>1, RankExists DEF Rank
<1> QED BY <1>2, <1>3, <1>4, <1>5

(* Every new vector gets an id of its own, of a vector that is gone or     *)
(* behind the old index, and every id behind it is given to one.           *)
LEMMA RenameFacts ==
  ASSUME IsIndex(disk), mem_tags \in Seq(TagsOf(mem_tags)), Inserted # {}
  PROVE  /\ NewSize \in Nat /\ disk.npts <= NewSize
         /\ \A k \in Inserted : /\ Rename(k) \in 0 .. NewSize - 1 /\ Rename(k) \notin kept_ids
                                /\ Rename(k) \in Renamed /\ RenameInverse(Rename(k)) = k
         /\ \A j, k \in Inserted : Rename(j) = Rename(k) => j = k
         /\ \A i \in Renamed : RenameInverse(i) \in Inserted /\ Rename(RenameInverse(i)) = i
         /\ \A i \in 0 .. NewSize - 1 : i \notin Ids(disk) => i \in Renamed
<1> DEFINE c == Cardinality(Inserted)
           f == Cardinality(free_ids)
<1>1. /\ IsFiniteSet(Inserted) /\ c \in Nat
      /\ \A k \in Inserted : k \in Nat /\ Rank(k) \in 0 .. c - 1
      /\ \A j, k \in Inserted : Rank(j) = Rank(k) => j = k
      /\ \A n \in 0 .. c - 1 : \E k \in Inserted : Rank(k) = n
  BY RankFacts
<1>2. c # 0
  BY <1>1, FS_EmptySet
<1>3. /\ disk.npts \in Nat /\ f \in Nat /\ free_ids \subseteq Ids(disk)
      /\ \A i \in Ids(disk) : i \in Nat /\ i < disk.npts
      /\ \A i \in Nat : i < disk.npts => i \in Ids(disk)
  <2>1. f \in Nat /\ free_ids \subseteq Ids(disk)
    BY FreeIdFacts
  <2>2. disk.npts \in Nat
    BY DEF IsIndex
  <2> QED BY <2>1, <2>2 DEF Ids
<1>4. ASSUME NEW n \in Nat
      PROVE  /\ FreeId(n) \in Nat
             /\ n < f => FreeId(n) \in free_ids
             /\ n >= f => FreeId(n) = disk.npts + n - f
  BY FreeIdFacts
<1>5. \A m, n \in Nat : m # n => FreeId(m) # FreeId(n)
  BY FreeIdFacts
<1>6. \A k \in Inserted : Rename(k) = FreeId(Rank(k))
  BY DEF Rename, Rank, SmallerIn
<1> HIDE DEF c, f
<1>7. /\ NewSize \in Nat /\ disk.npts <= NewSize
      /\ c - 1 < f => NewSize = disk.npts
      /\ c - 1 >= f => NewSize = disk.npts + c - f
  <2>1. c - 1 \in Nat
    BY <1>1, <1>2
  <2>2. NewSize = IF FreeId(c - 1) < disk.npts THEN disk.npts ELSE FreeId(c - 1) + 1
    BY DEF NewSize, c
  <2>3. CASE c - 1 < f
    <3>1. FreeId(c - 1) < disk.npts
      BY <1>3, <1>4, <2>1, <2>3
    <3> QED BY <1>1, <1>3, <2>2, <2>3, <3>1
  <2>4. CASE c - 1 >= f
    <3>1. FreeId(c - 1) = disk.npts + (c - 1) - f
      BY <1>4, <2>1, <2>4
    <3> QED BY <1>1, <1>3, <2>1, <2>2, <2>4, <3>1
  <2> QED BY <1>1, <1>3, <2>3, <2>4
<1>8. ASSUME NEW k \in Inserted
      PROVE  Rename(k) \in 0 .. NewSize - 1 /\ Rename(k) \notin kept_ids
  <2>1. Rank(k) \in Nat /\ Rank(k) <= c - 1
    BY <1>1
  <2>2. CASE Rank(k) < f
    <3>1. Rename(k) \in free_ids
      BY <1>4, <1>6, <2>1, <2>2
    <3>2. Rename(k) \in Nat /\ Rename(k) < disk.npts
      BY <1>3, <3>1
    <3> QED BY <1>3, <1>7, <3>1, <3>2 DEF kept_ids
  <2>3. CASE ~(Rank(k) < f)
    <3>1. Rename(k) = disk.npts + Rank(k) - f
      BY <1>3, <1>4, <1>6, <2>1, <2>3
    <3>2. Rename(k) \in Nat /\ Rename(k) >= disk.npts /\ Rename(k) < NewSize
      <4>1. c \in Nat /\ f \in Nat /\ disk.npts \in Nat
        BY <1>1, <1>3
      <4>2. NewSize = disk.npts + c - f
        BY <1>7, <2>1, <2>3, <4>1
      <4> QED BY ONLY <4>1, <4>2, <2>1, <2>3, <3>1
    <3>3. Rename(k) \notin Ids(disk)
      BY <1>3, <3>2
    <3> QED BY <1>7, <3>2, <3>3 DEF kept_ids
  <2> QED BY <2>2, <2>3
<1>9. \A j, k \in Inserted : Rename(j) = Rename(k) => j = k
  BY <1>1, <1>5, <1>6
<1>10. \A i \in Renamed : RenameInverse(i) \in Inserted /\ Rename(RenameInverse(i)) = i
  BY DEF Renamed, RenameInverse
<1>11. \A k \in Inserted : Rename(k) \in Renamed
  BY DEF Renamed
<1>12. ASSUME NEW i \in 0 .. NewSize - 1, i \notin Ids(disk)
       PROVE  i \in Renamed
  <2>1. i \in Nat /\ disk.npts <= i /\ i < NewSize
    BY <1>3, <1>7, <1>12
  <2>0. c \in Nat /\ f \in Nat /\ disk.npts \in Nat
    BY <1>1, <1>3
  <2>2. c - 1 >= f /\ i < disk.npts + c - f
    BY <1>7, <2>0, <2>1
  <2> DEFINE n == i - disk.npts + f
  <2>3. n \in 0 .. c - 1 /\ n >= f
    BY ONLY <2>0, <2>1, <2>2
  <2>4. PICK k \in Inserted : Rank(k) = n
    BY <1>1, <2>3
  <2>5. Rename(k) = disk.npts + n - f
    <3>1. n \in Nat
      BY ONLY <2>0, <2>3
    <3> HIDE DEF n
    <3>2. FreeId(n) = disk.npts + n - f
      BY <1>4, <2>3, <3>1
    <3> QED BY <1>6, <2>4, <3>2
  <2>6. Rename(k) = i
    BY ONLY <2>0, <2>1, <2>5
  <2> QED BY <1>11, <2>6
<1> QED BY <1>7, <1>8, <1>9, <1>10, <1>11, <1>12

-----------------------------------------------------------------------------
(* What the steps share.                                                   *)

(* A merge does not touch the index that it reads, nor its input.          *)
LEMMA Stable ==
  ASSUME UNCHANGED <<disk, mem_tags, deleted_tags>>
  PROVE  /\ free_ids' = free_ids /\ kept_ids' = kept_ids /\ disk_deleted_ids' = disk_deleted_ids
         /\ Inserted' = Inserted /\ NewSize' = NewSize /\ Renamed' = Renamed
         /\ \A k : Rename(k)' = Rename(k)
         /\ \A i : RenameInverse(i)' = RenameInverse(i)
         /\ \A n : NewTags(n)' = NewTags(n)
         /\ \A f : OldVectors(f)' = OldVectors(f) /\ NewVectors(f)' = NewVectors(f)
<1>1. disk_deleted_ids' = disk_deleted_ids /\ Inserted' = Inserted
  BY DEF disk_deleted_ids, Inserted
<1>2. free_ids' = free_ids
  BY <1>1 DEF free_ids
<1>3. kept_ids' = kept_ids
  BY <1>2 DEF kept_ids
<1>4. \A n : FreeId(n)' = FreeId(n)
  BY <1>2 DEF FreeId
<1>5. NewSize' = NewSize /\ \A k : Rename(k)' = Rename(k)
  BY <1>1, <1>4 DEF NewSize, Rename
<1>6. Renamed' = Renamed /\ \A i : RenameInverse(i)' = RenameInverse(i)
  BY <1>1, <1>5 DEF Renamed, RenameInverse
<1>7. \A n : NewTags(n)' = NewTags(n)
  BY <1>1, <1>6 DEF NewTags
<1>8. \A f : OldVectors(f)' = OldVectors(f) /\ NewVectors(f)' = NewVectors(f)
  BY <1>5, <1>6 DEF OldVectors, NewVectors
<1> QED BY <1>1, <1>2, <1>3, <1>5, <1>6, <1>7, <1>8

(* The ids that are kept, and the links of the disk index to them.         *)
LEMMA DiskFacts ==
  ASSUME DiskSound
  PROVE  /\ disk.npts \in Nat /\ \A i \in Ids(disk) : i \in Nat /\ i < disk.npts
         /\ free_ids \subseteq Ids(disk) /\ kept_ids \subseteq Ids(disk)
         /\ disk_deleted_ids \subseteq Ids(disk)
         /\ \A i \in Ids(disk) :
              /\ disk.nbrs[i] \subseteq Ids(disk)
              /\ disk.nbrs[i] \ disk_deleted_ids \subseteq kept_ids
              /\ Cardinality(disk.nbrs[i]) <= range
              /\ i \in kept_ids <=> disk.nbrs[i] # {} /\ i \notin disk_deleted_ids
              /\ i \in kept_ids => disk.tag[i] # Hole /\ disk.tag[i] \notin deleted_tags
              /\ i \notin kept_ids => disk.tag[i] = Hole \/ disk.tag[i] \in deleted_tags
         /\ disk.medoid \in Ids(disk)
         /\ disk.medoid \notin disk_deleted_ids => disk.medoid \in kept_ids
<1>1. disk.npts \in Nat /\ disk.medoid \in Ids(disk) /\ disk.nbrs \in [Ids(disk) -> SUBSET Ids(disk)]
  BY DEF DiskSound, IsIndex
<1>2. \A i \in Ids(disk) : i \in Nat /\ i < disk.npts
  BY <1>1 DEF Ids
<1>3. /\ disk_deleted_ids \subseteq Ids(disk) /\ free_ids \subseteq Ids(disk)
      /\ kept_ids \subseteq Ids(disk)
  BY DEF disk_deleted_ids, free_ids, kept_ids
<1>4. ASSUME NEW i \in Ids(disk)
      PROVE  /\ i \in kept_ids <=> disk.nbrs[i] # {} /\ i \notin disk_deleted_ids
             /\ disk.nbrs[i] = {} <=> disk.tag[i] = Hole
             /\ i \in disk_deleted_ids <=> disk.tag[i] \in deleted_tags
             /\ Cardinality(disk.nbrs[i]) <= range
  BY DEF kept_ids, free_ids, disk_deleted_ids, DiskSound, OnlyHolesUnlinked
<1>5. ASSUME NEW i \in Ids(disk), NEW j \in disk.nbrs[i], j \notin disk_deleted_ids
      PROVE  j \in kept_ids
  <2>1. j \in Ids(disk) /\ disk.tag[j] # Hole
    BY <1>1 DEF DiskSound, NoLinksToHoles
  <2> QED BY <1>4, <1>5, <2>1
<1>6. disk.medoid \notin disk_deleted_ids => disk.medoid \in kept_ids
  BY <1>1, <1>4 DEF DiskSound, NoLinksToHoles
<1>7. \A i \in Ids(disk) : disk.nbrs[i] \subseteq Ids(disk)
  BY <1>1
<1> QED BY <1>1, <1>2, <1>3, <1>4, <1>5, <1>6, <1>7

(* The least of what a loop has left.                                      *)
LEMMA MinFacts ==
  ASSUME NEW S, S \subseteq Nat, S # {}
  PROVE  Min(S) \in S
<1>1. \E x \in S : \A y \in S : x <= y
  BY LeastNatural
<1> QED BY <1>1 DEF Min

(* A node of the output gets other links.                                  *)
LEMMA SetNbrsFacts ==
  ASSUME IsIndex(out), NEW i \in Ids(out), NEW N \in SUBSET Ids(out), SetNbrs(i, N)
  PROVE  /\ IsIndex(out)' /\ Ids(out)' = Ids(out)
         /\ out'.npts = out.npts /\ out'.medoid = out.medoid /\ out'.tag = out.tag
         /\ out'.vec = out.vec /\ out'.pq = out.pq
         /\ out'.nbrs[i] = N /\ \A j \in Ids(out) \ {i} : out'.nbrs[j] = out.nbrs[j]
<1>1. out' = [out EXCEPT !.nbrs = [out.nbrs EXCEPT ![i] = N]]
  BY DEF SetNbrs
<1>2. out = [npts |-> out.npts, medoid |-> out.medoid, tag |-> out.tag,
             vec |-> out.vec, pq |-> out.pq, nbrs |-> out.nbrs]
  BY DEF IsIndex
<1>3. out' = [npts |-> out.npts, medoid |-> out.medoid, tag |-> out.tag,
              vec |-> out.vec, pq |-> out.pq, nbrs |-> [out.nbrs EXCEPT ![i] = N]]
  BY <1>1, <1>2
<1>4. /\ out'.npts = out.npts /\ out'.medoid = out.medoid /\ out'.tag = out.tag
      /\ out'.vec = out.vec /\ out'.pq = out.pq
      /\ out'.nbrs = [out.nbrs EXCEPT ![i] = N]
  BY <1>3
<1>5. Ids(out)' = Ids(out)
  BY <1>4 DEF Ids
<1>6. out.nbrs \in [Ids(out) -> SUBSET Ids(out)]
  BY DEF IsIndex
<1>7. IsIndex(out)'
  BY <1>3, <1>4, <1>5, <1>6 DEF IsIndex
<1> QED BY <1>4, <1>5, <1>6, <1>7

-----------------------------------------------------------------------------
(* process_deletes().                                                      *)

(* The links that replace those to deleted nodes lead to vectors that stay.*)
LEMMA NewEdgesKept ==
  ASSUME DiskSound, NEW i \in Ids(disk)
  PROVE  NewEdges(i) \subseteq kept_ids
<1> SUFFICES ASSUME NEW x \in NewEdges(i) PROVE x \in kept_ids
  OBVIOUS
<1>1. PICK j \in disk.nbrs[i] : x \in IF j \in disk_deleted_ids THEN DeletedNhood(j) ELSE {j}
  BY DEF NewEdges
<1>2. j \in Ids(disk)
  BY DiskFacts
<1>3. CASE j \in disk_deleted_ids
  <2>1. x \in disk.nbrs[j] \ disk_deleted_ids
    BY <1>1, <1>3 DEF DeletedNhood
  <2> QED BY <1>2, <2>1, DiskFacts
<1>4. CASE j \notin disk_deleted_ids
  <2>1. x = j
    BY <1>1, <1>4
  <2> QED BY <1>4, <2>1, DiskFacts
<1> QED BY <1>3, <1>4

(* What a step that leaves the input of the merge alone has to preserve.   *)
LEMMA MergeGoesOn ==
  ASSUME IInv, UNCHANGED <<disk, mem_tags, deleted_tags, merges, live>>, pc # "idle",
         pc' \in {"deletes", "rename", "inserts", "merges", "exit"},
         IsIndex(out)', disk.npts <= out'.npts, todo' \subseteq Nat,
         DOMAIN mem_delta' \subseteq Inserted,
         \A k \in DOMAIN mem_delta' : mem_delta'[k] \subseteq Ids(disk),
         pc' = "deletes" => InDeletes', pc' = "rename" => InRename',
         pc' = "inserts" => InInserts', pc' = "merges" => InMerges'
  PROVE  IInv'
<1>0. DiskSound
  BY DEF IInv
<1>1. DiskSound' /\ IsIndex(disk)' /\ Ids(disk)' = Ids(disk) /\ Tags(disk)' = Tags(disk)
  <2>1. Ids(disk)' = Ids(disk) /\ Tags(disk)' = Tags(disk)
    BY DEF Ids, Tags
  <2>2. IsIndex(disk)'
    BY <1>0, <2>1 DEF DiskSound, IsIndex
  <2>3. DiskSound'
    BY <1>0, <2>1, <2>2
    DEF DiskSound, VectorsUnderTags, NoLinksToHoles, OnlyHolesUnlinked
  <2> QED BY <2>1, <2>2, <2>3
<1>2. Merging'
  BY <1>1 DEF IInv, Merging, TagsOf
<1>3. TypeOK'
  BY <1>1, Stable DEF IInv, TypeOK, TagsOf
<1> QED BY <1>1, <1>2, <1>3 DEF IInv

(* consolidate_deletes() leaves each node links to vectors that stay, and  *)
(* no links only to those that do not.                                     *)
LEMMA ConsolidateStep == IInv /\ Consolidate => IInv'
<1> SUFFICES ASSUME IInv, Consolidate PROVE IInv'
  OBVIOUS
<1> DEFINE i == Min(todo)
<1>1. /\ pc = "deletes" /\ todo # {} /\ todo \subseteq Ids(disk) /\ Ids(out) = Ids(disk)
      /\ IsIndex(out) /\ DiskSound /\ InDeletes
      /\ UNCHANGED <<disk, mem_tags, deleted_tags, mem_delta, merges, live>>
      /\ todo' = todo \ {i}
  BY DEF IInv, Consolidate, InDeletes, TypeOK, Ids
<1>2. i \in todo /\ i \in Ids(disk) /\ i \in Ids(out)
  <2>1. todo \subseteq Nat
    BY DEF IInv, TypeOK
  <2> QED BY <1>1, <2>1, MinFacts
<1> HIDE DEF i
<1>3. range \in Nat \ {0}
  BY IndexMergerAssumption
<1>4. \/ /\ pc' = "exit" /\ UNCHANGED out
      \/ /\ pc' = pc
         /\ \E N \in SUBSET kept_ids :
              /\ \/ SetNbrs(i, N)
                 \/ out' = out /\ N = out.nbrs[i]
              /\ Cardinality(N) <= range /\ (N = {} <=> i \notin kept_ids)
  <2>1. CASE (i \in disk_deleted_ids \/ disk.nbrs[i] = {}) /\ SetNbrs(i, {}) /\ pc' = pc
    <3>1. i \notin kept_ids
      BY <1>1, <1>2, <2>1, DiskFacts
    <3>2. Cardinality({}) <= range
      BY <1>3, FS_EmptySet
    <3> QED BY <2>1, <3>1, <3>2
  <2>2. CASE /\ i \notin disk_deleted_ids /\ disk.nbrs[i] # {}
             /\ disk.nbrs[i] \cap disk_deleted_ids = {} /\ UNCHANGED <<out, pc>>
    <3>1. out.nbrs[i] = disk.nbrs[i]
      BY <1>1, <1>2 DEF InDeletes
    <3>2. i \in kept_ids /\ Cardinality(disk.nbrs[i]) <= range
      BY <1>1, <1>2, <2>2, DiskFacts
    <3>3. disk.nbrs[i] \subseteq kept_ids
      BY <1>1, <1>2, <2>2, DiskFacts
    <3> QED BY <2>2, <3>1, <3>2, <3>3
  <2>3. CASE /\ i \notin disk_deleted_ids /\ disk.nbrs[i] \cap disk_deleted_ids # {}
             /\ NewEdges(i) = {} /\ pc' = "exit" /\ UNCHANGED out
    BY <2>3
  <2>4. CASE /\ i \notin disk_deleted_ids /\ disk.nbrs[i] \cap disk_deleted_ids # {}
             /\ \E N \in (SUBSET NewEdges(i)) \ {{}} : Cardinality(N) <= range /\ SetNbrs(i, N)
             /\ pc' = pc
    <3>1. PICK N \in (SUBSET NewEdges(i)) \ {{}} : Cardinality(N) <= range /\ SetNbrs(i, N)
      BY <2>4
    <3>2. NewEdges(i) \subseteq kept_ids
      BY <1>1, <1>2, NewEdgesKept
    <3>3. i \in kept_ids
      <4>1. disk.nbrs[i] # {}
        BY <2>4
      <4> QED BY <1>1, <1>2, <2>4, <4>1, DiskFacts
    <3>4. N \in SUBSET kept_ids /\ N # {}
      BY <3>1, <3>2
    <3> QED BY <2>4, <3>1, <3>3, <3>4
  <2> QED BY <2>1, <2>2, <2>3, <2>4 DEF Consolidate, i
<1>5. CASE pc' = "exit" /\ UNCHANGED out
  <2>1. /\ IsIndex(out)' /\ disk.npts <= out'.npts /\ todo' \subseteq Nat
        /\ DOMAIN mem_delta' \subseteq Inserted
        /\ \A k \in DOMAIN mem_delta' : mem_delta'[k] \subseteq Ids(disk)
    BY <1>1, <1>5 DEF IInv, TypeOK, IsIndex, Ids
  <2> QED BY <1>1, <1>5, <2>1, MergeGoesOn
<1>6. CASE pc' = pc /\ \E N \in SUBSET kept_ids :
             /\ \/ SetNbrs(i, N)
                \/ out' = out /\ N = out.nbrs[i]
             /\ Cardinality(N) <= range /\ (N = {} <=> i \notin kept_ids)
  <2>1. PICK N \in SUBSET kept_ids :
          /\ \/ SetNbrs(i, N)
             \/ out' = out /\ N = out.nbrs[i]
          /\ Cardinality(N) <= range /\ (N = {} <=> i \notin kept_ids)
    BY <1>6
  <2>2. N \in SUBSET Ids(out)
    BY <1>1, DiskFacts
  <2>3. /\ IsIndex(out)'
        /\ out'.npts = out.npts /\ out'.medoid = out.medoid /\ out'.tag = out.tag
        /\ out'.vec = out.vec /\ out'.pq = out.pq
        /\ out'.nbrs[i] = N /\ \A j \in Ids(out) \ {i} : out'.nbrs[j] = out.nbrs[j]
    <3>1. CASE SetNbrs(i, N)
      BY <1>1, <1>2, <2>2, <3>1, SetNbrsFacts
    <3>2. CASE out' = out /\ N = out.nbrs[i]
      BY <1>1, <3>2 DEF IsIndex, Ids
    <3> QED BY <2>1, <3>1, <3>2
  <2>4. Ids(disk)' = Ids(disk) /\ kept_ids' = kept_ids
    BY <1>1, Stable DEF Ids
  <2>5. \A j \in Ids(disk) \ todo' : Consolidated(j)'
    <3> SUFFICES ASSUME NEW j \in Ids(disk) \ todo' PROVE Consolidated(j)'
      OBVIOUS
    <3>1. CASE j = i
      BY <2>1, <2>3, <2>4, <3>1 DEF Consolidated
    <3>2. CASE j # i
      <4>1. Consolidated(j) /\ out'.nbrs[j] = out.nbrs[j]
        BY <1>1, <2>3, <3>2 DEF InDeletes
      <4> QED BY <2>4, <4>1 DEF Consolidated
    <3> QED BY <3>1, <3>2
  <2>6. \A j \in todo' : out'.nbrs[j] = disk.nbrs[j]
    BY <1>1, <2>3 DEF InDeletes
  <2>7. InDeletes'
    BY <1>1, <2>3, <2>4, <2>5, <2>6 DEF InDeletes
  <2>8. disk.npts <= out'.npts /\ todo' \subseteq Nat /\ DOMAIN mem_delta' \subseteq Inserted
        /\ \A k \in DOMAIN mem_delta' : mem_delta'[k] \subseteq Ids(disk)
    BY <1>1, <2>3 DEF IInv, TypeOK
  <2> QED BY <1>1, <1>6, <2>3, <2>7, <2>8, MergeGoesOn
<1> QED BY <1>4, <1>5, <1>6

(* The entry point is handed over to a vector that stays.                  *)
LEMMA HeaderStep == IInv /\ Header => IInv'
<1> SUFFICES ASSUME IInv, Header PROVE IInv'
  OBVIOUS
<1>1. /\ pc = "deletes" /\ todo = {} /\ IsIndex(out) /\ DiskSound /\ InDeletes
      /\ UNCHANGED <<disk, mem_tags, deleted_tags, todo, mem_delta, merges, live>>
      /\ Ids(out) = Ids(disk)
  BY DEF IInv, Header, InDeletes, TypeOK, Ids
<1>2. /\ disk.npts <= out.npts /\ todo' \subseteq Nat /\ DOMAIN mem_delta' \subseteq Inserted
      /\ \A k \in DOMAIN mem_delta' : mem_delta'[k] \subseteq Ids(disk)
  BY <1>1 DEF IInv, TypeOK
<1>3. CASE NewMedoid = {} /\ pc' = "exit" /\ UNCHANGED out
  <2>1. IsIndex(out)' /\ disk.npts <= out'.npts
    BY <1>1, <1>2, <1>3 DEF IsIndex, Ids
  <2> QED BY <1>1, <1>2, <1>3, <2>1, MergeGoesOn
<1>4. CASE (\E m \in NewMedoid : out' = [out EXCEPT !.medoid = m]) /\ pc' = "rename"
  <2>1. PICK m \in NewMedoid : out' = [out EXCEPT !.medoid = m]
    BY <1>4
  <2>2. m \in kept_ids /\ m \in Ids(out)
    <3>1. CASE disk.medoid \in disk_deleted_ids
      <4>1. m \in disk.nbrs[disk.medoid] \ disk_deleted_ids
        BY <3>1 DEF NewMedoid, DeletedNhood
      <4> QED BY <1>1, <4>1, DiskFacts
    <3>2. CASE disk.medoid \notin disk_deleted_ids
      <4>1. m = disk.medoid
        BY <3>2 DEF NewMedoid
      <4> QED BY <1>1, <3>2, <4>1, DiskFacts
    <3> QED BY <3>1, <3>2
  <2>3. out = [npts |-> out.npts, medoid |-> out.medoid, tag |-> out.tag,
               vec |-> out.vec, pq |-> out.pq, nbrs |-> out.nbrs]
    BY <1>1 DEF IsIndex
  <2>4. out' = [npts |-> out.npts, medoid |-> m, tag |-> out.tag,
                vec |-> out.vec, pq |-> out.pq, nbrs |-> out.nbrs]
    BY <2>1, <2>3
  <2>5. /\ out'.npts = out.npts /\ out'.medoid = m /\ out'.tag = out.tag
        /\ out'.vec = out.vec /\ out'.pq = out.pq /\ out'.nbrs = out.nbrs
    BY <2>4
  <2>6. Ids(out)' = Ids(out) /\ Ids(disk)' = Ids(disk) /\ kept_ids' = kept_ids
    BY <1>1, <2>5, Stable DEF Ids
  <2>7. IsIndex(out)'
    BY <1>1, <2>2, <2>4, <2>5, <2>6 DEF IsIndex
  <2>8. InRename'
    BY <1>1, <2>2, <2>5, <2>6 DEF InDeletes, InRename, Consolidated
  <2> QED BY <1>1, <1>2, <1>4, <2>5, <2>7, <2>8, MergeGoesOn
<1> QED BY <1>3, <1>4 DEF Header

-----------------------------------------------------------------------------
(* compute_rename_map() and the reload.                                    *)

(* The index is loaded again with room for the new vectors.                *)
LEMMA RenameAndReloadStep == IInv /\ RenameAndReload => IInv'
<1> SUFFICES ASSUME IInv, RenameAndReload PROVE IInv'
  OBVIOUS
<1>1. /\ pc = "rename" /\ IsIndex(out) /\ IsIndex(disk) /\ DiskSound /\ InRename
      /\ UNCHANGED <<disk, mem_tags, deleted_tags, mem_delta, merges, live>>
      /\ Ids(out) = Ids(disk) /\ mem_tags \in Seq(TagsOf(mem_tags))
      /\ todo \subseteq Nat /\ DOMAIN mem_delta \subseteq Inserted
      /\ \A k \in DOMAIN mem_delta : mem_delta[k] \subseteq Ids(disk)
      /\ disk.npts <= out.npts
  BY DEF IInv, RenameAndReload, InRename, TypeOK, Ids
<1>2. CASE Inserted = {} /\ pc' = "exit" /\ UNCHANGED <<out, todo>>
  <2>1. IsIndex(out)' /\ disk.npts <= out'.npts
    BY <1>1, <1>2 DEF IsIndex, Ids
  <2> QED BY <1>1, <1>2, <2>1, MergeGoesOn
<1>3. CASE Inserted # {} /\ pc' = "inserts" /\ todo' = Inserted
  <2>1. disk.npts \in Nat /\ NewSize \in Nat /\ disk.npts <= NewSize
    BY <1>1, <1>3, RenameFacts DEF IsIndex
  <2> DEFINE nbrs == [i \in 0 .. NewSize - 1 |-> IF i \in Ids(disk) THEN out.nbrs[i] ELSE {}]
  <2>2. out' = [out EXCEPT !.npts = NewSize, !.tag = NewTags(NewSize),
                  !.vec = OldVectors(disk.vec), !.pq = OldVectors(disk.pq), !.nbrs = nbrs]
    BY <1>3 DEF RenameAndReload, OldVectors
  <2>3. out = [npts |-> out.npts, medoid |-> out.medoid, tag |-> out.tag,
               vec |-> out.vec, pq |-> out.pq, nbrs |-> out.nbrs]
    BY <1>1 DEF IsIndex
  <2>4. /\ out' = [npts |-> NewSize, medoid |-> out.medoid, tag |-> NewTags(NewSize),
                   vec |-> OldVectors(disk.vec), pq |-> OldVectors(disk.pq), nbrs |-> nbrs]
        /\ out'.npts = NewSize /\ out'.medoid = out.medoid /\ out'.tag = NewTags(NewSize)
        /\ out'.vec = OldVectors(disk.vec) /\ out'.pq = OldVectors(disk.pq)
        /\ out'.nbrs = nbrs
    BY <2>2, <2>3
  <2>5. Ids(out)' = 0 .. NewSize - 1 /\ Ids(disk) \subseteq 0 .. NewSize - 1
    BY <2>1, <2>4 DEF Ids
  <2>6. kept_ids \subseteq Ids(disk) /\ out.medoid \in kept_ids
    BY <1>1, DiskFacts DEF InRename
  <2>7. nbrs \in [0 .. NewSize - 1 -> SUBSET (0 .. NewSize - 1)]
    BY <1>1, <2>5, <2>6 DEF InRename, Consolidated
  <2>8. /\ NewTags(NewSize) = [i \in 0 .. NewSize - 1 |-> NewTags(NewSize)[i]]
        /\ \A f : OldVectors(f) = [i \in 0 .. NewSize - 1 |-> OldVectors(f)[i]]
    BY DEF NewTags, OldVectors
  <2>9. IsIndex(out)'
    <3> HIDE DEF nbrs
    <3> QED BY <2>1, <2>4, <2>5, <2>6, <2>7, <2>8 DEF IsIndex
  <2>10. /\ kept_ids' = kept_ids /\ Inserted' = Inserted /\ NewSize' = NewSize
         /\ NewTags(NewSize)' = NewTags(NewSize)
         /\ OldVectors(disk.vec)' = OldVectors(disk.vec)
         /\ OldVectors(disk.pq)' = OldVectors(disk.pq)
    BY <1>1, Stable
  <2>11. \A i \in Ids(out)' : Consolidated(i)'
    <3> SUFFICES ASSUME NEW i \in Ids(out)' PROVE Consolidated(i)'
      OBVIOUS
    <3>1. CASE i \in Ids(disk)
      BY <1>1, <2>4, <2>5, <2>10, <3>1 DEF InRename, Consolidated
    <3>2. CASE i \notin Ids(disk)
      <4>1. out'.nbrs[i] = {} /\ i \notin kept_ids
        BY <2>4, <2>5, <2>6, <3>2
      <4>2. Cardinality({}) <= range
        BY FS_EmptySet, IndexMergerAssumption
      <4> QED BY <2>10, <4>1, <4>2 DEF Consolidated
    <3> QED BY <3>1, <3>2
  <2>12. mem_delta = <<>> /\ DOMAIN mem_delta = {}
    BY <1>1 DEF InRename
  <2>13. InInserts'
    BY <1>1, <1>3, <2>4, <2>6, <2>10, <2>11, <2>12 DEF InInserts, Reloaded
  <2>14. todo' \subseteq Nat
    BY <1>1, <1>3, RankFacts
  <2> QED BY <1>1, <1>3, <2>1, <2>4, <2>9, <2>13, <2>14, MergeGoesOn
<1> QED BY <1>2, <1>3 DEF RenameAndReload

-----------------------------------------------------------------------------
(* process_inserts().                                                      *)

(* A search does not come to an id that is given away, or is about to be.  *)
LEMMA ReachedKept ==
  ASSUME IsIndex(out), kept_ids \subseteq Ids(out), out.medoid \in kept_ids,
         \A i \in Ids(out) : out.nbrs[i] \subseteq kept_ids
  PROVE  Reached \subseteq kept_ids /\ out.medoid \in Reached
<1>1. Reached \subseteq kept_ids
  BY DEF Reached
<1>2. out.medoid \in Reached
  BY DEF Reached
<1> QED BY <1>1, <1>2

(* A new vector gets a neighbourhood, of vectors that stay.                *)
LEMMA InsertMemVecStep == IInv /\ InsertMemVec => IInv'
<1> SUFFICES ASSUME IInv, InsertMemVec PROVE IInv'
  OBVIOUS
<1> DEFINE k == Min(todo)
           pool == Reached \ disk_deleted_ids
           size == Min({range, Cardinality(pool)})
<1>1. /\ pc = "inserts" /\ todo # {} /\ IsIndex(out) /\ IsIndex(disk) /\ DiskSound /\ InInserts
      /\ UNCHANGED <<disk, out, mem_tags, deleted_tags, pc, merges, live>>
      /\ todo' = todo \ {k} /\ mem_tags \in Seq(TagsOf(mem_tags))
      /\ todo \subseteq Nat /\ disk.npts <= out.npts /\ DOMAIN mem_delta \subseteq Inserted
      /\ \A j \in DOMAIN mem_delta : mem_delta[j] \subseteq Ids(disk)
  BY DEF IInv, InsertMemVec, TypeOK
<1>2. k \in todo /\ k \in Inserted
  BY <1>1, MinFacts DEF InInserts
<1>3. PICK N \in kSubset(size, pool) :
        mem_delta' = [j \in DOMAIN mem_delta \cup {k} |-> IF j = k THEN N ELSE mem_delta[j]]
  BY DEF InsertMemVec
<1>4. /\ kept_ids \subseteq Ids(out) /\ kept_ids \subseteq Ids(disk)
      /\ IsFiniteSet(Ids(disk)) /\ kept_ids \cap disk_deleted_ids = {}
  <2>1. disk.npts \in Nat /\ out.npts \in Nat
    BY <1>1 DEF IsIndex
  <2>2. Ids(disk) \subseteq Ids(out)
    BY <1>1, <2>1 DEF Ids
  <2>3. IsFiniteSet(Ids(disk))
    <3>1. 0 \in Int /\ disk.npts - 1 \in Int
      BY <2>1
    <3> QED BY ONLY <3>1, FS_Interval DEF Ids
  <2>4. kept_ids \subseteq Ids(disk) /\ kept_ids \cap disk_deleted_ids = {}
    BY <1>1, DiskFacts
  <2> QED BY <2>2, <2>3, <2>4
<1>5. Reached \subseteq kept_ids /\ out.medoid \in Reached
  <2>1. out.medoid \in kept_ids /\ \A i \in Ids(out) : out.nbrs[i] \subseteq kept_ids
    BY <1>1 DEF InInserts, Reloaded, Consolidated
  <2> QED BY <1>1, <1>4, <2>1, ReachedKept
<1>6. pool \subseteq kept_ids /\ pool # {} /\ IsFiniteSet(pool) /\ Cardinality(pool) \in Nat \ {0}
  <2>1. pool \subseteq kept_ids /\ pool # {}
    BY <1>4, <1>5
  <2>2. IsFiniteSet(pool)
    BY <1>4, <2>1, FS_Subset
  <2> QED BY <2>1, <2>2, FS_CardinalityType, FS_EmptySet
<1> HIDE DEF pool
<1>7. size \in Nat \ {0} /\ size <= range
  <2>1. range \in Nat \ {0}
    BY IndexMergerAssumption
  <2> DEFINE S == {range, Cardinality(pool)}
  <2>2. S \subseteq Nat \ {0} /\ S # {} /\ range \in S
    BY <1>6, <2>1
  <2> HIDE DEF S
  <2>3. PICK x \in S : \A y \in S : x <= y
    BY <2>2, LeastNatural
  <2>4. Min(S) \in S /\ \A y \in S : Min(S) <= y
    BY <2>3 DEF Min
  <2> QED BY <2>2, <2>4 DEF S
<1>8. N \subseteq pool /\ Cardinality(N) = size
  BY DEF kSubset
<1> HIDE DEF size, k
<1>9. N \subseteq kept_ids /\ N # {} /\ Cardinality(N) <= range
  BY <1>6, <1>7, <1>8, FS_EmptySet
<1>10. /\ kept_ids' = kept_ids /\ Inserted' = Inserted /\ NewSize' = NewSize
       /\ NewTags(NewSize)' = NewTags(NewSize)
       /\ OldVectors(disk.vec)' = OldVectors(disk.vec)
       /\ OldVectors(disk.pq)' = OldVectors(disk.pq)
  BY <1>1, Stable
<1>11. Ids(out)' = Ids(out) /\ IsIndex(out)'
  BY <1>1 DEF Ids, IsIndex
<1>12. /\ DOMAIN mem_delta' = Inserted \ todo'
       /\ \A j \in DOMAIN mem_delta' :
            mem_delta'[j] = N \/ (j \in DOMAIN mem_delta /\ mem_delta'[j] = mem_delta[j])
  BY <1>1, <1>2, <1>3 DEF InInserts
<1>13. \A j \in DOMAIN mem_delta' : Searched(j)'
  BY <1>1, <1>9, <1>10, <1>12 DEF InInserts, Searched
<1>14. InInserts'
  <2>1. Reloaded'
    BY <1>1, <1>10 DEF InInserts, Reloaded
  <2>2. \A i \in Ids(out)' : Consolidated(i)'
    BY <1>1, <1>10, <1>11 DEF InInserts, Consolidated
  <2> QED BY <1>1, <1>10, <1>12, <1>13, <2>1, <2>2 DEF InInserts
<1>15. \A j \in DOMAIN mem_delta' : mem_delta'[j] \subseteq Ids(disk)
  BY <1>4, <1>10, <1>13 DEF Searched
<1> QED BY <1>1, <1>11, <1>12, <1>14, <1>15, MergeGoesOn

(* The PQ codes of the new vectors are written.                            *)
LEMMA InsertsPQStep == IInv /\ InsertsPQ => IInv'
<1> SUFFICES ASSUME IInv, InsertsPQ PROVE IInv'
  OBVIOUS
<1> DEFINE pq == [i \in Ids(out) |-> IF i \in Renamed THEN mem_tags[RenameInverse(i)]
                                     ELSE out.pq[i]]
<1>1. /\ pc = "inserts" /\ todo = {} /\ IsIndex(out) /\ IsIndex(disk) /\ DiskSound /\ InInserts
      /\ UNCHANGED <<disk, mem_tags, deleted_tags, mem_delta, merges, live>>
      /\ pc' = "merges" /\ todo' = Ids(out) /\ out' = [out EXCEPT !.pq = pq]
      /\ disk.npts <= out.npts /\ DOMAIN mem_delta \subseteq Inserted
      /\ \A j \in DOMAIN mem_delta : mem_delta[j] \subseteq Ids(disk)
  BY DEF IInv, InsertsPQ, TypeOK
<1>2. out = [npts |-> out.npts, medoid |-> out.medoid, tag |-> out.tag,
             vec |-> out.vec, pq |-> out.pq, nbrs |-> out.nbrs]
  BY <1>1 DEF IsIndex
<1>3. /\ out' = [npts |-> out.npts, medoid |-> out.medoid, tag |-> out.tag,
                 vec |-> out.vec, pq |-> pq, nbrs |-> out.nbrs]
      /\ out'.npts = out.npts /\ out'.medoid = out.medoid /\ out'.tag = out.tag
      /\ out'.vec = out.vec /\ out'.pq = pq /\ out'.nbrs = out.nbrs
  BY <1>1, <1>2
<1>4. Ids(out)' = Ids(out) /\ out.npts = NewSize /\ Ids(out) = 0 .. NewSize - 1
  BY <1>1, <1>3 DEF Ids, InInserts, Reloaded
<1>5. pq = NewVectors(disk.pq)
  BY <1>1, <1>4 DEF InInserts, OldVectors, NewVectors
<1>6. IsIndex(out)'
  BY <1>1, <1>3, <1>4 DEF IsIndex
<1> HIDE DEF pq
<1>7. /\ kept_ids' = kept_ids /\ Inserted' = Inserted /\ NewSize' = NewSize
      /\ NewTags(NewSize)' = NewTags(NewSize)
      /\ OldVectors(disk.vec)' = OldVectors(disk.vec)
      /\ NewVectors(disk.pq)' = NewVectors(disk.pq)
  BY <1>1, Stable
<1>8. Reloaded'
  BY <1>1, <1>3, <1>7 DEF InInserts, Reloaded
<1>9. \A k \in Inserted : Searched(k)'
  BY <1>1, <1>7 DEF InInserts, Searched
<1>10. \A i \in todo' : Consolidated(i)' /\ out'.vec[i] = OldVectors(disk.vec)[i]
  BY <1>1, <1>3, <1>7 DEF InInserts, Consolidated
<1>11. InMerges'
  BY <1>1, <1>3, <1>4, <1>5, <1>7, <1>8, <1>9, <1>10 DEF InInserts, InMerges
<1>12. todo' \subseteq Nat /\ disk.npts <= out'.npts
  BY <1>1, <1>3 DEF Ids, IsIndex
<1> QED BY <1>1, <1>6, <1>11, <1>12, MergeGoesOn

-----------------------------------------------------------------------------
(* process_merges().                                                       *)

(* The nodes that link to node i, by their new ids.                        *)
LEMMA DiskDeltaFacts ==
  ASSUME IsIndex(disk), mem_tags \in Seq(TagsOf(mem_tags)), Inserted # {},
         DOMAIN mem_delta = Inserted, NEW i
  PROVE  /\ IsFiniteSet(DiskDelta(i)) /\ DiskDelta(i) \subseteq Renamed
         /\ \A k \in Inserted : i \in mem_delta[k] => Rename(k) \in DiskDelta(i)
         /\ (\A k \in Inserted : i \notin mem_delta[k]) => DiskDelta(i) = {}
<1>1. IsFiniteSet(Renamed)
  <2>1. NewSize \in Nat /\ Renamed \subseteq 0 .. NewSize - 1
    BY RenameFacts DEF Renamed
  <2>2. Renamed \subseteq 0 .. NewSize
    BY <2>1
  <2> QED BY <2>1, <2>2, BoundedFinite
<1>2. DiskDelta(i) \subseteq Renamed
  BY DEF DiskDelta, Renamed
<1> QED BY <1>1, <1>2, FS_Subset DEF DiskDelta

(* A pruned neighbourhood has what it needs of the one it is made of.      *)
LEMMA PrunedFacts ==
  ASSUME NEW S, IsFiniteSet(S), NEW N \in Pruned(S)
  PROVE  /\ N \subseteq S /\ Cardinality(N) <= range /\ (N = {} <=> S = {})
         /\ N = S \/ Cardinality(N) = range
         /\ Cardinality(S) <= range => N = S
<1>1. range \in Nat \ {0} /\ Cardinality(S) \in Nat
  BY IndexMergerAssumption, FS_CardinalityType
<1>2. CASE Cardinality(S) > range
  <2>1. N \subseteq S /\ Cardinality(N) = range
    BY <1>2 DEF Pruned, kSubset
  <2>2. N # {} /\ S # {}
    BY <1>1, <1>2, <2>1, FS_EmptySet
  <2> QED BY <1>1, <1>2, <2>1, <2>2
<1>3. CASE ~(Cardinality(S) > range)
  <2>1. N = S
    BY <1>3 DEF Pruned
  <2> QED BY <1>1, <1>3, <2>1
<1> QED BY <1>2, <1>3

(* The links of a node that is not a new one, before and after it is       *)
(* merged, and the links of a new one.                                     *)
LEMMA NhoodFacts ==
  ASSUME IInv, pc = "merges", NEW i \in todo, NEW N \in Pruned(Nhood(i))
  PROVE  /\ N \subseteq kept_ids \cup Renamed
         /\ i \in Renamed => N = mem_delta[RenameInverse(i)]
         /\ i \notin Renamed =>
              /\ Cardinality(N) <= range /\ (N = {} <=> i \notin kept_ids)
              /\ \A k \in Inserted : i \in mem_delta[k] =>
                   Rename(k) \in N \/ Cardinality(N) = range
<1>1. /\ InMerges /\ IsIndex(disk) /\ DiskSound /\ mem_tags \in Seq(TagsOf(mem_tags))
      /\ Inserted # {} /\ DOMAIN mem_delta = Inserted
      /\ \A k \in Inserted : Searched(k)
      /\ Consolidated(i)
  BY DEF IInv, TypeOK, InMerges, Reloaded
<1>2. IsFiniteSet(kept_ids)
  <2>1. disk.npts \in Nat /\ kept_ids \subseteq 0 .. disk.npts - 1
    BY <1>1, DiskFacts DEF Ids
  <2>2. kept_ids \subseteq 0 .. disk.npts
    BY <2>1
  <2> QED BY <2>1, <2>2, BoundedFinite
<1>3. CASE i \in Renamed
  <2> DEFINE k == RenameInverse(i)
  <2>1. k \in Inserted
    BY <1>1, <1>3, RenameFacts
  <2>2. Nhood(i) = mem_delta[k]
    BY <1>3 DEF Nhood
  <2> HIDE DEF k
  <2>3. mem_delta[k] \subseteq kept_ids /\ Cardinality(mem_delta[k]) <= range
    BY <1>1, <2>1 DEF Searched
  <2>4. IsFiniteSet(mem_delta[k])
    BY <1>2, <2>3, FS_Subset
  <2>5. N = mem_delta[k]
    BY <2>2, <2>3, <2>4, PrunedFacts
  <2> QED BY <1>3, <2>3, <2>5 DEF k
<1>4. CASE i \notin Renamed
  <2>1. Nhood(i) = out.nbrs[i] \cup DiskDelta(i)
    BY <1>4 DEF Nhood
  <2>2. /\ IsFiniteSet(DiskDelta(i)) /\ DiskDelta(i) \subseteq Renamed
        /\ \A k \in Inserted : i \in mem_delta[k] => Rename(k) \in DiskDelta(i)
        /\ (\A k \in Inserted : i \notin mem_delta[k]) => DiskDelta(i) = {}
    BY <1>1, DiskDeltaFacts
  <2>3. out.nbrs[i] \subseteq kept_ids /\ (out.nbrs[i] = {} <=> i \notin kept_ids)
    BY <1>1 DEF Consolidated
  <2>4. IsFiniteSet(Nhood(i))
    BY <1>2, <2>1, <2>2, <2>3, FS_Subset, FS_Union
  <2>5. i \notin kept_ids => DiskDelta(i) = {}
    BY <1>1, <2>2 DEF Searched
  <2>6. /\ N \subseteq Nhood(i) /\ Cardinality(N) <= range /\ (N = {} <=> Nhood(i) = {})
        /\ N = Nhood(i) \/ Cardinality(N) = range
    BY <2>4, PrunedFacts
  <2>7. Nhood(i) = {} <=> i \notin kept_ids
    BY <2>1, <2>3, <2>5
  <2>8. N \subseteq kept_ids \cup Renamed
    BY <2>1, <2>2, <2>3, <2>6
  <2>9. \A k \in Inserted : i \in mem_delta[k] => Rename(k) \in N \/ Cardinality(N) = range
    BY <2>1, <2>2, <2>6
  <2> QED BY <1>4, <2>6, <2>7, <2>8, <2>9
<1> QED BY <1>3, <1>4

(* A node gets its links, and a new one its vector.                        *)
LEMMA MergeNodeStep == IInv /\ MergeNode => IInv'
<1> SUFFICES ASSUME IInv, MergeNode PROVE IInv'
  OBVIOUS
<1> DEFINE i == Min(todo)
           v == IF i \in Renamed THEN mem_tags[RenameInverse(i)] ELSE out.vec[i]
<1>1. /\ pc = "merges" /\ todo # {} /\ IsIndex(out) /\ IsIndex(disk) /\ DiskSound /\ InMerges
      /\ UNCHANGED <<disk, mem_tags, deleted_tags, pc, mem_delta, merges, live>>
      /\ todo' = todo \ {i} /\ mem_tags \in Seq(TagsOf(mem_tags))
      /\ todo \subseteq Nat /\ disk.npts <= out.npts /\ DOMAIN mem_delta \subseteq Inserted
      /\ \A j \in DOMAIN mem_delta : mem_delta[j] \subseteq Ids(disk)
  BY DEF IInv, MergeNode, TypeOK
<1>2. i \in todo /\ i \in Ids(out)
  BY <1>1, MinFacts DEF InMerges
<1>3. PICK N \in Pruned(Nhood(i)) : out' = [out EXCEPT !.nbrs[i] = N, !.vec[i] = v]
  BY DEF MergeNode
<1> HIDE DEF i
<1>4. /\ N \subseteq kept_ids \cup Renamed
      /\ i \in Renamed => N = mem_delta[RenameInverse(i)]
      /\ i \notin Renamed =>
           /\ Cardinality(N) <= range /\ (N = {} <=> i \notin kept_ids)
           /\ \A k \in Inserted : i \in mem_delta[k] =>
                Rename(k) \in N \/ Cardinality(N) = range
  BY <1>1, <1>2, NhoodFacts
<1>5. v = NewVectors(disk.vec)[i]
  <2>1. i \in 0 .. NewSize - 1 /\ out.vec[i] = OldVectors(disk.vec)[i]
    BY <1>1, <1>2 DEF InMerges, Reloaded, Ids
  <2> QED BY <2>1 DEF OldVectors, NewVectors
<1> HIDE DEF v
<1>6. /\ out' = [npts |-> out.npts, medoid |-> out.medoid, tag |-> out.tag,
                 vec |-> [out.vec EXCEPT ![i] = v], pq |-> out.pq,
                 nbrs |-> [out.nbrs EXCEPT ![i] = N]]
      /\ out'.npts = out.npts /\ out'.medoid = out.medoid /\ out'.tag = out.tag
      /\ out'.vec = [out.vec EXCEPT ![i] = v] /\ out'.pq = out.pq
      /\ out'.nbrs = [out.nbrs EXCEPT ![i] = N]
  <2>1. out = [npts |-> out.npts, medoid |-> out.medoid, tag |-> out.tag,
               vec |-> out.vec, pq |-> out.pq, nbrs |-> out.nbrs]
    BY <1>1 DEF IsIndex
  <2>2. out' = [npts |-> out.npts, medoid |-> out.medoid, tag |-> out.tag,
                vec |-> [out.vec EXCEPT ![i] = v], pq |-> out.pq,
                nbrs |-> [out.nbrs EXCEPT ![i] = N]]
    BY <1>3, <2>1
  <2> QED BY <2>2
<1>7. Ids(out)' = Ids(out)
  BY <1>6 DEF Ids
<1>8. N \subseteq Ids(out)
  <2>1. Ids(out) = 0 .. NewSize - 1 /\ disk.npts \in Nat /\ out.npts \in Nat
    BY <1>1 DEF InMerges, Reloaded, Ids, IsIndex
  <2>2. Inserted # {}
    BY <1>1 DEF InMerges, Reloaded
  <2>3. Renamed \subseteq Ids(out)
    BY <1>1, <2>1, <2>2, RenameFacts DEF Renamed
  <2>4. kept_ids \subseteq Ids(out)
    BY <1>1, <2>1, DiskFacts DEF Ids
  <2> QED BY <1>4, <2>3, <2>4
<1>9. /\ out.vec = [j \in Ids(out) |-> out.vec[j]]
      /\ out.nbrs \in [Ids(out) -> SUBSET Ids(out)]
  BY <1>1 DEF IsIndex
<1>10. /\ out'.vec = [j \in Ids(out) |-> out'.vec[j]]
       /\ out'.nbrs \in [Ids(out) -> SUBSET Ids(out)]
       /\ out'.vec[i] = v /\ out'.nbrs[i] = N
       /\ \A j \in Ids(out) \ {i} : out'.vec[j] = out.vec[j] /\ out'.nbrs[j] = out.nbrs[j]
  BY <1>2, <1>6, <1>8, <1>9
<1>11. IsIndex(out)'
  BY <1>1, <1>6, <1>7, <1>10 DEF IsIndex
<1>12. /\ kept_ids' = kept_ids /\ Inserted' = Inserted /\ NewSize' = NewSize
       /\ Renamed' = Renamed /\ NewTags(NewSize)' = NewTags(NewSize)
       /\ \A k : Rename(k)' = Rename(k) /\ RenameInverse(k)' = RenameInverse(k)
       /\ OldVectors(disk.vec)' = OldVectors(disk.vec)
       /\ NewVectors(disk.vec)' = NewVectors(disk.vec)
       /\ NewVectors(disk.pq)' = NewVectors(disk.pq)
  BY <1>1, Stable
<1>13. Reloaded'
  BY <1>1, <1>6, <1>12 DEF InMerges, Reloaded
<1>14. \A k \in Inserted : Searched(k)'
  BY <1>1, <1>12 DEF InMerges, Searched
<1>15. \A j \in todo' : Consolidated(j)' /\ out'.vec[j] = OldVectors(disk.vec)[j]
  BY <1>1, <1>10, <1>12 DEF InMerges, Consolidated
<1>16. \A j \in Ids(out) \ todo' : MergedNode(j)'
  <2> SUFFICES ASSUME NEW j \in Ids(out) \ todo' PROVE MergedNode(j)'
    OBVIOUS
  <2>1. CASE j = i
    BY <1>1, <1>4, <1>5, <1>10, <1>12, <2>1 DEF MergedNode
  <2>2. CASE j # i
    <3>1. MergedNode(j) /\ out'.vec[j] = out.vec[j] /\ out'.nbrs[j] = out.nbrs[j]
      BY <1>1, <1>10, <2>2 DEF InMerges
    <3> QED BY <1>1, <1>12, <3>1 DEF MergedNode
  <2> QED BY <2>1, <2>2
<1>17. InMerges'
  BY <1>1, <1>6, <1>7, <1>12, <1>13, <1>14, <1>15, <1>16 DEF InMerges
<1>18. todo' \subseteq Nat /\ disk.npts <= out'.npts
  BY <1>1, <1>6
<1> QED BY <1>1, <1>11, <1>17, <1>18, MergeGoesOn

-----------------------------------------------------------------------------
(* The end of a merge.                                                     *)

(* The tags of the new index: those of the vectors that stay and the new   *)
(* ones, and nothing else.                                                 *)
LEMMA NewTagsFacts ==
  ASSUME DiskSound, Merging, Inserted # {}, NEW i \in 0 .. NewSize - 1
  PROVE  /\ i \in Renamed => /\ NewTags(NewSize)[i] = mem_tags[RenameInverse(i)]
                             /\ NewTags(NewSize)[i] \in TagsOf(mem_tags) \ deleted_tags
                             /\ NewTags(NewSize)[i] # Hole
         /\ i \in kept_ids => /\ NewTags(NewSize)[i] = disk.tag[i]
                              /\ NewTags(NewSize)[i] \in Tags(disk) \ deleted_tags
                              /\ NewTags(NewSize)[i] # Hole
         /\ i \notin kept_ids \cup Renamed => NewTags(NewSize)[i] = Hole
         /\ ~(i \in Renamed /\ i \in kept_ids)
<1>1. IsIndex(disk) /\ mem_tags \in Seq(TagsOf(mem_tags))
  BY DEF DiskSound, Merging
<1>2. NewTags(NewSize)[i] = CASE i \in Renamed -> mem_tags[RenameInverse(i)]
                              [] i \in disk_deleted_ids \ Renamed -> Hole
                              [] OTHER -> disk.tag[i]
  BY DEF NewTags
<1>3. ASSUME i \in Renamed
      PROVE  /\ NewTags(NewSize)[i] = mem_tags[RenameInverse(i)] /\ i \notin kept_ids
             /\ NewTags(NewSize)[i] \in TagsOf(mem_tags) \ deleted_tags
  <2>1. RenameInverse(i) \in Inserted /\ i \notin kept_ids
    BY <1>1, <1>3, RenameFacts DEF Renamed
  <2>2. mem_tags[RenameInverse(i)] \in TagsOf(mem_tags) \ deleted_tags
    BY <2>1 DEF Inserted, TagsOf
  <2> QED BY <1>2, <1>3, <2>1, <2>2
<1>4. ASSUME i \in kept_ids
      PROVE  /\ NewTags(NewSize)[i] = disk.tag[i] /\ NewTags(NewSize)[i] # Hole
             /\ NewTags(NewSize)[i] \in Tags(disk) \ deleted_tags
  <2>1. i \in Ids(disk) /\ i \notin disk_deleted_ids
    BY <1>4, DiskFacts
  <2>2. disk.tag[i] # Hole /\ disk.tag[i] \notin deleted_tags
    BY <1>4, <2>1, DiskFacts
  <2>3. i \notin Renamed
    BY <1>3, <1>4
  <2> QED BY <1>2, <2>1, <2>2, <2>3 DEF Tags
<1>5. ASSUME i \notin kept_ids, i \notin Renamed
      PROVE  NewTags(NewSize)[i] = Hole
  <2>1. i \in Ids(disk)
    BY <1>1, <1>5, RenameFacts
  <2>2. disk.tag[i] = Hole \/ i \in disk_deleted_ids
    BY <1>5, <2>1, DiskFacts DEF disk_deleted_ids
  <2> QED BY <1>2, <1>5, <2>2
<1>6. Hole \notin TagsOf(mem_tags)
  BY DEF Merging
<1> QED BY <1>3, <1>4, <1>5, <1>6

(* The new index holds the live vectors.                                   *)
LEMMA NewTagsLive ==
  ASSUME DiskSound, Merging, Inserted # {}
  PROVE  {NewTags(NewSize)[i] : i \in 0 .. NewSize - 1} \ {Hole} = live
<1> DEFINE new == NewTags(NewSize)
<1>1. /\ IsIndex(disk) /\ mem_tags \in Seq(TagsOf(mem_tags)) /\ NewSize \in Nat
      /\ disk.npts <= NewSize /\ disk.npts \in Nat
  BY RenameFacts, DiskFacts DEF DiskSound, Merging
<1>2. live = (Tags(disk) \cup TagsOf(mem_tags)) \ deleted_tags /\ Hole \notin TagsOf(mem_tags)
  BY DEF Merging
<1>3. ASSUME NEW i \in 0 .. NewSize - 1, new[i] # Hole
      PROVE  new[i] \in live
  <2>1. i \in kept_ids \/ i \in Renamed
    BY <1>3, NewTagsFacts
  <2> QED BY <1>2, <2>1, NewTagsFacts
<1>4. ASSUME NEW t \in live
      PROVE  t # Hole /\ \E i \in 0 .. NewSize - 1 : new[i] = t
  <2>1. CASE t \in Tags(disk)
    <3>1. PICK i \in Ids(disk) : disk.tag[i] = t /\ t # Hole
      BY <2>1 DEF Tags
    <3>2. i \in kept_ids
      BY <1>2, <3>1, DiskFacts
    <3>3. i \in 0 .. NewSize - 1
      BY <1>1 DEF Ids
    <3> HIDE DEF new
    <3>4. new[i] = t
      BY <3>1, <3>2, <3>3, NewTagsFacts DEF new
    <3> QED BY <3>1, <3>3, <3>4
  <2>2. CASE t \in TagsOf(mem_tags)
    <3>1. PICK k \in DOMAIN mem_tags : mem_tags[k] = t
      BY <2>2 DEF TagsOf
    <3>2. k \in Inserted
      BY <1>2, <3>1 DEF Inserted
    <3>3. Rename(k) \in 0 .. NewSize - 1 /\ Rename(k) \in Renamed /\ RenameInverse(Rename(k)) = k
      BY <1>1, <3>2, RenameFacts
    <3> HIDE DEF new
    <3>4. new[Rename(k)] = t
      BY <3>1, <3>3, NewTagsFacts DEF new
    <3> QED BY <1>2, <2>2, <3>3, <3>4
  <2> QED BY <1>2, <2>1, <2>2
<1> QED BY <1>3, <1>4

(* The index that a merge has written is one that the next may begin with. *)
LEMMA NewIndexSound ==
  ASSUME IInv, pc = "merges", todo = {}
  PROVE  /\ VectorsUnderTags(out) /\ NoLinksToHoles(out) /\ OnlyHolesUnlinked(out)
         /\ Tags(out) = live
<1>1. /\ InMerges /\ DiskSound /\ Merging /\ Inserted # {} /\ Reloaded /\ IsIndex(disk)
      /\ mem_tags \in Seq(TagsOf(mem_tags)) /\ disk.npts <= out.npts /\ IsIndex(out)
  BY DEF IInv, TypeOK, InMerges, Reloaded
<1>2. /\ Ids(out) = 0 .. NewSize - 1 /\ out.tag = NewTags(NewSize) /\ out.medoid \in kept_ids
      /\ \A k \in Inserted : Searched(k)
      /\ \A i \in Ids(out) : MergedNode(i)
  BY <1>1 DEF InMerges, Reloaded, Ids
<1>3. kept_ids \subseteq Ids(disk) /\ Ids(disk) \subseteq Ids(out) /\ out.medoid \in Ids(out)
  BY <1>1, DiskFacts DEF IsIndex, Ids
<1>4. ASSUME NEW i \in Ids(out)
      PROVE  /\ i \in Renamed =>
                  /\ out.tag[i] = mem_tags[RenameInverse(i)] /\ out.tag[i] # Hole
                  /\ out.tag[i] \in TagsOf(mem_tags) \ deleted_tags
             /\ i \in kept_ids => /\ out.tag[i] = disk.tag[i] /\ out.tag[i] # Hole
                                  /\ out.tag[i] \in Tags(disk) \ deleted_tags
             /\ i \notin kept_ids /\ i \notin Renamed => out.tag[i] = Hole
             /\ ~(i \in Renamed /\ i \in kept_ids)
  BY <1>1, <1>2, NewTagsFacts
<1>5. Tags(out) = live
  BY <1>1, <1>2, NewTagsLive DEF Tags
<1>6. ASSUME NEW i \in Ids(out), NEW j \in Ids(out), out.tag[i] = out.tag[j], out.tag[i] # Hole
      PROVE  i = j
  <2>1. (i \in kept_ids \/ i \in Renamed) /\ (j \in kept_ids \/ j \in Renamed)
    BY <1>4, <1>6
  <2>2. CASE i \in kept_ids /\ j \in kept_ids
    <3>1. disk.tag[i] = disk.tag[j] /\ disk.tag[i] # Hole
      BY <1>4, <1>6, <2>2
    <3> QED BY <1>1, <1>3, <2>2, <3>1 DEF DiskSound, VectorsUnderTags
  <2>3. CASE i \in Renamed /\ j \in Renamed
    <3>1. /\ RenameInverse(i) \in Inserted /\ Rename(RenameInverse(i)) = i
          /\ RenameInverse(j) \in Inserted /\ Rename(RenameInverse(j)) = j
      BY <1>1, <2>3, RenameFacts
    <3>2. mem_tags[RenameInverse(i)] = mem_tags[RenameInverse(j)]
      BY <1>4, <1>6, <2>3
    <3>3. RenameInverse(i) = RenameInverse(j)
      BY <1>1, <3>1, <3>2 DEF Merging, Inserted
    <3> QED BY <3>1, <3>3
  <2>4. CASE (i \in kept_ids /\ j \in Renamed) \/ (i \in Renamed /\ j \in kept_ids)
    <3>1. TagsOf(mem_tags) \cap Tags(disk) = {}
      BY <1>1 DEF Merging
    <3> QED BY <1>4, <1>6, <2>4, <3>1
  <2> QED BY <2>1, <2>2, <2>3, <2>4
<1>7. ASSUME NEW i \in Ids(out), out.tag[i] # Hole
      PROVE  out.vec[i] = out.tag[i] /\ out.pq[i] = out.tag[i]
  <2>1. out.vec[i] = NewVectors(disk.vec)[i] /\ out.pq[i] = NewVectors(disk.pq)[i]
    BY <1>1, <1>2 DEF MergedNode, InMerges
  <2>2. CASE i \in Renamed
    BY <1>2, <1>4, <2>1, <2>2 DEF NewVectors
  <2>3. CASE i \in kept_ids
    <3>1. disk.vec[i] = disk.tag[i] /\ disk.pq[i] = disk.tag[i] /\ out.tag[i] = disk.tag[i]
      BY <1>1, <1>3, <1>4, <1>7, <2>3 DEF DiskSound, VectorsUnderTags
    <3>2. NewVectors(disk.vec)[i] = disk.vec[i] /\ NewVectors(disk.pq)[i] = disk.pq[i]
      BY <1>2, <1>3, <1>4, <2>3 DEF NewVectors
    <3> QED BY <2>1, <3>1, <3>2
  <2> QED BY <1>4, <1>7, <2>2, <2>3
<1>8. ASSUME NEW i \in Ids(out)
      PROVE  /\ out.nbrs[i] \subseteq kept_ids \cup Renamed
             /\ Cardinality(out.nbrs[i]) <= range
             /\ out.nbrs[i] = {} <=> out.tag[i] = Hole
  <2>1. MergedNode(i)
    BY <1>2
  <2>2. CASE i \in Renamed
    <3>1. out.nbrs[i] = mem_delta[RenameInverse(i)] /\ RenameInverse(i) \in Inserted
      BY <1>1, <2>1, <2>2, RenameFacts DEF MergedNode
    <3> QED BY <1>2, <1>4, <2>2, <3>1 DEF Searched
  <2>3. CASE i \notin Renamed
    <3>1. out.tag[i] = Hole <=> i \notin kept_ids
      BY <1>4, <2>3
    <3> QED BY <2>1, <2>3, <3>1 DEF MergedNode
  <2> QED BY <2>2, <2>3
<1>9. NoLinksToHoles(out)
  <2>1. out.tag[out.medoid] # Hole
    BY <1>2, <1>3, <1>4
  <2>2. ASSUME NEW i \in Ids(out), NEW j \in out.nbrs[i] PROVE out.tag[j] # Hole
    <3>1. j \in Ids(out) /\ (j \in kept_ids \/ j \in Renamed)
      BY <1>1, <1>8 DEF IsIndex
    <3> QED BY <1>4, <3>1
  <2> QED BY <2>1, <2>2 DEF NoLinksToHoles
<1>10. OnlyHolesUnlinked(out)
  BY <1>8 DEF OnlyHolesUnlinked
<1>11. VectorsUnderTags(out)
  BY <1>6, <1>7 DEF VectorsUnderTags
<1> QED BY <1>5, <1>9, <1>10, <1>11

(* The next merge begins with the index that this one has written.         *)
LEMMA FinishStep == IInv /\ Finish => IInv'
<1> SUFFICES ASSUME IInv, Finish PROVE IInv'
  OBVIOUS
<1>1. /\ pc = "merges" /\ todo = {} /\ disk' = out /\ pc' = "idle" /\ mem_tags' = <<>>
      /\ mem_delta' = <<>> /\ UNCHANGED <<out, todo, merges, live>> /\ IsIndex(out)
      /\ merges \in 0 .. MaxMerges
  BY DEF Finish, IInv, TypeOK
<1>2. /\ VectorsUnderTags(out) /\ NoLinksToHoles(out) /\ OnlyHolesUnlinked(out)
      /\ Tags(out) = live
  BY <1>1, NewIndexSound
<1>3. DiskSound' /\ Tags(disk)' = live' /\ IsIndex(disk)'
  <2>1. Ids(disk)' = Ids(out)
    BY <1>1 DEF Ids
  <2>2. IsIndex(disk)'
    BY <1>1, <2>1 DEF IsIndex
  <2>3. VectorsUnderTags(disk)' /\ NoLinksToHoles(disk)' /\ OnlyHolesUnlinked(disk)'
    BY <1>1, <1>2, <2>1 DEF VectorsUnderTags, NoLinksToHoles, OnlyHolesUnlinked
  <2>4. Tags(disk)' = live'
    BY <1>1, <1>2, <2>1 DEF Tags
  <2> QED BY <2>2, <2>3, <2>4 DEF DiskSound
<1>4. IsIndex(out)' /\ disk'.npts <= out'.npts
  BY <1>1 DEF IsIndex, Ids
<1>5. mem_tags' \in Seq(TagsOf(mem_tags)') /\ DOMAIN mem_delta' = {}
  BY <1>1
<1>6. TypeOK'
  BY <1>1, <1>3, <1>4, <1>5 DEF TypeOK
<1> QED BY <1>1, <1>3, <1>6 DEF IInv

(* A merge begins with a sound index and tags that are not in it.          *)
LEMMA MergeStep == IInv /\ Merge => IInv'
<1> SUFFICES ASSUME IInv, Merge PROVE IInv'
  OBVIOUS
<1>1. /\ pc = "idle" /\ merges' = merges + 1 /\ merges < MaxMerges /\ mem_tags' \in Batches
      /\ TagsOf(mem_tags') \cap live = {}
      /\ deleted_tags' \subseteq live \cup TagsOf(mem_tags')
      /\ live' = (live \cup TagsOf(mem_tags')) \ deleted_tags'
      /\ out' = disk /\ pc' = "deletes" /\ todo' = Ids(disk) /\ mem_delta' = <<>>
      /\ disk' = disk /\ merges \in 0 .. MaxMerges
      /\ IsIndex(disk) /\ DiskSound /\ Tags(disk) = live
  BY DEF Merge, IInv, TypeOK
<1>2. /\ mem_tags' \in Seq(TagsOf(mem_tags')) /\ Hole \notin TagsOf(mem_tags')
      /\ \A j, k \in DOMAIN mem_tags' : mem_tags'[j] = mem_tags'[k] => j = k
  BY <1>1, IndexMergerAssumption
<1>3. Ids(disk)' = Ids(disk) /\ Ids(out)' = Ids(disk) /\ Tags(disk)' = Tags(disk)
  BY <1>1 DEF Ids, Tags
<1>4. IsIndex(disk)' /\ IsIndex(out)' /\ disk'.npts <= out'.npts
  BY <1>1, <1>3 DEF IsIndex
<1>5. DiskSound'
  BY <1>1, <1>3, <1>4 DEF DiskSound, VectorsUnderTags, NoLinksToHoles, OnlyHolesUnlinked
<1>6. Merging'
  <2>1. Hole \notin Tags(disk)
    BY DEF Tags
  <2>2. TagsOf(mem_tags)' = TagsOf(mem_tags')
    BY DEF TagsOf
  <2> QED BY <1>1, <1>2, <1>3, <2>1, <2>2 DEF Merging
<1>7. InDeletes'
  BY <1>1, <1>3 DEF InDeletes
<1>8. DOMAIN mem_delta' = {} /\ todo' \subseteq Nat /\ merges' \in 0 .. MaxMerges
  BY <1>1, IndexMergerAssumption DEF Ids
<1>9. TypeOK'
  BY <1>1, <1>2, <1>4, <1>8 DEF TypeOK, TagsOf
<1> QED BY <1>1, <1>5, <1>6, <1>7, <1>9 DEF IInv

-----------------------------------------------------------------------------
(* The theorems.                                                           *)

(* The invariant holds at the start.                                       *)
LEMMA IInvInit == Init => IInv
<1> SUFFICES ASSUME Init PROVE IInv
  OBVIOUS
<1>1. /\ disk \in FirstIndices /\ out = disk /\ mem_tags = <<>> /\ pc = "idle" /\ todo = {}
      /\ mem_delta = <<>> /\ merges = 0 /\ live = Tags(disk)
  BY DEF Init
<1>2. DiskSound /\ IsIndex(disk) /\ IsIndex(out)
  BY <1>1, IndexMergerAssumption DEF DiskSound
<1>3. TypeOK
  BY <1>1, <1>2, IndexMergerAssumption DEF TypeOK, IsIndex
<1> QED BY <1>1, <1>2, <1>3 DEF IInv

(* Nothing changes when nothing is done.                                   *)
LEMMA StutteringStep == IInv /\ UNCHANGED vars => IInv'
<1> SUFFICES ASSUME IInv, UNCHANGED vars PROVE IInv'
  OBVIOUS
<1>1. /\ UNCHANGED <<disk, out, mem_tags, deleted_tags, pc, todo, mem_delta, merges, live>>
      /\ Ids(disk)' = Ids(disk) /\ Ids(out)' = Ids(out) /\ Tags(disk)' = Tags(disk)
  BY DEF vars, Ids, Tags
<1>2. /\ kept_ids' = kept_ids /\ Inserted' = Inserted /\ NewSize' = NewSize /\ Renamed' = Renamed
      /\ \A k : Rename(k)' = Rename(k) /\ RenameInverse(k)' = RenameInverse(k)
      /\ NewTags(NewSize)' = NewTags(NewSize)
      /\ OldVectors(disk.vec)' = OldVectors(disk.vec) /\ OldVectors(disk.pq)' = OldVectors(disk.pq)
      /\ NewVectors(disk.vec)' = NewVectors(disk.vec) /\ NewVectors(disk.pq)' = NewVectors(disk.pq)
  BY <1>1, Stable
<1>3. IsIndex(disk)' /\ IsIndex(out)' /\ DiskSound'
  <2>1. IsIndex(disk) /\ IsIndex(out) /\ DiskSound
    BY DEF IInv, TypeOK
  <2>2. IsIndex(disk)' /\ IsIndex(out)'
    BY <1>1, <2>1 DEF IsIndex
  <2> QED BY <1>1, <2>1, <2>2
      DEF DiskSound, VectorsUnderTags, NoLinksToHoles, OnlyHolesUnlinked
<1>4. TypeOK'
  BY <1>1, <1>2, <1>3 DEF IInv, TypeOK, TagsOf
<1>5. pc # "idle" => Merging'
  BY <1>1 DEF IInv, Merging, TagsOf
<1>6. pc = "deletes" => InDeletes'
  BY <1>1, <1>2 DEF IInv, InDeletes, Consolidated
<1>7. pc = "rename" => InRename'
  BY <1>1, <1>2 DEF IInv, InRename, Consolidated
<1>8. pc = "inserts" => InInserts'
  <2> SUFFICES ASSUME InInserts PROVE InInserts'
    BY DEF IInv
  <2>1. Reloaded'
    BY <1>1, <1>2 DEF InInserts, Reloaded
  <2> QED BY <1>1, <1>2, <2>1 DEF InInserts, Consolidated, Searched
<1>9. pc = "merges" => InMerges'
  <2> SUFFICES ASSUME InMerges PROVE InMerges'
    BY DEF IInv
  <2>1. Reloaded' /\ \A k \in Inserted : Searched(k)'
    BY <1>1, <1>2 DEF InMerges, Reloaded, Searched
  <2>2. \A i \in todo : Consolidated(i)' /\ out'.vec[i] = OldVectors(disk.vec)[i]
    BY <1>1, <1>2 DEF InMerges, Consolidated
  <2>3. \A i \in Ids(out) \ todo : MergedNode(i)'
    BY <1>1, <1>2 DEF InMerges, MergedNode
  <2> QED BY <1>1, <1>2, <2>1, <2>2, <2>3 DEF InMerges
<1> QED BY <1>1, <1>3, <1>4, <1>5, <1>6, <1>7, <1>8, <1>9 DEF IInv

(* IInv is an invariant of merge after merge: the disk index is always one *)
(* that a merge may begin with, and each phase leaves what the next needs. *)
THEOREM Invariance == Spec => []IInv
<1>1. Init => IInv
  BY IInvInit
<1>2. IInv /\ [Next]_vars => IInv'
  <2> SUFFICES ASSUME IInv, [Next]_vars PROVE IInv'
    OBVIOUS
  <2>1. CASE Merge
    BY <2>1, MergeStep
  <2>2. CASE Consolidate
    BY <2>2, ConsolidateStep
  <2>3. CASE Header
    BY <2>3, HeaderStep
  <2>4. CASE RenameAndReload
    BY <2>4, RenameAndReloadStep
  <2>5. CASE InsertMemVec
    BY <2>5, InsertMemVecStep
  <2>6. CASE InsertsPQ
    BY <2>6, InsertsPQStep
  <2>7. CASE MergeNode
    BY <2>7, MergeNodeStep
  <2>8. CASE Finish
    BY <2>8, FinishStep
  <2>9. CASE UNCHANGED vars
    BY <2>9, StutteringStep
  <2> QED BY <2>1, <2>2, <2>3, <2>4, <2>5, <2>6, <2>7, <2>8, <2>9 DEF Next
<1> QED BY <1>1, <1>2, PTL DEF Spec

(* The variables keep their types: the links and the entry point of both   *)
(* indices stay within their size, after every step of every merge.        *)
THEOREM TypeCorrect == Spec => []TypeOK
<1>1. IInv => TypeOK
  BY DEF IInv
<1> QED BY <1>1, Invariance, PTL

(* After each merge the index holds the live vectors, each of them once,   *)
(* with their records and codes (compute_rename_map(), write_tag_file()).  *)
THEOREM VectorsAlwaysKept == Spec => []VectorsKept
<1>1. IInv => VectorsKept
  BY DEF IInv, VectorsKept, DiskSound
<1> QED BY <1>1, Invariance, PTL

(* No id is given to a new vector while a link or the entry point leads to *)
(* it, nor left as a hole (the claims before and after process_deletes()   *)
(* and process_inserts()).                                                 *)
THEOREM NeverDeletedReferences == Spec => []NoDeletedReferences
<1>1. IInv => NoDeletedReferences
  <2> SUFFICES ASSUME IInv PROVE NoDeletedReferences
    OBVIOUS
  <2>1. DiskSound /\ pc = "idle" => NoLinksToHoles(disk)
    BY DEF DiskSound
  <2>2. kept_ids \cap free_ids = {}
    BY DEF kept_ids
  <2>3. CASE pc = "rename"
    <3>1. InRename /\ Ids(out) = Ids(disk)
      BY <2>3 DEF IInv, InRename, Ids
    <3> QED BY <2>2, <2>3, <3>1 DEF InRename, Consolidated, NoDeletedReferences
  <2>4. CASE pc = "inserts"
    <3>1. InInserts
      BY <2>4 DEF IInv
    <3> QED BY <2>2, <2>4, <3>1 DEF InInserts, Reloaded, Consolidated, NoDeletedReferences
  <2> QED BY <2>1, <2>3, <2>4 DEF NoDeletedReferences, IInv
<1> QED BY <1>1, Invariance, PTL

(* After each merge a node has at most range links, and none only if it is *)
(* a hole, so that is_deleted() of the next merge gives no live id away.   *)
THEOREM LiveNodesAlwaysLinked == Spec => []LiveNodesLinked
<1>1. IInv => LiveNodesLinked
  BY DEF IInv, LiveNodesLinked, DiskSound
<1> QED BY <1>1, Invariance, PTL

(* A new vector is linked with its neighbours in both directions, unless   *)
(* the neighbour's list was full (process_merges(), inter_insert()).       *)
THEOREM InsertsAlwaysMutual == Spec => []InsertsMutual
<1>1. IInv => InsertsMutual
  <2> SUFFICES ASSUME IInv, pc = "merges", todo = {}, NEW k \in Inserted
               PROVE  /\ out.nbrs[Rename(k)] = mem_delta[k]
                      /\ \A i \in mem_delta[k] :
                           Rename(k) \in out.nbrs[i] \/ Cardinality(out.nbrs[i]) = range
    BY DEF InsertsMutual
  <2>1. /\ InMerges /\ Reloaded /\ IsIndex(disk) /\ mem_tags \in Seq(TagsOf(mem_tags))
        /\ Inserted # {} /\ DiskSound /\ Searched(k) /\ Ids(out) = 0 .. NewSize - 1
        /\ \A i \in Ids(out) : MergedNode(i)
    BY DEF IInv, TypeOK, InMerges, Reloaded, Ids
  <2>2. /\ Rename(k) \in Ids(out) /\ Rename(k) \in Renamed /\ RenameInverse(Rename(k)) = k
        /\ NewSize \in Nat /\ disk.npts <= NewSize /\ disk.npts \in Nat
    BY <2>1, RenameFacts, DiskFacts
  <2>3. out.nbrs[Rename(k)] = mem_delta[k]
    BY <2>1, <2>2 DEF MergedNode
  <2>4. ASSUME NEW i \in mem_delta[k]
        PROVE  Rename(k) \in out.nbrs[i] \/ Cardinality(out.nbrs[i]) = range
    <3>1. i \in kept_ids /\ i \in Ids(out)
      <4>1. i \in kept_ids /\ i \in Ids(disk)
        BY <2>1, DiskFacts DEF Searched
      <4>2. Ids(disk) = 0 .. disk.npts - 1
        BY DEF Ids
      <4>3. Ids(disk) \subseteq Ids(out)
        BY ONLY <2>1, <2>2, <4>2
      <4> QED BY <4>1, <4>3
    <3>2. i \notin Renamed
      <4>1. \A j \in Inserted : Rename(j) \notin kept_ids
        BY <2>1, RenameFacts
      <4> QED BY <3>1, <4>1 DEF Renamed
    <3> QED BY <2>1, <3>1, <3>2 DEF MergedNode
  <2> QED BY <2>3, <2>4
<1> QED BY <1>1, Invariance, PTL
=============================================================================
