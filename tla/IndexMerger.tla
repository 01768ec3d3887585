---------------------------- MODULE IndexMerger -----------------------------
(***************************************************************************)
(* FreshDiskANN's IndexMerger: merges a memory index and a list of deleted *)
(* tags into a disk index, merge after merge.  It removes the deleted      *)
(* nodes from the graph, gives their ids and the holes' to the new vectors *)
(* (and new ids when there are not enough), searches the rest of the graph *)
(* for the new vectors' neighbours, and adds the links both ways.          *)
(*                                                                         *)
(* A vector is its tag, a neighbourhood a set.  Distances are left open,   *)
(* so that occlude_list_pq() keeps any of its candidates, at least one.    *)
(* The list of a search is long enough for all nodes that can be reached.  *)
(* There is one memory index, as in MergeInsert; its ids are positions.    *)
(***************************************************************************)
EXTENDS Integers, Sequences, FiniteSets, FiniteSetsExt

CONSTANTS
  FirstIndices,     \* the disk indices to begin with
  Batches,          \* the memory indices to merge: sequences of tags
  MaxDeletes,       \* bound on the tags the first merge deletes, later ones fewer
  range,            \* _range, the bound of the out-degree
  MaxMerges         \* bound on the merges

Hole == "hole"      \* the tag max() of an id without a vector

Ids(index) == 0 .. index.npts - 1
Tags(index) == {index.tag[i] : i \in Ids(index)} \ {Hole}
TagsOf(batch) == {batch[j] : j \in DOMAIN batch}

(* An index: its size, entry point, and the tag, the vector, the PQ code   *)
(* and the links of each id.                                               *)
IsIndex(index) ==
  /\ index = [npts |-> index.npts, medoid |-> index.medoid, tag |-> index.tag,
              vec |-> index.vec, pq |-> index.pq, nbrs |-> index.nbrs]
  /\ index.npts \in Nat /\ index.medoid \in Ids(index)
  /\ index.tag = [i \in Ids(index) |-> index.tag[i]]
  /\ index.vec = [i \in Ids(index) |-> index.vec[i]]
  /\ index.pq = [i \in Ids(index) |-> index.pq[i]]
  /\ index.nbrs \in [Ids(index) -> SUBSET Ids(index)]

(* Each vector is there once, under its tag.                               *)
VectorsUnderTags(index) ==
  /\ \A i, j \in Ids(index) : index.tag[i] = index.tag[j] => i = j \/ index.tag[i] = Hole
  /\ \A i \in Ids(index) :
       index.tag[i] # Hole => index.vec[i] = index.tag[i] /\ index.pq[i] = index.tag[i]

NoLinksToHoles(index) ==
  /\ index.tag[index.medoid] # Hole
  /\ \A i \in Ids(index) : \A j \in index.nbrs[i] : index.tag[j] # Hole

OnlyHolesUnlinked(index) ==
  \A i \in Ids(index) :
    /\ Cardinality(index.nbrs[i]) <= range
    /\ index.nbrs[i] = {} <=> index.tag[i] = Hole

(* The disk indices are built, or merged before; a memory index has each   *)
(* of its tags once.                                                       *)
ASSUME IndexMergerAssumption ==
  /\ range \in Nat \ {0} /\ MaxDeletes \in Nat /\ MaxMerges \in Nat
  /\ \A index \in FirstIndices : /\ IsIndex(index) /\ VectorsUnderTags(index)
                                 /\ NoLinksToHoles(index) /\ OnlyHolesUnlinked(index)
  /\ \A batch \in Batches :
       /\ batch \in Seq(TagsOf(batch)) /\ Hole \notin TagsOf(batch)
       /\ \A j, k \in DOMAIN batch : batch[j] = batch[k] => j = k

VARIABLES
  disk,             \* the index at disk_index_in_path
  out,              \* the index at disk_index_out_path
  mem_tags,         \* the tags of the memory index
  deleted_tags,
  pc,
  todo,             \* the ids or positions that the current loop has left
  mem_delta,        \* position in the memory index |-> neighbourhood
  merges,           \* the number of merges
  live              \* history: the tags that the index must hold

vars == <<disk, out, mem_tags, deleted_tags, pc, todo, mem_delta, merges, live>>

(* compute_deleted_ids(), and the positions that mem_deleted_ids leaves.   *)
disk_deleted_ids == {i \in Ids(disk) : disk.tag[i] \in deleted_tags}
Inserted == {j \in DOMAIN mem_tags : mem_tags[j] \notin deleted_tags}

(* populate_deleted_nhoods() *)
DeletedNhood(i) == disk.nbrs[i] \ disk_deleted_ids

Init ==
  /\ disk \in FirstIndices /\ out = disk
  /\ mem_tags = <<>> /\ deleted_tags = {}
  /\ pc = "idle" /\ todo = {} /\ mem_delta = <<>>
  /\ merges = 0 /\ live = Tags(disk)

(* A merge begins, with the deleted tags of this index and of the memory   *)
(* index.                                                                  *)
Merge ==
  /\ pc = "idle" /\ merges < MaxMerges
  /\ merges' = merges + 1
  /\ mem_tags' \in {b \in Batches : TagsOf(b) \cap live = {}}
  /\ deleted_tags' \in {D \in SUBSET (live \cup TagsOf(mem_tags')) :
                          Cardinality(D) <= MaxDeletes - merges}
  /\ live' = (live \cup TagsOf(mem_tags')) \ deleted_tags'
  /\ out' = disk
  /\ pc' = "deletes" /\ todo' = Ids(disk) /\ mem_delta' = <<>>
  /\ UNCHANGED disk

-----------------------------------------------------------------------------
(* process_deletes() *)

(* (Plausible defect: second-order links to deleted nodes are kept.)       *)
NewEdgesAll(i) ==
  UNION {IF j \in disk_deleted_ids THEN disk.nbrs[j] ELSE {j} : j \in disk.nbrs[i]}

(* The links to deleted nodes are replaced by their links to live ones.    *)
NewEdges(i) ==
  UNION {IF j \in disk_deleted_ids THEN DeletedNhood(j) ELSE {j} : j \in disk.nbrs[i]}

SetNbrs(i, N) == out' = [out EXCEPT !.nbrs[i] = N]

(* consolidate_deletes() of the next node.  When it has no link left the   *)
(* program exits.                                                          *)
Consolidate ==
  /\ pc = "deletes" /\ todo # {}
  /\ LET i == Min(todo) IN
       \/ /\ i \in disk_deleted_ids \/ disk.nbrs[i] = {}
          /\ SetNbrs(i, {}) /\ pc' = pc
       \/ /\ i \notin disk_deleted_ids /\ disk.nbrs[i] # {}
          /\ disk.nbrs[i] \cap disk_deleted_ids = {}
          /\ UNCHANGED <<out, pc>>
       \/ /\ i \notin disk_deleted_ids
          /\ disk.nbrs[i] \cap disk_deleted_ids # {}
          /\ \/ /\ NewEdges(i) = {}
                /\ pc' = "exit" /\ UNCHANGED out
             \/ /\ \E N \in (SUBSET NewEdges(i)) \ {{}} :
                     Cardinality(N) <= range /\ SetNbrs(i, N)
                /\ pc' = pc
  /\ todo' = todo \ {Min(todo)}
  /\ UNCHANGED <<disk, mem_tags, deleted_tags, mem_delta, merges, live>>

(* The entry point, which is replaced by its first neighbour if it is      *)
(* deleted.  Of an empty list the code reads the first element all the     *)
(* same: it crashes.                                                       *)
NewMedoid ==
  IF disk.medoid \in disk_deleted_ids THEN DeletedNhood(disk.medoid) ELSE {disk.medoid}

Header ==
  /\ pc = "deletes" /\ todo = {}
  /\ \/ /\ NewMedoid = {}
        /\ pc' = "exit" /\ UNCHANGED out
     \/ /\ \E m \in NewMedoid : out' = [out EXCEPT !.medoid = m]
        /\ pc' = "rename"
  /\ UNCHANGED <<disk, mem_tags, deleted_tags, todo, mem_delta, merges, live>>

-----------------------------------------------------------------------------
(* compute_rename_map() *)

(* The n-th element of a set of numbers, from 0.                           *)
IsNth(i, n, S) == i \in S /\ Cardinality({j \in S : j < i}) = n

(* is_deleted(): the nodes without links are free as well.                 *)
free_ids == {i \in Ids(disk) : disk.nbrs[i] = {} \/ i \in disk_deleted_ids}

(* The n-th of the free ids in ascending order; new ids follow them.       *)
FreeId(n) ==
  IF n < Cardinality(free_ids) THEN CHOOSE i \in free_ids : IsNth(i, n, free_ids)
  ELSE disk.npts + n - Cardinality(free_ids)

(* The id of the vector at position k of the memory index.                 *)
Rename(k) == FreeId(Cardinality({j \in Inserted : j < k}))

Renamed == {Rename(k) : k \in Inserted}
RenameInverse(i) == CHOOSE k \in Inserted : Rename(k) = i

(* (Plausible defect: the tags of the deleted ids are not cleared.)        *)
NewTagsKept(n) ==
  [i \in 0 .. n - 1 |->
     IF i \in Renamed THEN mem_tags[RenameInverse(i)] ELSE disk.tag[i]]

(* write_tag_file() *)
NewTags(n) ==
  [i \in 0 .. n - 1 |-> CASE i \in Renamed -> mem_tags[RenameInverse(i)]
                          [] i \in disk_deleted_ids \ Renamed -> Hole
                          [] OTHER -> disk.tag[i]]

NewSize ==
  LET last == FreeId(Cardinality(Inserted) - 1)
  IN  IF last < disk.npts THEN disk.npts ELSE last + 1

(* The size is taken from the last of the new ids; when nothing is         *)
(* inserted there is none, and the program crashes.  The index is loaded   *)
(* again with the new size.                                                *)
RenameAndReload ==
  /\ pc = "rename"
  /\ \/ /\ Inserted = {}
        /\ pc' = "exit" /\ UNCHANGED <<out, todo>>
     \/ /\ Inserted # {}
        /\ LET n == NewSize IN
             out' = [out EXCEPT
               !.npts = n, !.tag = NewTags(n),
               !.vec  = [i \in 0 .. n - 1 |-> IF i \in Ids(disk) THEN disk.vec[i] ELSE Hole],
               !.pq   = [i \in 0 .. n - 1 |-> IF i \in Ids(disk) THEN disk.pq[i] ELSE Hole],
               !.nbrs = [i \in 0 .. n - 1 |-> IF i \in Ids(disk) THEN out.nbrs[i] ELSE {}]]
        /\ pc' = "inserts" /\ todo' = Inserted
  /\ UNCHANGED <<disk, mem_tags, deleted_tags, mem_delta, merges, live>>

-----------------------------------------------------------------------------
(* process_inserts() *)

(* What a search can reach: whatever has the entry point and follows the   *)
(* links has these nodes.                                                  *)
Reached ==
  {i \in Ids(out) : \A S \in SUBSET Ids(out) :
     out.medoid \in S /\ (\A j \in S : out.nbrs[j] \subseteq S) => i \in S}

(* insert_mem_vec(): the nodes that the search for the vector has expanded *)
(* are pruned to its neighbourhood.  With alpha > 1 prune_neighbors()      *)
(* fills it up.  The threads do not see each other's insertions, and what  *)
(* they add to the deltas commutes: one order is enough.                   *)
InsertMemVec ==
  /\ pc = "inserts" /\ todo # {}
  /\ LET k == Min(todo)
         pool == Reached \ disk_deleted_ids IN
       \E N \in kSubset(Min({range, Cardinality(pool)}), pool) :
         mem_delta' = [j \in DOMAIN mem_delta \cup {k} |->
                         IF j = k THEN N ELSE mem_delta[j]]
  /\ todo' = todo \ {Min(todo)}
  /\ UNCHANGED <<disk, out, mem_tags, deleted_tags, pc, merges, live>>

(* process_inserts_pq() *)
InsertsPQ ==
  /\ pc = "inserts" /\ todo = {}
  /\ out' = [out EXCEPT !.pq = [i \in Ids(out) |->
                                  IF i \in Renamed THEN mem_tags[RenameInverse(i)] ELSE @[i]]]
  /\ pc' = "merges" /\ todo' = Ids(out)
  /\ UNCHANGED <<disk, mem_tags, deleted_tags, mem_delta, merges, live>>

-----------------------------------------------------------------------------
(* process_merges() *)

(* (Plausible defect: is_relevant() leaves the last id of the index out.)  *)
DiskDeltaLess(i) ==
  IF i = disk.npts - 1 THEN {}
  ELSE {Rename(k) : k \in {j \in DOMAIN mem_delta : i \in mem_delta[j]}}

(* disk_delta, with the renamed edges.  A new vector goes by its position  *)
(* until it is renamed: the offset ids that the code uses meanwhile, and   *)
(* the range that a delta checks them against, are not represented; a      *)
(* delta here takes exactly the edges meant for it.                        *)
DiskDelta(i) == {Rename(k) : k \in {j \in DOMAIN mem_delta : i \in mem_delta[j]}}

Nhood(i) ==
  IF i \in Renamed THEN mem_delta[RenameInverse(i)] ELSE out.nbrs[i] \cup DiskDelta(i)

(* (Plausible defect: a neighbourhood that is too long is not pruned.)     *)
PrunedNever(N) == {N}

(* "prune neighbor list ONLY if exceeding graph max out-degree"; with      *)
(* alpha > 1 it is filled up to it.                                        *)
Pruned(N) == IF Cardinality(N) > range THEN kSubset(range, N) ELSE {N}

MergeNode ==
  /\ pc = "merges" /\ todo # {}
  /\ LET i == Min(todo) IN
       \E N \in Pruned(Nhood(i)) :
         out' = [out EXCEPT !.nbrs[i] = N,
                   !.vec[i] = IF i \in Renamed THEN mem_tags[RenameInverse(i)] ELSE @]
  /\ todo' = todo \ {Min(todo)}
  /\ UNCHANGED <<disk, mem_tags, deleted_tags, pc, mem_delta, merges, live>>

(* The header is written and the file copied; the next merge reads it.     *)
Finish ==
  /\ pc = "merges" /\ todo = {}
  /\ disk' = out
  /\ pc' = "idle" /\ mem_tags' = <<>> /\ deleted_tags' = {} /\ mem_delta' = <<>>
  /\ UNCHANGED <<out, todo, merges, live>>

-----------------------------------------------------------------------------
Next ==
  \/ Merge \/ Consolidate \/ Header \/ RenameAndReload
  \/ InsertMemVec \/ InsertsPQ \/ MergeNode \/ Finish

Spec == Init /\ [][Next]_vars

-----------------------------------------------------------------------------
(* Properties.                                                             *)

(* The type of the variables.                                              *)
TypeOK ==
  /\ pc \in {"idle", "deletes", "rename", "inserts", "merges", "exit"}
  /\ IsIndex(disk) /\ IsIndex(out) /\ disk.npts <= out.npts
  /\ mem_tags \in Seq(TagsOf(mem_tags))
  /\ todo \subseteq Nat
  /\ DOMAIN mem_delta \subseteq Inserted
  /\ \A k \in DOMAIN mem_delta : mem_delta[k] \subseteq Ids(disk)
  /\ merges \in 0 .. MaxMerges

(* After a merge the index holds the vectors that have been inserted and   *)
(* not deleted, each of them once, and the record and the PQ code of an id *)
(* are those of its tag.                                                   *)
VectorsKept == pc = "idle" => Tags(disk) = live /\ VectorsUnderTags(disk)

(* "END -- graph on disk has NO deleted references, maybe some holes": an  *)
(* id is only given to a new vector, or left as a hole, when no link and   *)
(* no entry point leads to it.  "END -- graph on disk has NO deleted       *)
(* references, has newly inserted points".                                 *)
NoDeletedReferences ==
  /\ pc \in {"rename", "inserts"} =>
       /\ out.medoid \notin free_ids
       /\ \A i \in Ids(out) : out.nbrs[i] \cap free_ids = {}
  /\ pc = "idle" => NoLinksToHoles(disk)

(* A node has at most range links, and none only if it is a hole: the next *)
(* merge takes a node without links for one, and gives its id away.        *)
LiveNodesLinked == pc = "idle" => OnlyHolesUnlinked(disk)

(* A new vector is linked with its neighbourhood in both directions, where *)
(* the neighbour had not to be pruned.                                     *)
InsertsMutual ==
  pc = "merges" /\ todo = {} =>
    \A k \in Inserted :
      /\ out.nbrs[Rename(k)] = mem_delta[k]
      /\ \A i \in mem_delta[k] :
           Rename(k) \in out.nbrs[i] \/ Cardinality(out.nbrs[i]) = range
=============================================================================
