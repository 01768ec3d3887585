------------------------------ MODULE LocTable ------------------------------
(***************************************************************************)
(* The mapping between vector ids and record locations of PipeANN's        *)
(* SSDIndex (id2loc_, loc2id_), the location allocator alloc_loc() and the *)
(* steps with which concurrent calls of insert_in_place() use them.        *)
(*                                                                         *)
(* The index is updated out of place: an insert takes a fresh id for its   *)
(* target, allocates one location for the target and one for each          *)
(* neighbour, writes all the records there, and then moves the ids to      *)
(* their new locations and frees the old ones.  A location is a slot of a  *)
(* page; the slots of a page share one disk write.                         *)
(*                                                                         *)
(* Left to module DirectInsert, which implements this one: the contents of *)
(* the records, the page and vector locks, the page cache and the disk.    *)
(***************************************************************************)
EXTENDS Integers, Sequences, FiniteSets, SequencesExt

CONSTANTS
  Inserters,        \* the threads that call insert_in_place()
  NPoints,          \* meta_.npoints: the ids the loaded index holds
  NodesPerPage,     \* meta_.nnodes_per_sector, at least one record per page
  MaxId,            \* bound: ids 0 .. MaxId - 1
  MaxLoc,           \* bound: locations 0 .. MaxLoc - 1
  MaxVisits,        \* bound on the nodes a search expands (params.L)
  MinNbrs,          \* 0 when all the nodes a search expands may be deleted ones
  MaxNbrs           \* bound on the neighbours of one insert (params.R)

(***************************************************************************)
(* meta_.nnodes_per_sector = 0 (a record larger than a page) makes every   *)
(* location a page of its own, as NodesPerPage = 1 does.                   *)
(***************************************************************************)
ASSUME LocTableAssumption ==
  /\ NodesPerPage \in Nat \ {0}
  /\ NPoints \in Nat \ {0}
  /\ MaxId \in Nat /\ NPoints <= MaxId
  /\ MaxLoc \in Nat /\ NPoints <= MaxLoc
  /\ MaxVisits \in Nat \ {0}
  /\ MinNbrs \in 0 .. MaxNbrs
  /\ MaxNbrs \in Nat \ {0}

Ids  == 0 .. MaxId - 1
Locs == 0 .. MaxLoc - 1

Invalid   == -1     \* kInvalidID: a hole, or an id without a location
Allocated == -2     \* kAllocatedID: reserved by alloc_loc(), not yet committed

VARIABLES
  cur_id,           \* the id of the next insert
  cur_loc,          \* the tail of the index file
  id2loc,           \* id -> location
  loc2id,           \* location -> id, Invalid or Allocated
  empty_pages,      \* the queue of pages without any record
  pc,               \* the place of each inserter in insert_in_place()
  target,           \* its target_id
  nbrs,             \* its new_nhood
  hints,            \* page_ref: the pages its search has read
  locs,             \* locs: the locations allocated to nbrs and target
  orig_locs         \* orig_locs: where the neighbours were before they moved

tables == <<cur_id, cur_loc, id2loc, loc2id, empty_pages>>
locals == <<target, nbrs, hints, locs, orig_locs>>
vars   == <<tables, pc, locals>>

-----------------------------------------------------------------------------
(* Pages and slots.                                                        *)

PageOf(l) == l \div NodesPerPage
Pages == {PageOf(l) : l \in Locs}
Slots(p) == {l \in Locs : PageOf(l) = p}
Holes(p) == {l \in Slots(p) : loc2id[l] = Invalid}

AlignUp(l) == ((l + NodesPerPage - 1) \div NodesPerPage) * NodesPerPage

(* A page is worth refilling when half of its slots are holes.             *)
INDEX_SIZE_FACTOR == 2
Threshold == (NodesPerPage + INDEX_SIZE_FACTOR - 1) \div INDEX_SIZE_FACTOR

-----------------------------------------------------------------------------
(* alloc_loc(n, hint_pages, page_need_to_read).                            *)

(* Step 1 pops empty pages until n slots are found or the queue is dry.    *)
FromEmpty(n) == n <= NodesPerPage * Len(empty_pages)
NPop(n) ==
  IF FromEmpty(n) THEN (n + NodesPerPage - 1) \div NodesPerPage
                  ELSE Len(empty_pages)
Popped(n) == {empty_pages[i] : i \in 1 .. NPop(n)}

(* Step 2 fills the holes of sparse hint pages, only once step 1 ran dry.  *)
Usable(n, hs) ==
  IF FromEmpty(n) THEN {}
  ELSE {p \in ToSet(hs) \ Popped(n) : Cardinality(Holes(p)) >= Threshold}

(* Step 3 extends the file; n new slots are always enough.                 *)
Candidates(n, hs) ==
  (UNION {Slots(p) : p \in Popped(n)})
    \cup (UNION {Holes(p) : p \in Usable(n, hs)})
    \cup (IF FromEmpty(n) THEN {} ELSE cur_loc .. cur_loc + n - 1)

(* The candidates are taken in the order of the three steps: by their page *)
(* in the list of empty and hint pages, new locations last.                *)
AllocSlots(n, hs) ==
  LET order == SubSeq(empty_pages, 1, NPop(n)) \o hs
      cand == Candidates(n, hs)
      rank == [l \in cand |->
                 IF l >= cur_loc THEN Len(order) + 1
                 ELSE CHOOSE i \in 1 .. Len(order) :
                        /\ order[i] = PageOf(l)
                        /\ \A j \in 1 .. i - 1 : order[j] # PageOf(l)]
      Earlier(m, l) == rank[m] < rank[l] \/ (rank[m] = rank[l] /\ m < l)
  IN  {l \in cand : Cardinality({m \in cand : Earlier(m, l)}) < n}

(* page_need_to_read: the pages taken from that hold records already.      *)
PagesToRead(n, hs, slots) ==
  {p \in Usable(n, hs) :
     Cardinality(Holes(p)) < NodesPerPage /\ Slots(p) \cap slots # {}}

(* cur_loc after step 3: past the new slots, padded to a whole page.       *)
NewCurLoc(slots) ==
  LET fresh == {l \in slots : l >= cur_loc}
  IN  IF fresh = {} THEN cur_loc ELSE AlignUp(cur_loc + Cardinality(fresh))

-----------------------------------------------------------------------------
(* The steps of insert_in_place(), as far as the tables see them.          *)

NoLocs == [i \in {} |-> Invalid]
MyIds(p) == nbrs[p] \cup {target[p]}

(* Holders of the idx_lock_table write locks on MyIds(p).                  *)
IdxLocked(p) == pc[p] \in {"move", "erase"}
(* Inserters whose target is not linked from any record yet.               *)
Unlinked(p) == pc[p] \in {"search", "write", "lock", "move"}
(* Inserters that own allocated, uncommitted locations.                    *)
Owner(p) == pc[p] \in {"write", "lock", "move", "erase"}

(* (Plausible defect: a target is linked as soon as it has an id.)         *)
VisibleFromStart == 0 .. cur_id - 1

(* The ids a graph search may come across.                                 *)
Visible == {i \in 0 .. cur_id - 1 : \A p \in Inserters : Unlinked(p) => target[p] # i}

(* A loaded index: ids and locations coincide, and the file ends with a    *)
(* whole page (init_metadata(), load_page_layout()).                       *)
InitTables ==
  /\ cur_id = NPoints
  /\ cur_loc = AlignUp(NPoints)
  /\ cur_loc <= MaxLoc
  /\ id2loc = [i \in Ids |-> IF i < NPoints THEN i ELSE Invalid]
  /\ loc2id = [l \in Locs |-> IF l < NPoints THEN l ELSE Invalid]
  /\ empty_pages = <<>>

Init ==
  /\ InitTables
  /\ pc = [p \in Inserters |-> "idle"]
  /\ target = [p \in Inserters |-> Invalid]
  /\ nbrs = [p \in Inserters |-> {}]
  /\ hints = [p \in Inserters |-> <<>>]
  /\ locs = [p \in Inserters |-> NoLocs]
  /\ orig_locs = [p \in Inserters |-> NoLocs]

(* target_id = cur_id++.                                                   *)
Begin(p) ==
  /\ pc[p] = "idle"
  /\ cur_id < MaxId
  /\ target' = [target EXCEPT ![p] = cur_id]
  /\ cur_id' = cur_id + 1
  /\ pc' = [pc EXCEPT ![p] = "search"]
  /\ UNCHANGED <<cur_loc, id2loc, loc2id, empty_pages,
                 nbrs, hints, locs, orig_locs>>

(* do_beam_search() expands a node and remembers the page it has read.     *)
Visit(p, i) ==
  /\ pc[p] = "search"
  /\ Len(hints[p]) < MaxVisits
  /\ i \in Visible \ nbrs[p]
  /\ nbrs' = [nbrs EXCEPT ![p] = @ \cup {i}]
  /\ hints' = [hints EXCEPT ![p] = Append(@, PageOf(id2loc[i]))]
  /\ UNCHANGED <<tables, pc, target, locs, orig_locs>>

(* (Plausible defect: alloc_loc() does not reserve the slots.)             *)
AllocTablesUnmarked(n, slots) ==
  LET curl == NewCurLoc(slots)
  IN  /\ loc2id' = [l \in Locs |-> IF l \in cur_loc .. curl - 1 THEN Invalid ELSE loc2id[l]]
      /\ empty_pages' = SubSeq(empty_pages, NPop(n) + 1, Len(empty_pages))
      /\ cur_loc' = curl

(* What alloc_loc() does to the tables.                                    *)
AllocTables(n, slots) ==
  LET curl == NewCurLoc(slots)
  IN  /\ loc2id' = [l \in Locs |-> IF l \in slots THEN Allocated
                                   ELSE IF l \in cur_loc .. curl - 1 THEN Invalid
                                   ELSE loc2id[l]]
      /\ empty_pages' = SubSeq(empty_pages, NPop(n) + 1, Len(empty_pages))
      /\ cur_loc' = curl

(* prune_neighbors() keeps some of the expanded nodes, and alloc_loc()     *)
(* runs under alloc_lock.  Which record gets which of the locations is     *)
(* left open: the code follows the order of new_nhood, that is, distances. *)
AllocLoc(p, keep) ==
  LET n == Cardinality(keep) + 1
      slots == AllocSlots(n, hints[p])
  IN  /\ pc[p] = "search"
      /\ hints[p] # <<>>
      /\ n \in MinNbrs + 1 .. MaxNbrs + 1
      /\ AlignUp(cur_loc + n) <= MaxLoc
      /\ \E a \in Bijection(keep \cup {target[p]}, slots) :
           locs' = [locs EXCEPT ![p] = a]
      /\ nbrs' = [nbrs EXCEPT ![p] = keep]
      /\ hints' = [hints EXCEPT ![p] = <<>>]
      /\ AllocTables(n, slots)
      /\ pc' = [pc EXCEPT ![p] = "write"]
      /\ UNCHANGED <<cur_id, id2loc, target, orig_locs>>

(* (Plausible defect: the neighbours move before lock_idx().)              *)
SetTargetAndNbrs(p) ==
  /\ pc[p] = "write"
  /\ id2loc' = [i \in Ids |-> IF i \in MyIds(p) THEN locs[p][i] ELSE id2loc[i]]
  /\ pc' = [pc EXCEPT ![p] = "lock"]
  /\ UNCHANGED <<cur_id, cur_loc, loc2id, empty_pages, locals>>

(* After the records are written (DirectInsert): set_id2loc(target_id).    *)
SetTarget(p) ==
  /\ pc[p] = "write"
  /\ id2loc' = [id2loc EXCEPT ![target[p]] = locs[p][target[p]]]
  /\ pc' = [pc EXCEPT ![p] = "lock"]
  /\ UNCHANGED <<cur_id, cur_loc, loc2id, empty_pages, locals>>

(* (Plausible defect: lock_idx() takes the locks shared.)                  *)
LockIdxShared(p) ==
  /\ pc[p] = "lock"
  /\ pc' = [pc EXCEPT ![p] = "move"]
  /\ UNCHANGED <<tables, locals>>

(* lock_idx(idx_lock_table, target_id, new_nhood), exclusive.              *)
LockIdx(p) ==
  /\ pc[p] = "lock"
  /\ \A q \in Inserters : IdxLocked(q) => MyIds(q) \cap MyIds(p) = {}
  /\ pc' = [pc EXCEPT ![p] = "move"]
  /\ UNCHANGED <<tables, locals>>

(* The neighbours move to their new locations.                             *)
MoveIds(p) ==
  /\ pc[p] = "move"
  /\ orig_locs' = [orig_locs EXCEPT ![p] = [i \in nbrs[p] |-> id2loc[i]]]
  /\ id2loc' = [i \in Ids |-> IF i \in nbrs[p] THEN locs[p][i] ELSE id2loc[i]]
  /\ pc' = [pc EXCEPT ![p] = "erase"]
  /\ UNCHANGED <<cur_id, cur_loc, loc2id, empty_pages,
                 target, nbrs, hints, locs>>

(* loc2id_ once the new locations are set and the old ones erased.         *)
Committed(p) ==
  [l \in Locs |->
     IF \E i \in nbrs[p] : orig_locs[p][i] = l THEN Invalid
     ELSE IF \E i \in MyIds(p) : locs[p][i] = l
       THEN CHOOSE i \in MyIds(p) : locs[p][i] = l
     ELSE loc2id[l]]

(* (Plausible defects: erase_loc2id() does not look at the other slots, or *)
(* looks before it has erased its own.)                                    *)
EmptiedPagesUnchecked(p) == {PageOf(orig_locs[p][i]) : i \in nbrs[p]}
EmptiedPagesTooEarly(p) ==
  {g \in {PageOf(orig_locs[p][i]) : i \in nbrs[p]} :
     \A l \in Slots(g) : loc2id[l] = Invalid}

(* The pages an erase_loc2id() leaves without any record.                  *)
EmptiedPages(p) ==
  {g \in {PageOf(orig_locs[p][i]) : i \in nbrs[p]} :
     \A l \in Slots(g) : Committed(p)[l] = Invalid}

(* What erase_and_set_loc() does to the tables, under alloc_lock.          *)
CommitTables(p) ==
  /\ loc2id' = Committed(p)
  /\ \E order \in SetToSeqs(EmptiedPages(p)) : empty_pages' = empty_pages \o order

(* erase_and_set_loc(), and the release of the locks.                      *)
EraseAndSetLoc(p) ==
  /\ pc[p] = "erase"
  /\ CommitTables(p)
  /\ pc' = [pc EXCEPT ![p] = "idle"]
  /\ target' = [target EXCEPT ![p] = Invalid]
  /\ nbrs' = [nbrs EXCEPT ![p] = {}]
  /\ locs' = [locs EXCEPT ![p] = NoLocs]
  /\ orig_locs' = [orig_locs EXCEPT ![p] = NoLocs]
  /\ UNCHANGED <<cur_id, cur_loc, id2loc, hints>>

Next ==
  \E p \in Inserters :
    \/ Begin(p)
    \/ \E i \in Ids : Visit(p, i)
    \/ \E keep \in SUBSET nbrs[p] : AllocLoc(p, keep)
    \/ SetTarget(p)
    \/ LockIdx(p)
    \/ MoveIds(p)
    \/ EraseAndSetLoc(p)

Spec == Init /\ [][Next]_vars

-----------------------------------------------------------------------------
(* Properties.                                                             *)

IdValue == Ids \cup {Invalid}
LocValue == Locs \cup {Invalid}

(* The type of every variable of the tables and of insert_in_place().      *)
TypeOK ==
  /\ cur_id \in NPoints .. MaxId
  /\ cur_loc \in 0 .. MaxLoc
  /\ id2loc \in [Ids -> LocValue]
  /\ loc2id \in [Locs -> Ids \cup {Invalid, Allocated}]
  /\ empty_pages \in Seq(Pages)
  /\ pc \in [Inserters -> {"idle", "search", "write", "lock", "move", "erase"}]
  /\ target \in [Inserters -> IdValue]
  /\ nbrs \in [Inserters -> SUBSET Ids]
  /\ hints \in [Inserters -> Seq(Pages)]
  /\ DOMAIN locs = Inserters /\ DOMAIN orig_locs = Inserters
  /\ \A p \in Inserters :
       /\ DOMAIN locs[p] \subseteq Ids
       /\ \A i \in DOMAIN locs[p] : locs[p][i] \in Locs
       /\ DOMAIN orig_locs[p] \subseteq Ids
       /\ \A i \in DOMAIN orig_locs[p] : orig_locs[p][i] \in Locs

(* The ids whose two table entries agree: all that were ever linked, but   *)
(* for those an inserter is moving under their write locks.                *)
Settled == {i \in Visible : \A p \in Inserters : pc[p] = "erase" => i \notin MyIds(p)}

(* verify_id2loc(), id -> loc -> id, at every moment and not only when the *)
(* index is quiet: a settled id's location is below the tail and names the *)
(* id, whatever inserts are in flight.                                     *)
MappingConsistent ==
  \A i \in Settled :
    /\ id2loc[i] \in 0 .. cur_loc - 1
    /\ loc2id[id2loc[i]] = i

(* verify_id2loc(), loc -> id -> loc ("loc2id do not contain duplicate     *)
(* ids"): a location that names an id is the id's own, or the one the id   *)
(* is being moved from under its write lock.                               *)
NoDuplicateIds ==
  \A l \in Locs : loc2id[l] \in Ids =>
    \/ id2loc[loc2id[l]] = l
    \/ \E p \in Inserters :
         pc[p] = "erase" /\ loc2id[l] \in nbrs[p] /\ orig_locs[p][loc2id[l]] = l

(* verify_id2loc() in both directions.                                     *)
TablesAgree == MappingConsistent /\ NoDuplicateIds

(* No location is given to two inserts, and none that is given out is used *)
(* by an id: alloc_loc() reserves with kAllocatedID what it returns, until *)
(* erase_and_set_loc() commits it.                                         *)
AllocationsExclusive ==
  \A p \in Inserters : Owner(p) =>
    /\ \A i \in MyIds(p) : loc2id[locs[p][i]] = Allocated
    /\ \A q \in Inserters : Owner(q) =>
         \A i \in MyIds(p), j \in MyIds(q) :
           locs[p][i] = locs[q][j] => p = q /\ i = j

(* No reservation outlives its insert: every slot marked kAllocatedID      *)
(* belongs to an insert that will commit it.                               *)
NoLeakedSlot ==
  \A l \in Locs : loc2id[l] = Allocated =>
    \E p \in Inserters : Owner(p) /\ \E i \in MyIds(p) : locs[p][i] = l

(* The slots that alloc_loc() hands out: each is reserved for one insert,  *)
(* and none is reserved for nobody.                                        *)
SlotsAccounted == AllocationsExclusive /\ NoLeakedSlot

(* alloc_loc() never finds "Page ... is not empty": a queued page has only *)
(* holes and is queued once.                                               *)
QueuedPagesEmpty ==
  /\ \A k \in 1 .. Len(empty_pages) :
       \A l \in Slots(empty_pages[k]) : loc2id[l] = Invalid
  /\ \A j, k \in 1 .. Len(empty_pages) : empty_pages[j] = empty_pages[k] => j = k

(* No page is lost: a page of the file without any record is queued for    *)
(* reuse ("the hole will eventually be recycled").                         *)
EmptyPagesQueued ==
  \A g \in Pages :
    (/\ \A l \in Slots(g) : l < cur_loc
     /\ \A l \in Slots(g) : loc2id[l] = Invalid)
    => \E k \in 1 .. Len(empty_pages) : empty_pages[k] = g

(* A linked id never loses its location, and it changes hands only while   *)
(* its mover holds the id's write lock.                                    *)
MovesAreLocked ==
  [][\A i \in Visible : id2loc'[i] # id2loc[i] =>
       /\ id2loc'[i] \in Locs
       /\ \E p \in Inserters : pc[p] = "move" /\ i \in nbrs[p]]_vars
=============================================================================
