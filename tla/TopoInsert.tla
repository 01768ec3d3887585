----------------------------- MODULE TopoInsert -----------------------------
(***************************************************************************)
(* DGAI's topology file under insert_to_topo_in_place() and                *)
(* trigger_deletion_in_place(): the neighbour lists, a page of them placed *)
(* by the tables page_layout_topo and id2loc_topo_, pages that split when  *)
(* they are full, pages that are reused when they are empty.  The strategy *)
(* is 23, that of the experiments: reordered topology pages and the page   *)
(* cache, which is written with the file and is one with it here.          *)
(*                                                                         *)
(* A record is the set of the neighbours; a record that is never written   *)
(* is {}.  A tag is the id of its point.  The coordinate file, which is a  *)
(* plain slot allocator, and the searches that run meanwhile are left out. *)
(***************************************************************************)
EXTENDS Integers, FiniteSets, SequencesExt

CONSTANTS
  Inserters,
  NumPoints,        \* the points of the loaded index
  MaxIds,           \* bound on the ids
  MaxPages,         \* bound on the pages
  MinPoints,        \* bound on the deletions: the points that remain
  ntopo_per_sector,
  range,            \* bound of a neighbour list
  n_sampled_nbrs    \* bound of the list kept for a deleted node

ASSUME TopoInsertAssumption ==
  /\ {NumPoints, MaxIds, MaxPages, MinPoints, ntopo_per_sector, range,
       n_sampled_nbrs} \subseteq Nat \ {0}
  /\ 2 < NumPoints /\ NumPoints <= MaxIds
  /\ NumPoints <= MaxPages * ntopo_per_sector /\ 2 <= range

Ids == 0..(MaxIds - 1)
Pages == 0..(MaxPages - 1)
Slots == 0..(ntopo_per_sector - 1)
Sides == {0, 1}
Invalid == -1                                   \* kInvalidID

VARIABLES
  page_layout_topo,         \* page -> slot -> id
  id2loc_topo_,             \* id -> place; it keeps the last one of an erased id
  topo,                     \* page -> slot -> record
  empty_pages_topo, cur_page,       \* the queue; cur_loc_topo in pages
  cur_id, tags, medoid,
  deletion_sets, active_delete_set,
  ins,                      \* the calls of insert_to_topo_in_place()
  merge,                    \* the place of trigger_deletion_in_place()
  deleted_nhoods

tableVars  == <<page_layout_topo, id2loc_topo_>>
pageVars   == <<empty_pages_topo, cur_page>>
deleteVars == <<deletion_sets, active_delete_set>>
mergeVars  == <<merge, deleted_nhoods>>
vars == <<tableVars, pageVars, deleteVars, mergeVars, topo, cur_id, tags, medoid,
          ins>>

Loc(pid, s) == pid * ntopo_per_sector + s       \* sector_to_loc_topo()
PageOf(loc) == loc \div ntopo_per_sector        \* loc_sector_no_topo()
PageOfId(i) == PageOf(id2loc_topo_[i])
SlotOfId(i) == id2loc_topo_[i] % ntopo_per_sector

EmptyLayout == [s \in Slots |-> Invalid]
IdsOn(pid) == {page_layout_topo[pid][s] : s \in Slots} \ {Invalid}
Placed == UNION {IdsOn(pid) : pid \in Pages}
Holes(pid) == {s \in Slots : page_layout_topo[pid][s] = Invalid}

(* A list read at the node's place in its page.                            *)
Record(i) == topo[PageOfId(i)][SlotOfId(i)]

Idle == [at |-> "idle", target |-> Invalid, new_nhood |-> {}, new_topo_pid |-> Invalid,
         pages |-> {}, buf |-> <<>>, upd |-> <<>>]

(* The loaded index is a ring; its places are those of the ids in order,   *)
(* and the tail is the first page behind them.                             *)
Ring(i) == IF i < NumPoints THEN {(i + 1) % NumPoints, (i + NumPoints - 1) % NumPoints}
           ELSE {}

Init ==
  /\ page_layout_topo = [pid \in Pages |-> [s \in Slots |->
       IF Loc(pid, s) < NumPoints THEN Loc(pid, s) ELSE Invalid]]
  /\ id2loc_topo_ = [i \in Ids |-> IF i < NumPoints THEN i ELSE Invalid]
  /\ topo = [pid \in Pages |-> [s \in Slots |-> Ring(Loc(pid, s))]]
  /\ empty_pages_topo = <<>>
  /\ cur_page = (NumPoints + ntopo_per_sector - 1) \div ntopo_per_sector
  /\ cur_id = NumPoints /\ tags = 0..(NumPoints - 1) /\ medoid = 0
  /\ deletion_sets = [d \in Sides |-> {}] /\ active_delete_set = 0
  /\ ins = [p \in Inserters |-> Idle]
  /\ merge = "idle" /\ deleted_nhoods = <<>>

-----------------------------------------------------------------------------
(* insert_to_topo_in_place() *)

(* The ids that have a place, or have had one: that of an erased id stays. *)
Known == {i \in Ids : id2loc_topo_[i] # Invalid}

(* What a search finds: whatever has the entry point and follows the       *)
(* records has these nodes.                                                *)
Reached ==
  {i \in Known : \A S \in SUBSET Known :
     medoid \in S /\ (\A j \in S : Record(j) \subseteq S) => i \in S}

(* The shared merge lock, the id, the search, which leaves the deleted     *)
(* nodes out of its result, and the pruning of that result.  When the      *)
(* entry point was deleted with all its neighbours ("Cannot recover"), the *)
(* search ends the program by its check for duplicate ids, and a list that *)
(* is empty after pruning ends it as well: there is no step then.          *)
Search(p) ==
  /\ ins[p].at = "idle" /\ merge = "idle"
  /\ cur_id < MaxIds /\ medoid \in Placed
  /\ \E new_nhood \in SUBSET (Reached \ deletion_sets[active_delete_set]) :
       /\ new_nhood # {} /\ Cardinality(new_nhood) <= range
       /\ ins' = [ins EXCEPT ![p].at = "alloc", ![p].target = cur_id,
                             ![p].new_nhood = new_nhood]
  /\ cur_id' = cur_id + 1
  /\ UNCHANGED <<tableVars, pageVars, deleteVars, mergeVars, topo, tags, medoid>>

(* An empty page in reserve for a split, under alloc_lock; then the pages  *)
(* to lock are listed, by where the nodes are now.  The code lists them    *)
(* after alloc_lock is free again, which another insertion could notice    *)
(* but a single one does not.                                              *)
AllocPage(p) ==
  LET Lock(pid) == [ins EXCEPT ![p].at = "lock", ![p].new_topo_pid = pid,
                      ![p].pages = {pid} \cup {PageOfId(i) : i \in ins[p].new_nhood}]
  IN
  /\ ins[p].at = "alloc"
  /\ \/ /\ empty_pages_topo # <<>>
        /\ ins' = Lock(Head(empty_pages_topo))
        /\ empty_pages_topo' = Tail(empty_pages_topo)
        /\ UNCHANGED cur_page
     \/ /\ empty_pages_topo = <<>> /\ cur_page \in Pages
        /\ ins' = Lock(cur_page)
        /\ cur_page' = cur_page + 1
        /\ UNCHANGED empty_pages_topo
  /\ tags' = tags \cup {ins[p].target}
  /\ UNCHANGED <<tableVars, deleteVars, mergeVars, topo, cur_id, medoid>>

LockedPages == UNION {ins[p].pages : p \in {q \in Inserters : ins[q].at \in {"place", "write"}}}

(* delta_prune_neighbors_pq() takes one node from a list that is too long. *)
Evicted(nhood) == IF Cardinality(nhood) > range THEN nhood ELSE {Invalid}

(* The target is added to each list; then the lists are put into copies of *)
(* the neighbours' pages.                                                  *)
Extended(p, i) == Record(i) \cup {ins[p].target}
UpdatedLists(p, out) == [i \in ins[p].new_nhood |-> Extended(p, i) \ {out[i]}]
PagesWith(upd) ==
  [pid \in {PageOfId(i) : i \in DOMAIN upd} |-> [s \in Slots |->
     LET here == {i \in DOMAIN upd : id2loc_topo_[i] = Loc(pid, s)} IN
     IF here = {} THEN topo[pid][s] ELSE upd[CHOOSE i \in here : TRUE]]]

(* lockReqs() locks the listed pages in ascending order, as a whole here.  *)
(* The neighbours' pages are read, those where the nodes are by now, which *)
(* need not be the listed ones.                                            *)
UpdateNeighbours(p) ==
  LET c == ins[p] IN
  /\ c.at = "lock" /\ c.pages \cap LockedPages = {}
  /\ \E out \in [c.new_nhood -> Ids \cup {Invalid}] :
       /\ \A i \in c.new_nhood : out[i] \in Evicted(Extended(p, i))
       /\ LET upd == UpdatedLists(p, out) IN
          ins' = [ins EXCEPT ![p].at = "place", ![p].upd = upd, ![p].buf = PagesWith(upd)]
  /\ UNCHANGED <<tableVars, pageVars, deleteVars, mergeVars, topo, cur_id, tags, medoid>>

(* (Plausible defect: the page in reserve is not given back.)              *)
GiveBackNothing(pid) == empty_pages_topo

GiveBack(pid) == Append(empty_pages_topo, pid)

(* The first hole of the first neighbour's page that has one takes the     *)
(* target, and the page in reserve goes back to the queue.                 *)
Place(p) ==
  LET c == ins[p] IN
  /\ c.at = "place"
  /\ \E pid \in {PageOfId(i) : i \in c.new_nhood} \cap DOMAIN c.buf :
       \E s \in Holes(pid) :
          /\ \A t \in Holes(pid) : s <= t
          /\ page_layout_topo' = [page_layout_topo EXCEPT ![pid][s] = c.target]
          /\ id2loc_topo_' = [id2loc_topo_ EXCEPT ![c.target] = Loc(pid, s)]
          /\ ins' = [ins EXCEPT ![p].at = "write", ![p].buf[pid][s] = c.new_nhood]
  /\ empty_pages_topo' = GiveBack(c.new_topo_pid)
  /\ UNCHANGED <<cur_page, deleteVars, mergeVars, topo, cur_id, tags, medoid>>

(* (Plausible defect: the places behind the ids keep what they held.)      *)
LayoutOfKeeping(pid, seq) ==
  [s \in Slots |-> IF s < Len(seq) THEN seq[s + 1] ELSE page_layout_topo[pid][s]]

LayoutOf(pid, seq) == [s \in Slots |-> IF s < Len(seq) THEN seq[s + 1] ELSE Invalid]

(* The sizes that the grouping of a page's ids by their links can give;    *)
(* which id goes where depends on the links and on an unordered set, and   *)
(* is left open.                                                           *)
GroupSize(k) == k > 0 /\ \A m \in {k, ntopo_per_sector - k} : m <= ntopo_per_sector \div 2 + 1

(* The tables follow the two groups, ids1 on the page that is split and    *)
(* ids2 on the new page.                                                   *)
PlaceIn(i, seq, pid) == Loc(pid, CHOOSE s \in Slots : s < Len(seq) /\ seq[s + 1] = i)
Relocated(pid, ids1, new, ids2) ==
  [i \in Ids |-> CASE i \in ToSet(ids1) -> PlaceIn(i, ids1, pid)
                   [] i \in ToSet(ids2) -> PlaceIn(i, ids2, new)
                   [] OTHER -> id2loc_topo_[i]]

(* The records are copied by place, the target's behind the others; the    *)
(* last place copied is behind the records of the page.  What is there is  *)
(* padding or the next buffer, which nobody clears: {} stands for zeros,   *)
(* an empty list.                                                          *)
Copied(page, ids1, ids2, new_nhood) ==
  [s \in Slots |-> CASE s < Len(ids2) /\ Len(ids1) + s \in Slots -> page[Len(ids1) + s]
                     [] s = Len(ids2) -> new_nhood
                     [] OTHER -> {}]

(* The pages of f in the place of those of g.                              *)
Over(f, g) == [pid \in DOMAIN f \cup DOMAIN g |-> IF pid \in DOMAIN f THEN f[pid] ELSE g[pid]]

(* Page and tables change under the ids' locks.                            *)
SplitInto(p, pid, ids1, ids2) ==
  LET new == ins[p].new_topo_pid
      copied == Copied(ins[p].buf[pid], ids1, ids2, ins[p].new_nhood)
  IN
  /\ page_layout_topo' = [page_layout_topo EXCEPT ![pid] = LayoutOf(pid, ids1),
                                                  ![new] = LayoutOf(new, ids2)]
  /\ id2loc_topo_' = Relocated(pid, ids1, new, ids2)
  /\ topo' = [topo EXCEPT ![pid] = ins[p].buf[pid], ![new] = copied]
  /\ ins' = [ins EXCEPT ![p].at = "write", ![p].buf = Over([pg \in {new} |-> copied], @)]

(* No neighbour's page has a hole: the page of the nearest neighbour is    *)
(* split.  The ids are grouped and the target joins its neighbour's group  *)
(* if there is room.                                                       *)
Split(p) ==
  LET c == ins[p] IN
  /\ c.at = "place"
  /\ {PageOfId(i) : i \in c.new_nhood} \subseteq DOMAIN c.buf
  /\ \A i \in c.new_nhood : Holes(PageOfId(i)) = {}
  /\ \E nearest \in c.new_nhood :
       \E order \in SetToSeqs(IdsOn(PageOfId(nearest))),
          k \in {m \in 1..ntopo_per_sector : GroupSize(m)} :
         LET group1 == SubSeq(order, 1, k)
             group2 == SubSeq(order, k + 1, ntopo_per_sector)
             first == nearest \in ToSet(group1) /\ Len(group1) < ntopo_per_sector
         IN  SplitInto(p, PageOfId(nearest),
                       IF first THEN Append(group1, c.target) ELSE group1,
                       IF first THEN group2 ELSE Append(group2, c.target))
  /\ UNCHANGED <<pageVars, deleteVars, mergeVars, cur_id, tags, medoid>>

(* The pages go to the cache and to the file, and the locks are released.  *)
WritePages(p) ==
  LET c == ins[p] IN
  /\ c.at = "write"
  /\ topo' = Over(c.buf, topo)
  /\ ins' = [ins EXCEPT ![p] = Idle]
  /\ UNCHANGED <<tableVars, pageVars, deleteVars, mergeVars, cur_id, tags, medoid>>

-----------------------------------------------------------------------------
(* lazy_delete() and trigger_deletion() *)

(* A point is deleted once, and MinPoints remain.                          *)
LazyDelete(i) ==
  LET deleted == UNION {deletion_sets[d] : d \in Sides} IN
  /\ i \in Placed \ deleted /\ Cardinality(Placed \ deleted) > MinPoints
  /\ deletion_sets' = [deletion_sets EXCEPT ![active_delete_set] = @ \cup {i}]
  /\ UNCHANGED <<tableVars, pageVars, active_delete_set, mergeVars, topo, cur_id, tags,
                 medoid, ins>>

(* The exclusive merge lock, and save_del_set().                           *)
SaveDelSet ==
  /\ merge = "idle" /\ \A p \in Inserters : ins[p].at = "idle"
  /\ deletion_sets[active_delete_set] # {}
  /\ deletion_sets' = [deletion_sets EXCEPT ![1 - active_delete_set] = {}]
  /\ active_delete_set' = 1 - active_delete_set
  /\ merge' = "populate"
  /\ UNCHANGED <<tableVars, pageVars, deleted_nhoods, topo, cur_id, tags, medoid, ins>>

Merged == deletion_sets[1 - active_delete_set]

(* Step 1: the neighbours of each deleted node that stay.                  *)
Populate ==
  LET deleted == Placed \cap Merged
      Kept(i) == Record(i) \ Merged
  IN
  /\ merge = "populate"
  /\ \E lists \in [deleted -> SUBSET UNION {Kept(i) : i \in deleted}] :
       /\ \A i \in deleted :
            /\ lists[i] \subseteq Kept(i)
            /\ Cardinality(lists[i]) =
                 IF Cardinality(Kept(i)) > n_sampled_nbrs THEN n_sampled_nbrs
                 ELSE Cardinality(Kept(i))
       /\ deleted_nhoods' = lists
  /\ merge' = "prune"
  /\ UNCHANGED <<tableVars, pageVars, deleteVars, topo, cur_id, tags, medoid, ins>>

(* (Plausible defect: the deleted neighbours stay in the list.)            *)
CandidatesAll(i) ==
  (Record(i) \cup UNION {deleted_nhoods[d] : d \in Record(i) \cap Merged}) \ {i}

(* A deleted neighbour is replaced by its own neighbours.                  *)
Candidates(i) ==
  ((Record(i) \ Merged) \cup UNION {deleted_nhoods[d] : d \in Record(i) \cap Merged}) \ {i}

(* Step 2: the records in place, pages of the file.  What the pruning of a *)
(* long list keeps is left open.                                           *)
Prune ==
  LET changed == {i \in Placed \ Merged : Record(i) \cap Merged # {}}
      long == {i \in changed : Cardinality(Candidates(i)) > range}
  IN
  /\ merge = "prune"
  /\ \E pruned \in [long -> SUBSET UNION {Candidates(i) : i \in long}] :
       /\ \A i \in long : /\ pruned[i] # {} /\ pruned[i] \subseteq Candidates(i)
                          /\ Cardinality(pruned[i]) <= range
       /\ LET List(i) == CASE i \in Merged -> {}
                           [] i \in long -> pruned[i]
                           [] i \in changed -> Candidates(i)
                           [] OTHER -> Record(i)
              Written(pid, s) == IF page_layout_topo[pid][s] = Invalid THEN topo[pid][s]
                                 ELSE List(page_layout_topo[pid][s])
          IN  topo' = [pid \in Pages |-> [s \in Slots |-> Written(pid, s)]]
  /\ merge' = "erase"
  /\ UNCHANGED <<tableVars, pageVars, deleteVars, deleted_nhoods, cur_id, tags, medoid, ins>>

(* erase_loc2id_topo() of all deleted nodes: their places are free, and a  *)
(* page is queued when its last id is erased.                              *)
ErasedLocs == {id2loc_topo_[i] : i \in DOMAIN deleted_nhoods}
LayoutLeft ==
  [pid \in Pages |-> [s \in Slots |->
     IF Loc(pid, s) \in ErasedLocs THEN Invalid ELSE page_layout_topo[pid][s]]]
Emptied == {pid \in {PageOf(loc) : loc \in ErasedLocs} : LayoutLeft[pid] = EmptyLayout}

(* A deleted entry point hands over to a neighbour that stays, if it has   *)
(* one; then the deleted ids leave the tables, in the order of their       *)
(* discovery.                                                              *)
Erase ==
  /\ merge = "erase"
  /\ IF medoid \notin Merged \/ deleted_nhoods[medoid] = {} THEN UNCHANGED medoid
     ELSE medoid' \in deleted_nhoods[medoid]
  /\ page_layout_topo' = LayoutLeft
  /\ \E order \in SetToSeqs(Emptied) : empty_pages_topo' = empty_pages_topo \o order
  /\ tags' = tags \ DOMAIN deleted_nhoods
  /\ merge' = "idle" /\ deleted_nhoods' = <<>>
  /\ UNCHANGED <<id2loc_topo_, cur_page, deleteVars, topo, cur_id, ins>>

-----------------------------------------------------------------------------
Next ==
  \/ \E p \in Inserters : \/ Search(p) \/ AllocPage(p) \/ UpdateNeighbours(p)
                          \/ Place(p) \/ Split(p) \/ WritePages(p)
  \/ \E i \in Ids : LazyDelete(i)
  \/ SaveDelSet \/ Populate \/ Prune \/ Erase

Spec == Init /\ [][Next]_vars

-----------------------------------------------------------------------------
(* Properties *)

Locs == {Loc(pid, s) : pid \in Pages, s \in Slots}
IsIdLists(f) == DOMAIN f \subseteq Ids /\ f \in [DOMAIN f -> SUBSET Ids]
ArePages(f) == DOMAIN f \subseteq Pages /\ f \in [DOMAIN f -> [Slots -> SUBSET Ids]]
IsCall(c) ==
  /\ c = [at |-> c.at, target |-> c.target, new_nhood |-> c.new_nhood,
          new_topo_pid |-> c.new_topo_pid, pages |-> c.pages, buf |-> c.buf, upd |-> c.upd]
  /\ c.at \in {"idle", "alloc", "lock", "place", "write"}
  /\ c.target \in Ids \cup {Invalid} /\ c.new_nhood \subseteq Ids
  /\ c.new_topo_pid \in Pages \cup {Invalid} /\ c.pages \subseteq Pages
  /\ ArePages(c.buf) /\ IsIdLists(c.upd)

(* The type of the variables.                                              *)
TypeOK ==
  /\ page_layout_topo \in [Pages -> [Slots -> Ids \cup {Invalid}]]
  /\ id2loc_topo_ \in [Ids -> Locs \cup {Invalid}]
  /\ topo \in [Pages -> [Slots -> SUBSET Ids]]
  /\ empty_pages_topo \in Seq(Pages) /\ cur_page \in 0..MaxPages
  /\ cur_id \in 0..MaxIds /\ tags \subseteq Ids /\ medoid \in Ids
  /\ deletion_sets \in [Sides -> SUBSET Ids] /\ active_delete_set \in Sides
  /\ ins = [p \in Inserters |-> ins[p]] /\ \A p \in Inserters : IsCall(ins[p])
  /\ merge \in {"idle", "populate", "prune", "erase"} /\ IsIdLists(deleted_nhoods)

(* The calls that hold a page in reserve.                                  *)
Reserving(p) == ins[p].at \in {"lock", "place"}

(* page_layout_topo and id2loc_topo_ are inverse to one another across     *)
(* placements, splits and the erasure of deleted points: the id at a place *)
(* has that place and no other, and every point with a tag is placed,      *)
(* except one that is just being inserted (ssd_index.h:587, 655; lines     *)
(* 461-485, 632-659 of direct_to_topo_insert.cpp; erase_loc2id_topo()).    *)
LayoutConsistent ==
  /\ \A pid \in Pages, s \in Slots :
       page_layout_topo[pid][s] # Invalid =>
         id2loc_topo_[page_layout_topo[pid][s]] = Loc(pid, s)
  /\ tags \subseteq Placed \cup {ins[p].target : p \in {q \in Inserters : Reserving(q)}}

(* No page is lost or given out twice: a page before the tail holds ids,   *)
(* or is queued once, or is in reserve in one call (the queue              *)
(* empty_pages_topo; lines 164, 478 and 645 of direct_to_topo_insert.cpp). *)
PagesAccounted ==
  \A pid \in Pages :
    LET queued == {k \in DOMAIN empty_pages_topo : empty_pages_topo[k] = pid}
        held == {p \in Inserters : Reserving(p) /\ ins[p].new_topo_pid = pid}
    IN  Cardinality(queued) + Cardinality(held)
          = IF pid < cur_page /\ IdsOn(pid) = {} THEN 1 ELSE 0

(* Between deletions no list of a placed node names an erased id, whose    *)
(* place another node may take, also when the lists were moved by splits   *)
(* and the deletions come in several rounds (trigger_deletion.cpp:234-291).*)
NoDeletedLinks ==
  merge = "idle" =>
    \A i \in Placed \ {ins[p].target : p \in Inserters} : Record(i) \subseteq Placed

(* When an insertion returns, the lists that it computed are found at the  *)
(* places of their nodes (ssd_index.h:587, "id -> loc").  A split breaks   *)
(* this: the records are copied by place while the tables order the ids by *)
(* group (direct_to_topo_insert.cpp:601-607).                              *)
RecordsOwn ==
  [][\A p \in Inserters :
       LET wanted == (ins[p].target :> ins[p].new_nhood) @@ ins[p].upd
       IN  WritePages(p) => \A i \in DOMAIN wanted : Record(i)' = wanted[i]]_vars
=============================================================================
