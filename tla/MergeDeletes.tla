---------------------------- MODULE MergeDeletes ----------------------------
(***************************************************************************)
(* SSDIndex::merge_deletes() and reload(): the records of the ids that are *)
(* not deleted are renumbered and written to a new index file, their lists *)
(* repaired around the deleted neighbours, and the index switched to it.   *)
(*                                                                         *)
(*   populate   threads give new ids, chunk of LocPerPopulate by chunk,    *)
(*              and collect the neighbours of the deleted nodes            *)
(*   merge      threads put the new records in wbuf, batch of LocPerMerge  *)
(*              by batch; wbuf is a ring of two batches of new ids         *)
(*   commit     tables and metadata are switched under merge_lock, which   *)
(*              reload() releases once the new file is open                *)
(*                                                                         *)
(* Inserts are kept out by DynamicSSDIndex._merge_lock, but the writes of  *)
(* the last ones may still be with the background thread; searches go on.  *)
(* A vector is named by its id before the merge, which is its tag as well. *)
(***************************************************************************)
EXTENDS Integers, FiniteSets, FiniteSetsExt, Functions

CONSTANTS
  NIds,             \* the ids 0 .. NIds - 1 are in use
  Tail,             \* cur_loc, a whole number of pages
  NodesPerPage,     \* meta_.nnodes_per_sector
  LocPerPopulate,   \* LOC_PER_POPULATE
  LocPerMerge,      \* LOC_PER_MERGE, a whole number of pages
  R,                \* params.R
  NSampled,         \* n_sampled_nbrs
  Layouts,          \* the initial id2loc_: injections of Ids into 0 .. Tail - 1
  Graphs,           \* the initial neighbour lists
  BgStates,         \* the initial states of the background thread
  Modes             \* the search modes in use: "beam", "pipe"

Ids  == 0 .. NIds - 1
Locs == 0 .. Tail - 1
Invalid == -1

ASSUME MergeAssumption ==
  /\ NIds \in Nat \ {0} /\ NodesPerPage \in Nat \ {0}
  /\ Tail \in Nat /\ NIds <= Tail /\ Tail % NodesPerPage = 0
  /\ LocPerPopulate \in Nat \ {0}
  /\ LocPerMerge \in Nat \ {0} /\ LocPerMerge % NodesPerPage = 0
  /\ R \in Nat \ {0} /\ NSampled \in Nat
  /\ Layouts \subseteq Injection(Ids, Locs)
  /\ Graphs \subseteq [Ids -> SUBSET Ids]
  /\ BgStates \subseteq {"none", "queued"}
  /\ Modes \subseteq {"beam", "pipe"}

VARIABLES
  file,             \* the open index file: the record in each location
  bg, bg_buf,       \* the last insert's write: none, queued or in work
  id2loc, loc2id, cur_loc, empty_pages, npoints, entry_point, tags,
  nbr_handler,      \* the PQ code of each id; its table may have moved away
  deleted,          \* deleted_nodes_set
  pc,               \* the phase of the merge
  loc_st, rbuf,     \* the current chunk or batch and what was read of it,
  done,             \* and the locations its threads are through with
  id_map, deleted_nhoods,
  wbuf, wb_id, n_used_id,
  out,              \* the new index file
  search, cands     \* the search in progress and the nodes it may read next

tables == <<id2loc, loc2id, cur_loc, empty_pages, npoints, entry_point, tags>>
bgVars == <<file, bg, bg_buf>>
loop   == <<loc_st, rbuf, done>>
maps   == <<id_map, deleted_nhoods>>
window == <<wbuf, wb_id, n_used_id, out>>
reader == <<search, cands>>
vars   == <<tables, bgVars, loop, maps, window, reader, nbr_handler, deleted, pc>>

Blank == [vec |-> Invalid, nbrs |-> {}]
NoRecords == [l \in {} |-> Blank]
Empty == [i \in {} |-> Invalid]
PageOf(l) == l \div NodesPerPage
Pages == {PageOf(l) : l \in Locs}

(* All ids are located.  The write of the page of the last id may be due;  *)
(* the file has nothing in that page yet.  Nothing in the code excludes    *)
(* this start, nor sizes that do not divide each other: a configuration    *)
(* with BgIdle or with whole chunks narrows what can happen.               *)
Init ==
  /\ deleted \in SUBSET Ids
  /\ id2loc \in Layouts
  /\ loc2id = [l \in Locs |-> IF \E i \in Ids : id2loc[i] = l
                              THEN CHOOSE i \in Ids : id2loc[i] = l ELSE Invalid]
  /\ cur_loc = Tail /\ npoints = NIds
  /\ empty_pages = {g \in Pages : \A l \in Locs : PageOf(l) = g => loc2id[l] = Invalid}
  /\ entry_point \in Ids
  /\ tags = [i \in Ids |-> i]
  /\ nbr_handler = [codes |-> [i \in Ids |-> i], table |-> TRUE]
  /\ bg \in BgStates
  /\ \E g \in Graphs :
       LET new == [l \in Locs |-> IF loc2id[l] = Invalid THEN Blank
                                  ELSE [vec |-> loc2id[l], nbrs |-> g[loc2id[l]]]]
           due == {l \in Locs : bg = "queued" /\ PageOf(l) = PageOf(id2loc[NIds - 1])}
       IN  /\ file = [l \in Locs |-> IF l \in due THEN Blank ELSE new[l]]
           /\ bg_buf = [l \in due |-> new[l]]
  /\ pc = "wait"
  /\ loc_st = 0 /\ rbuf = NoRecords /\ done = {}
  /\ id_map = Empty /\ deleted_nhoods = Empty
  /\ wbuf = [s \in 0 .. 2 * LocPerMerge - 1 |-> Blank]
  /\ wb_id = 0 /\ n_used_id = 0
  /\ out = [l \in Locs |-> Blank]
  /\ search = "none" /\ cands = {}

-----------------------------------------------------------------------------
(* The background thread pops the task and later has written it.           *)

BgPop ==
  /\ bg = "queued"
  /\ bg' = "writing"
  /\ UNCHANGED <<tables, file, bg_buf, loop, maps, window, reader, nbr_handler, deleted, pc>>

BgFinish ==
  /\ bg = "writing"
  /\ file' = [l \in Locs |-> IF l \in DOMAIN bg_buf THEN bg_buf[l] ELSE file[l]]
  /\ bg' = "none" /\ bg_buf' = NoRecords
  /\ UNCHANGED <<tables, loop, maps, window, reader, nbr_handler, deleted, pc>>

-----------------------------------------------------------------------------
(* Step 1.                                                                 *)

(* while (!bg_tasks.empty()) sleep.                                        *)
WaitForBackground ==
  /\ pc = "wait"
  /\ bg # "queued"
  /\ pc' = "populate"
  /\ UNCHANGED <<tables, bgVars, loop, maps, window, reader, nbr_handler, deleted>>

(* The locations of the current chunk or batch, and those with an id that  *)
(* no thread has dealt with.  The threads take them in no particular order.*)
Batch ==
  loc_st .. Min({cur_loc, loc_st + IF pc = "populate" THEN LocPerPopulate
                                   ELSE LocPerMerge}) - 1
Todo == {l \in Batch \ done : loc2id[l] # Invalid}

(* The chunk or batch is read from disk, past the page cache.              *)
ReadBatch ==
  /\ pc \in {"populate", "merge"}
  /\ rbuf = NoRecords
  /\ rbuf' = [l \in Batch |-> file[l]]
  /\ UNCHANGED <<tables, bgVars, loc_st, done, maps, window, reader, nbr_handler,
                 deleted, pc>>

(* new_npoints.fetch_add(1).                                               *)
NewId == Cardinality(DOMAIN id_map)

(* insert() of a map: a key that is there keeps its value.                 *)
Inserted(map, key, value) ==
  [k \in DOMAIN map \cup {key} |-> IF k \in DOMAIN map THEN map[k] ELSE value]

Populate(l) ==
  LET id == loc2id[l]
      live == rbuf[l].nbrs \ deleted IN
  /\ pc = "populate" /\ rbuf # NoRecords
  /\ l \in Todo
  /\ \/ /\ id \notin deleted
        /\ id_map' = Inserted(id_map, id, NewId)
        /\ UNCHANGED deleted_nhoods
     \/ /\ id \in deleted
        /\ \E nhood \in SUBSET live :
             /\ Cardinality(nhood) = Min({Cardinality(live), NSampled})
             /\ deleted_nhoods' = Inserted(deleted_nhoods, id, nhood)
        /\ UNCHANGED id_map
  /\ done' = done \cup {l}
  /\ UNCHANGED <<tables, bgVars, loc_st, rbuf, window, reader, nbr_handler, deleted, pc>>

(* The end of a chunk.                                                     *)
EndPopulate ==
  LET last == loc_st + LocPerPopulate >= cur_loc IN
  /\ pc = "populate" /\ rbuf # NoRecords
  /\ Todo = {}
  /\ loc_st' = IF last THEN 0 ELSE loc_st + LocPerPopulate
  /\ pc' = IF last THEN "merge" ELSE pc
  /\ rbuf' = NoRecords /\ done' = {}
  /\ UNCHANGED <<tables, bgVars, maps, window, reader, nbr_handler, deleted>>

-----------------------------------------------------------------------------
(* Step 2.                                                                 *)

(* A list that became longer than R is pruned to some of its members.      *)
Pruned(nhood) ==
  IF Cardinality(nhood) <= R THEN {nhood}
  ELSE {s \in SUBSET nhood : Cardinality(s) \in 1 .. R}

(* nhood_set: deleted neighbours are replaced by their neighbours.         *)
Repaired(l) ==
  LET old == rbuf[l].nbrs
  IN  ((old \ deleted) \cup UNION {deleted_nhoods[i] : i \in old \cap deleted})
        \ {loc2id[l]}

(* (Plausible defect: the list keeps the ids of before the merge.)         *)
NotRenumbered(s) == s

(* The list, in the new ids.                                               *)
Renumbered(s) == {id_map[i] : i \in s}

Merge(l) ==
  LET id == loc2id[l]
      slot == id_map[id] % (2 * LocPerMerge) IN
  /\ pc = "merge" /\ rbuf # NoRecords
  /\ l \in Todo
  /\ \/ /\ id \in deleted
        /\ UNCHANGED <<wbuf, n_used_id>>
     \/ /\ id \notin deleted
        /\ \E s \in Pruned(Repaired(l)) :
             wbuf' = [wbuf EXCEPT ![slot] = [vec |-> rbuf[l].vec, nbrs |-> Renumbered(s)]]
        /\ n_used_id' = n_used_id + 1
  /\ done' = done \cup {l}
  /\ UNCHANGED <<tables, bgVars, loc_st, rbuf, maps, wb_id, out, reader, nbr_handler,
                 deleted, pc>>

(* (Plausible defects: the first half of the ring is written every time;   *)
(* wb_id does not advance.)                                                *)
WriteBackFirstHalf ==
  LET id_delta == Min({LocPerMerge, n_used_id - wb_id}) IN
  /\ out' = [l \in Locs |->
               IF PageOf(l) \in PageOf(wb_id) .. PageOf(wb_id + id_delta - 1)
               THEN wbuf[l - wb_id] ELSE out[l]]
  /\ wb_id' = wb_id + id_delta
WriteBackInPlace ==
  LET id_delta == Min({LocPerMerge, n_used_id - wb_id})
      first == ((wb_id % (2 * LocPerMerge)) \div LocPerMerge) * LocPerMerge IN
  /\ out' = [l \in Locs |->
               IF PageOf(l) \in PageOf(wb_id) .. PageOf(wb_id + id_delta - 1)
               THEN wbuf[first + l - wb_id] ELSE out[l]]
  /\ wb_id' = wb_id

(* write_back(): the pages of the next batch of new ids.                   *)
WriteBack ==
  LET id_delta == Min({LocPerMerge, n_used_id - wb_id})
      first == ((wb_id % (2 * LocPerMerge)) \div LocPerMerge) * LocPerMerge IN
  /\ out' = [l \in Locs |->
               IF PageOf(l) \in PageOf(wb_id) .. PageOf(wb_id + id_delta - 1)
               THEN wbuf[first + l - wb_id] ELSE out[l]]
  /\ wb_id' = wb_id + id_delta

(* The end of a batch.                                                     *)
EndMerge ==
  LET last == loc_st + LocPerMerge >= cur_loc IN
  /\ pc = "merge" /\ rbuf # NoRecords
  /\ Todo = {}
  /\ \/ n_used_id - wb_id >= LocPerMerge /\ WriteBack
     \/ n_used_id - wb_id < LocPerMerge /\ UNCHANGED <<out, wb_id>>
  /\ loc_st' = IF last THEN 0 ELSE loc_st + LocPerMerge
  /\ pc' = IF last THEN "flush" ELSE pc
  /\ rbuf' = NoRecords /\ done' = {}
  /\ UNCHANGED <<tables, bgVars, maps, wbuf, n_used_id, reader, nbr_handler, deleted>>

Flush ==
  /\ pc = "flush"
  /\ wb_id < n_used_id
  /\ WriteBack
  /\ UNCHANGED <<tables, bgVars, loop, maps, wbuf, n_used_id, reader, nbr_handler,
                 deleted, pc>>

(* nbr_handler->shuffle(): the new handler gets the codes in the order of  *)
(* the new ids, and takes the PQ table from the old one, still in use.     *)
Shuffle ==
  /\ pc = "flush"
  /\ wb_id >= n_used_id
  /\ nbr_handler' = [nbr_handler EXCEPT !.table = FALSE]
  /\ pc' = "entry"
  /\ UNCHANGED <<tables, bgVars, loop, maps, window, reader, deleted>>

(* A deleted entry point is replaced by the first of its neighbours.       *)
ChooseEntry ==
  /\ pc = "entry"
  /\ entry_point \in deleted
  /\ entry_point' \in deleted_nhoods[entry_point]
  /\ UNCHANGED <<id2loc, loc2id, cur_loc, empty_pages, npoints, tags, bgVars, loop, maps, window,
                 reader, nbr_handler, deleted, pc>>

(* ... and that is undefined if it has none: a read through a null data(). *)
CrashEntry ==
  /\ pc = "entry"
  /\ entry_point \in deleted
  /\ deleted_nhoods[entry_point] = {}
  /\ pc' = "crashed"
  /\ UNCHANGED <<tables, bgVars, loop, maps, window, reader, nbr_handler, deleted>>

(* (Plausible defect: the switch does not wait for searches.)              *)
LockNothing == TRUE

(* merge_lock.lock(): no beam_search() is in progress.                     *)
MergeLockFree == search # "beam"

(* The switch, under merge_lock, which stays locked.                       *)
Commit ==
  LET new_npoints == Cardinality(DOMAIN id_map)
      vecs == [i \in 0 .. new_npoints - 1 |-> CHOOSE v \in DOMAIN id_map : id_map[v] = i]
  IN
  /\ pc = "entry"
  /\ entry_point \notin deleted
  /\ MergeLockFree
  /\ npoints' = new_npoints
  /\ entry_point' = id_map[entry_point]
  /\ nbr_handler' = [codes |-> vecs, table |-> TRUE]
  /\ tags' = [i \in DOMAIN vecs |-> tags[vecs[i]]]
  /\ id2loc' = [i \in Ids |-> IF i < new_npoints THEN i ELSE id2loc[i]]
  /\ loc2id' = [l \in Locs |-> IF l < new_npoints THEN l ELSE loc2id[l]]
  /\ pc' = "reload"
  /\ UNCHANGED <<cur_loc, empty_pages, bgVars, loop, maps, window, reader, deleted>>

(* (Plausible defect: loc2id_ is not reset.)                               *)
ReloadOnly ==
  /\ pc = "reload"
  /\ file' = out
  /\ cur_loc' = ((npoints + NodesPerPage - 1) \div NodesPerPage) * NodesPerPage
  /\ pc' = "done"
  /\ UNCHANGED <<id2loc, loc2id, empty_pages, npoints, entry_point, tags, bg, bg_buf, loop, maps,
                 window, reader, nbr_handler, deleted>>

(* reload(): init_metadata() sets cur_loc before the loop over loc2id_; and *)
(* the queue of empty pages is drained.                                    *)
Reload ==
  LET tail == ((npoints + NodesPerPage - 1) \div NodesPerPage) * NodesPerPage IN
  /\ pc = "reload"
  /\ file' = out
  /\ cur_loc' = tail
  /\ loc2id' = [l \in Locs |-> IF l \in npoints .. tail - 1 THEN Invalid ELSE loc2id[l]]
  /\ empty_pages' = {}
  /\ pc' = "done"
  /\ UNCHANGED <<id2loc, npoints, entry_point, tags, bg, bg_buf, loop, maps, window,
                 reader, nbr_handler, deleted>>

-----------------------------------------------------------------------------
(* One search: beam_search() holds merge_lock, shared; pipe_search() does  *)
(* not.  Initializing the query needs the PQ table.  A node is put in the  *)
(* list by its id, at the distance of the vector its code is of.           *)

Node(i) == [id |-> i, vec |-> IF i \in DOMAIN nbr_handler.codes
                              THEN nbr_handler.codes[i] ELSE Invalid]

(* A read finds a page that is still to be written in the cache.           *)
Served(l) == IF l \in DOMAIN bg_buf THEN bg_buf[l] ELSE file[l]

SearchBegin(m) ==
  /\ search = "none"
  /\ m = "beam" => pc # "reload"
  /\ \/ nbr_handler.table /\ search' = m /\ cands' = {Node(entry_point)}
     \/ ~nbr_handler.table /\ search' = "crashed" /\ cands' = {}
  /\ UNCHANGED <<tables, bgVars, loop, maps, window, nbr_handler, deleted, pc>>

(* A candidate is read at its location, and its neighbours are added.      *)
SearchRead(c) ==
  /\ search \in Modes
  /\ c \in cands
  /\ cands' = (cands \ {c}) \cup {Node(i) : i \in Served(id2loc[c.id]).nbrs}
  /\ UNCHANGED <<tables, bgVars, loop, maps, window, search, nbr_handler, deleted, pc>>

SearchEnd ==
  /\ search \in Modes
  /\ search' = "none" /\ cands' = {}
  /\ UNCHANGED <<tables, bgVars, loop, maps, window, nbr_handler, deleted, pc>>

-----------------------------------------------------------------------------
MergeStep ==
  \/ WaitForBackground \/ ReadBatch
  \/ \E l \in Locs : Populate(l) \/ Merge(l)
  \/ EndPopulate \/ EndMerge \/ Flush
  \/ Shuffle \/ ChooseEntry \/ CrashEntry \/ Commit \/ Reload

SearchStep ==
  \/ \E m \in Modes : SearchBegin(m)
  \/ \E c \in cands : SearchRead(c)
  \/ SearchEnd

Next == MergeStep \/ SearchStep \/ BgPop \/ BgFinish

Spec == Init /\ [][Next]_vars

(* The merge and the background thread are scheduled.  No fairness on      *)
(* merge_lock: the default rwlock prefers readers, and a stream of beam    *)
(* searches may keep Commit waiting.                                       *)
LiveSpec == Spec /\ WF_vars(MergeStep) /\ WF_vars(BgPop \/ BgFinish)

-----------------------------------------------------------------------------
(* Properties.                                                             *)

Record == [vec : Ids \cup {Invalid}, nbrs : SUBSET Ids]
Phases == {"wait", "populate", "merge", "flush", "entry", "reload", "done", "crashed"}

(* The type of the variables.                                              *)
TypeOK ==
  /\ file \in [Locs -> Record] /\ out \in [Locs -> Record]
  /\ bg \in {"none", "queued", "writing"}
  /\ \A l \in DOMAIN bg_buf : l \in Locs /\ bg_buf[l] \in Record
  /\ id2loc \in [Ids -> Locs]
  /\ loc2id \in [Locs -> Ids \cup {Invalid}]
  /\ cur_loc \in 0 .. Tail /\ npoints \in 0 .. NIds
  /\ entry_point \in Ids /\ empty_pages \subseteq Pages
  /\ \A i \in DOMAIN tags : i \in Ids /\ tags[i] \in Ids
  /\ nbr_handler.table \in BOOLEAN /\ DOMAIN nbr_handler.codes = DOMAIN tags
  /\ deleted \subseteq Ids
  /\ pc \in Phases
  /\ loc_st \in Locs \cup {0} /\ done \subseteq Locs
  /\ DOMAIN rbuf \in {{}, Batch}
  /\ DOMAIN id_map \subseteq Ids /\ \A i \in DOMAIN id_map : id_map[i] \in Ids
  /\ \A i \in DOMAIN deleted_nhoods : deleted_nhoods[i] \subseteq Ids
  /\ wbuf \in [0 .. 2 * LocPerMerge - 1 -> Record]
  /\ wb_id \in 0 .. n_used_id /\ n_used_id \in 0 .. NIds
  /\ search \in Modes \cup {"none", "crashed"}
  /\ cands \subseteq [id : Ids, vec : Ids \cup {Invalid}]

(* "Write back <wb_id>/<n_used_id> IDs." (delete_merge.cpp): the records   *)
(* of the ids below wb_id are in the new file.                             *)
IdsWrittenBack ==
  \A v \in DOMAIN id_map : id_map[v] < wb_id => out[id_map[v]].vec = v

(* From the switch on, the renumbering is sound, whatever has been read:   *)
(* there is an id for every live vector, with one tag and the PQ code of   *)
(* the same vector, and the lists in the new file and the entry point are  *)
(* ids of the new index.  Each live vector is numbered by one of several   *)
(* threads, its list is made by another one with the help of the lists of  *)
(* deleted nodes, and the tables are switched in a third pass.             *)
NumberingSound ==
  pc \in {"reload", "done"} =>
    /\ npoints = Cardinality(Ids \ deleted)
    /\ DOMAIN tags = 0 .. npoints - 1
    /\ {tags[i] : i \in DOMAIN tags} = Ids \ deleted
    /\ \A i \in DOMAIN tags : nbr_handler.codes[i] = tags[i]
    /\ \A l \in Locs : out[l].nbrs \subseteq DOMAIN tags /\ Cardinality(out[l].nbrs) <= R
    /\ entry_point \in DOMAIN tags

(* ... and so are the records, if nothing was read too early and whole     *)
(* batches of ids are written: each is of its id's tag, and links to other *)
(* ids only.                                                               *)
MergedIndexSound ==
  /\ pc \in {"reload", "done"} =>
       \A i \in 0 .. npoints - 1 : out[i].vec = tags[i] /\ i \notin out[i].nbrs
  /\ pc = "done" => \A i \in 0 .. npoints - 1 : file[id2loc[i]].vec = tags[i]

(* Once reloaded, the tables below the new tail are those of a freshly     *)
(* loaded index, so that inserts may start again (LocTable's InitTables).  *)
TablesRenewed ==
  pc = "done" =>
    /\ cur_loc >= npoints /\ cur_loc < npoints + NodesPerPage
    /\ \A i \in 0 .. npoints - 1 : id2loc[i] = i /\ loc2id[i] = i
    /\ \A l \in npoints .. cur_loc - 1 : loc2id[l] = Invalid
    /\ \A l \in Locs : PageOf(l) \in empty_pages => loc2id[l] = Invalid /\ l < cur_loc

(* As long as no search holds merge_lock, a merge ends: the wait for the   *)
(* background thread, the loops over chunks, batches and new ids, and the  *)
(* replacement of the entry point, unless that is undefined.               *)
MergeEnds == pc = "wait" ~> pc \in {"done", "crashed"}

(* "serve search during merge" (ssd_index.h, of merge_lock): a node that a *)
(* search has put in its list is what it finds when it reads the node.     *)
CandidatesServed == \A c \in cands : Served(id2loc[c.id]).vec = c.vec

(* "serve search during merge": no search starts on a PQ table that has    *)
(* been moved to the handler of the new index.                             *)
SearchServed == search # "crashed"

(* "simple way to wait for background IO thread" (delete_merge.cpp): what  *)
(* the merge reads from the disk are the records of the index.             *)
ReadsCurrent ==
  \A l \in DOMAIN rbuf : loc2id[l] # Invalid => rbuf[l].vec = loc2id[l]
=============================================================================
