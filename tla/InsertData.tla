----------------------------- MODULE InsertData -----------------------------
(***************************************************************************)
(* The contents of pages under concurrent calls of insert_in_place(): the  *)
(* index file, the reference-counted PageCache of pages in use, the read-  *)
(* modify-write of the pages an insert allocates from, and the write in    *)
(* the background.  Each action is one of DirectInsert with what it does   *)
(* to pages.                                                               *)
(*                                                                         *)
(* A read_alloc() is two steps: the look-up in the cache, with the disk    *)
(* read of what is missing, and later the put() of that into the cache.    *)
(* A page is one sector.  A page of several sectors of which only the      *)
(* first are cached would take references on those that read_from_cache()  *)
(* does not give back; this is not modelled.  Neighbour lists do not reach *)
(* params.R here, so that no link is pruned.                               *)
(***************************************************************************)
EXTENDS DirectInsert

VARIABLES
  disk,             \* the record in each location of the index file
  refs,             \* PageCacheItem.ref_cnt of each page, 0: not cached
  cached,           \* PageCacheItem.buf: the record in each cached location
  page_ref,         \* page_ref: how often each insert has referenced a page
  need_read,        \* pages_need_to_read of each insert
  buf,              \* page_buf_map: the records an insert works on
  missing,          \* the pages it has read from disk, with its requests for
  found,            \* each, and the records it has found there
  bg_bufs,          \* the records each queued task writes
  bg_buf            \* and those the task in work writes

dataVars == <<disk, refs, cached, page_ref, need_read, buf, missing, found,
              bg_bufs, bg_buf>>
allVars  == <<vars, dataVars>>

Locs == LT!Locs
PageOf(l) == LT!PageOf(l)
PageLocs(S) == {l \in Locs : PageOf(l) \in S}

(* A record: the vector (by its id) and its neighbour list.                *)
Blank == [id |-> -1, nbrs |-> {}]
NoRecords == [l \in {} |-> Blank]
NoPages == [g \in {} |-> 0]
Zero == [g \in Pages |-> 0]

(* What a read of location l returns.                                      *)
Contents(l) == IF refs[PageOf(l)] > 0 THEN cached[l] ELSE disk[l]

-----------------------------------------------------------------------------
(* PageCache.                                                              *)

(* reqs[g] references are added to each page g; the pages of a function    *)
(* bufs are put(), that is, overwrite what the cache holds.                *)
AddRefs(reqs, bufs) ==
  /\ refs' = [g \in Pages |-> refs[g] + (IF g \in DOMAIN reqs THEN reqs[g] ELSE 0)]
  /\ cached' = [l \in Locs |-> IF l \in DOMAIN bufs THEN bufs[l] ELSE cached[l]]

(* (Plausible defect: deref() drops one reference per page, however often  *)
(* it was requested.)                                                      *)
DropOneRef(reqs) ==
  LET left(g) == refs[g] - (IF g \in DOMAIN reqs /\ reqs[g] > 0 THEN 1 ELSE 0) IN
  /\ refs' = [g \in Pages |-> left(g)]
  /\ cached' = [l \in Locs |-> IF left(PageOf(l)) > 0 THEN cached[l] ELSE Blank]

(* deref(): an unreferenced page leaves the cache.                         *)
DropRefs(reqs) ==
  LET left(g) == refs[g] - (IF g \in DOMAIN reqs THEN reqs[g] ELSE 0) IN
  /\ refs' = [g \in Pages |-> left(g)]
  /\ cached' = [l \in Locs |-> IF left(PageOf(l)) > 0 THEN cached[l] ELSE Blank]

(* read_alloc(): hits are referenced at once, misses are read from disk.   *)
Request(p, reqs) ==
  LET miss == {g \in DOMAIN reqs : refs[g] = 0} IN
  /\ AddRefs([g \in DOMAIN reqs \ miss |-> reqs[g]], NoRecords)
  /\ missing' = [missing EXCEPT ![p] = [g \in miss |-> reqs[g]]]
  /\ found' = [found EXCEPT ![p] = [l \in PageLocs(miss) |-> disk[l]]]
  /\ page_ref' = [page_ref EXCEPT ![p] = [g \in Pages |->
                    @[g] + (IF g \in DOMAIN reqs THEN reqs[g] ELSE 0)]]

(* The misses, once read, are put in the cache.                            *)
PutMisses(p) ==
  /\ AddRefs(missing[p], found[p])
  /\ missing' = [missing EXCEPT ![p] = NoPages]
  /\ found' = [found EXCEPT ![p] = NoRecords]

-----------------------------------------------------------------------------
(* The steps of DirectInsert.                                              *)

DataInit ==
  /\ Init
  /\ disk = [l \in Locs |-> IF l < NPoints THEN [id |-> l, nbrs |-> {}] ELSE Blank]
  /\ refs = Zero
  /\ cached = [l \in Locs |-> Blank]
  /\ page_ref = [p \in Inserters |-> Zero]
  /\ need_read = [p \in Inserters |-> {}]
  /\ buf = [p \in Inserters |-> NoRecords]
  /\ missing = [p \in Inserters |-> NoPages]
  /\ found = [p \in Inserters |-> NoRecords]
  /\ bg_bufs = <<>> /\ bg_buf = NoRecords

DataVisit(p, i) ==
  /\ Visit(p, i)
  /\ Request(p, [g \in {PageOf(id2loc[i])} |-> 1])
  /\ UNCHANGED <<disk, need_read, buf, bg_bufs, bg_buf>>

DataEndVisit(p) ==
  /\ EndVisit(p)
  /\ PutMisses(p)
  /\ UNCHANGED <<disk, page_ref, need_read, buf, bg_bufs, bg_buf>>

DataAllocLoc(p, keep) ==
  LET n == Cardinality(keep) + 1 IN
  /\ AllocLoc(p, keep)
  /\ need_read' = [need_read EXCEPT ![p] =
                     LT!PagesToRead(n, hints[p], LT!AllocSlots(n, hints[p]))]
  /\ UNCHANGED <<disk, refs, cached, page_ref, buf, missing, found, bg_bufs, bg_buf>>

(* (Plausible defect: no page is read before it is modified.)              *)
AllRawPages(p) == WritePages(p)

(* The pages to write that are not read first.                             *)
RawPages(p) == WritePages(p) \ need_read[p]

(* The pages of the neighbours, one request each, and the pages to be      *)
(* refilled.  A page to write that is not read starts as raw memory, also  *)
(* when a neighbour's record is in it: page_buf_map names its buffer.      *)
DataReadPages(p) ==
  LET nbrPages == {PageOf(id2loc[i]) : i \in nbrs[p]}
      reqs == [g \in nbrPages \cup need_read[p] |->
                 Cardinality({i \in nbrs[p] : PageOf(id2loc[i]) = g})
                   + (IF g \in need_read[p] THEN 1 ELSE 0)]
  IN  /\ ReadPages(p)
      /\ Request(p, reqs)
      /\ buf' = [buf EXCEPT ![p] =
                   [l \in PageLocs(nbrPages \cup WritePages(p)) |->
                      IF PageOf(l) \in RawPages(p) THEN Blank ELSE Contents(l)]]
      /\ UNCHANGED <<disk, need_read, bg_bufs, bg_buf>>

(* The end of that read_alloc().                                           *)
FillCache(p) ==
  /\ at[p] = "update"
  /\ missing[p] # NoPages
  /\ PutMisses(p)
  /\ UNCHANGED <<vars, disk, page_ref, need_read, buf, bg_bufs, bg_buf>>

(* The target's record, and the neighbours' with the link to the target.   *)
NewRecords(p) ==
  [l \in PageLocs(WritePages(p)) |->
     IF l = locs[p][target[p]] THEN [id |-> target[p], nbrs |-> nbrs[p]]
     ELSE IF \E i \in nbrs[p] : locs[p][i] = l
       THEN LET i == CHOOSE i \in nbrs[p] : locs[p][i] = l
            IN  [buf[p][id2loc[i]] EXCEPT !.nbrs = @ \cup {target[p]}]
     ELSE buf[p][l]]

(* The records are made and put in the cache by wbc_write().  A neighbour  *)
(* that is no longer in a page read ends the process ("Sector ... not      *)
(* found in page_buf_map").                                                *)
DataSetTarget(p) ==
  /\ missing[p] = NoPages
  /\ \A i \in nbrs[p] : id2loc[i] \in DOMAIN buf[p]
  /\ SetTarget(p)
  /\ AddRefs([g \in WritePages(p) |-> 1], NewRecords(p))
  /\ buf' = [buf EXCEPT ![p] = NewRecords(p)]
  /\ UNCHANGED <<disk, page_ref, need_read, missing, found, bg_bufs, bg_buf>>

DataPushTask(p) ==
  /\ PushTask(p)
  /\ bg_bufs' = Append(bg_bufs, buf[p])
  /\ DropRefs(page_ref[p])
  /\ page_ref' = [page_ref EXCEPT ![p] = Zero]
  /\ buf' = [buf EXCEPT ![p] = NoRecords]
  /\ need_read' = [need_read EXCEPT ![p] = {}]
  /\ UNCHANGED <<disk, missing, found, bg_buf>>

DataBgPop ==
  /\ BgPop
  /\ bg_buf' = Head(bg_bufs)
  /\ bg_bufs' = Tail(bg_bufs)
  /\ UNCHANGED <<disk, refs, cached, page_ref, need_read, buf, missing, found>>

(* The records are on disk, and the references of wbc_write() dropped.     *)
DataBgFinish ==
  /\ BgFinish
  /\ disk' = [l \in Locs |-> IF l \in DOMAIN bg_buf THEN bg_buf[l] ELSE disk[l]]
  /\ DropRefs([g \in bg_task |-> 1])
  /\ bg_buf' = NoRecords
  /\ UNCHANGED <<page_ref, need_read, buf, missing, found, bg_bufs>>

DataNext ==
  \/ \E p \in Inserters :
       \/ \E i \in Ids : DataVisit(p, i)
       \/ DataEndVisit(p)
       \/ \E keep \in SUBSET nbrs[p] : DataAllocLoc(p, keep)
       \/ DataReadPages(p) \/ FillCache(p) \/ DataSetTarget(p) \/ DataPushTask(p)
       \/ /\ \/ Begin(p) \/ BeginSearch(p) \/ LockPage(p) \/ LockVec(p) \/ LockIdx(p)
             \/ MoveIds(p) \/ EraseAndSetLoc(p) \/ UnlockVec(p) \/ UnlockTarget(p)
          /\ UNCHANGED dataVars
  \/ DataBgPop
  \/ DataBgFinish

DataSpec == DataInit /\ [][DataNext]_allVars

-----------------------------------------------------------------------------
(* Properties.                                                             *)

Records == [id : Ids \cup {-1}, nbrs : SUBSET Ids]

(* The type of the variables this module adds to those of DirectInsert.    *)
DataTypeOK ==
  /\ disk \in [Locs -> Records]
  /\ refs \in [Pages -> Nat]
  /\ cached \in [Locs -> Records]
  /\ page_ref \in [Inserters -> [Pages -> Nat]]
  /\ need_read \in [Inserters -> SUBSET Pages]
  /\ \A p \in Inserters :
       /\ \A l \in DOMAIN buf[p] : buf[p][l] \in Records
       /\ DOMAIN missing[p] \subseteq Pages
       /\ DOMAIN found[p] = PageLocs(DOMAIN missing[p])
  /\ Len(bg_bufs) = Len(bg_tasks)
  /\ DOMAIN bg_buf = PageLocs(bg_task)

(* Inserts whose wbc_write() references are not yet with a task.           *)
HasWritten(p) == at[p] \in {"lockidx", "move", "erase", "unlockvec", "unlocktarget", "push"}

(* The references to page g that an insert holds: those of its page_ref,   *)
(* but for the requests it still waits for, and one of its unqueued write. *)
Held(p, g) ==
  page_ref[p][g] - (IF g \in DOMAIN missing[p] THEN missing[p][g] ELSE 0)
    + (IF HasWritten(p) /\ g \in WritePages(p) THEN 1 ELSE 0)

HeldRefs(g) == UNION {{p} \X (1 .. Held(p, g)) : p \in Inserters}
QueuedRefs(g) == {k \in 1 .. Len(bg_tasks) : g \in bg_tasks[k]}

(* Every reference to a cached page is accounted for: it is held by an     *)
(* insert, or by a task.  So no deref() finds "a non-exist block_no", and  *)
(* no page stays in the cache when nobody uses it.                         *)
RefsAccounted ==
  \A g \in Pages :
    refs[g] = Cardinality(HeldRefs(g)) + Cardinality(QueuedRefs(g))
                + (IF g \in bg_task THEN 1 ELSE 0)

(* Whoever reads the location of a settled id, from the cache or from the  *)
(* disk, finds that id's record.                                           *)
RecordsIntact == \A i \in LT!Settled : Contents(id2loc[i]).id = i

(* The neighbours a committed insert has chosen link to it: no concurrent  *)
(* insert copies an old version of their records over the new one.         *)
LinksMutual ==
  \A t \in LT!Settled : t >= NPoints =>
    \A i \in Contents(id2loc[t]).nbrs \cap LT!Settled :
      i < t => t \in Contents(id2loc[i]).nbrs

(* "ensure that disk has a consistent state" (page_cache.h): when all      *)
(* inserts and their writes are done, the disk holds the record of every   *)
(* id at the id's location.                                                *)
DiskConsistent ==
  (/\ \A p \in Inserters : at[p] = "idle"
   /\ bg_tasks = <<>> /\ bg_task = {})
  => \A i \in 0 .. cur_id - 1 : disk[id2loc[i]].id = i
=============================================================================
