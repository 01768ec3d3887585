---------------------------- MODULE DirectInsert ----------------------------
(***************************************************************************)
(* insert_in_place() of PipeANN's SSDIndex, called by several threads, and *)
(* the background I/O thread that finishes its writes.  The locks are      *)
(* taken in the order                                                      *)
(*                                                                         *)
(*    page_lock_table  ->  vec_lock_table  ->  idx_lock_table              *)
(*                                                                         *)
(* each of them key by key, in increasing order.  The page locks are       *)
(* handed to the background thread, with the query buffer that holds the   *)
(* pages, and released once the pages are on disk.                         *)
(*                                                                         *)
(* A SparseLockTable records no owner: an exclusive lock is a member of a  *)
(* set, and unlock() of an absent key does nothing.                        *)
(*                                                                         *)
(* The table steps are those of LocTable, which this module implements.    *)
(* The contents of pages are the subject of module InsertData.             *)
(***************************************************************************)
EXTENDS Integers, Sequences, FiniteSets, SequencesExt

CONSTANTS
  Inserters, NPoints, NodesPerPage, MaxId, MaxLoc, MaxVisits, MinNbrs, MaxNbrs,
  NBufs             \* query buffers: 2 * n_threads in init_buffers()

ASSUME DirectInsertAssumption ==
  /\ NodesPerPage \in Nat \ {0} /\ NPoints \in Nat \ {0}      \* as in LocTable
  /\ MaxId \in Nat /\ NPoints <= MaxId
  /\ MaxLoc \in Nat /\ NPoints <= MaxLoc
  /\ MaxVisits \in Nat \ {0}
  /\ MinNbrs \in 0 .. MaxNbrs /\ MaxNbrs \in Nat \ {0}
  /\ NBufs \in Nat \ {0}

VARIABLES
  cur_id, cur_loc, id2loc, loc2id, empty_pages,     \* as in LocTable
  target, nbrs, hints, locs, orig_locs,             \* as in LocTable
  at,               \* the place of each inserter in insert_in_place()
  todo,             \* the keys it has still to lock
  reading,          \* the id whose page its search reads, under a read lock
  page_locks,       \* the write-locked keys of page_lock_table,
  vec_locks,        \* of vec_lock_table
  idx_locks,        \* and of idx_lock_table
  thread_data_queue,\* the number of free query buffers
  bg_tasks,         \* the queued tasks: the pages each one writes and unlocks
  bg_task           \* the task the background thread works on, or {}

tables == <<cur_id, cur_loc, id2loc, loc2id, empty_pages>>
locals == <<target, nbrs, hints, locs, orig_locs>>
locks  == <<page_locks, vec_locks, idx_locks>>
bg     == <<bg_tasks, bg_task>>
vars   == <<tables, locals, at, todo, reading, locks, thread_data_queue, bg>>

(* Past the commit of its locations, an insert is over for the tables.     *)
Over(p) == at[p] \in {"idle", "unlockvec", "unlocktarget", "push"}
PcBar == [p \in Inserters |->
            CASE Over(p) -> "idle"
              [] at[p] \in {"begin", "search", "reading"} -> "search"
              [] at[p] \in {"lockpage", "lockvec", "read", "update"} -> "write"
              [] at[p] = "lockidx" -> "lock"
              [] OTHER -> at[p]]
Bar(f, over) == [p \in Inserters |-> IF Over(p) THEN over ELSE f[p]]
None == [i \in {} |-> -1]

LT == INSTANCE LocTable WITH
        pc <- PcBar, target <- Bar(target, -1), nbrs <- Bar(nbrs, {}),
        locs <- Bar(locs, None), orig_locs <- Bar(orig_locs, None)

Ids == LT!Ids
Pages == LT!Pages
WritePages(p) == {LT!PageOf(locs[p][i]) : i \in DOMAIN locs[p]}
MyIds(p) == nbrs[p] \cup {target[p]}
Least(S) == CHOOSE x \in S : \A y \in S : x <= y

Init ==
  /\ LT!InitTables
  /\ target = [p \in Inserters |-> -1]
  /\ nbrs = [p \in Inserters |-> {}]
  /\ hints = [p \in Inserters |-> <<>>]
  /\ locs = [p \in Inserters |-> None]
  /\ orig_locs = [p \in Inserters |-> None]
  /\ at = [p \in Inserters |-> "idle"]
  /\ todo = [p \in Inserters |-> {}]
  /\ reading = [p \in Inserters |-> -1]
  /\ page_locks = {} /\ vec_locks = {} /\ idx_locks = {}
  /\ thread_data_queue = NBufs
  /\ bg_tasks = <<>> /\ bg_task = {}

-----------------------------------------------------------------------------
(* Search and allocation.                                                  *)

(* pop_query_buf(), then target_id = cur_id++.                             *)
Begin(p) ==
  /\ at[p] = "idle"
  /\ thread_data_queue > 0
  /\ cur_id < MaxId
  /\ thread_data_queue' = thread_data_queue - 1
  /\ target' = [target EXCEPT ![p] = cur_id]
  /\ cur_id' = cur_id + 1
  /\ at' = [at EXCEPT ![p] = "begin"]
  /\ UNCHANGED <<cur_loc, id2loc, loc2id, empty_pages, nbrs, hints, locs, orig_locs,
                 todo, reading, locks, bg>>

(* do_beam_search() pops a second buffer, which it returns at its end.     *)
BeginSearch(p) ==
  /\ at[p] = "begin"
  /\ thread_data_queue > 0
  /\ thread_data_queue' = thread_data_queue - 1
  /\ at' = [at EXCEPT ![p] = "search"]
  /\ UNCHANGED <<tables, locals, todo, reading, locks, bg>>

(* Under a read lock of idx_lock_table the search looks up id i and reads  *)
(* its page; page_ref keeps the page.                                      *)
Visit(p, i) ==
  /\ at[p] = "search"
  /\ Len(hints[p]) < MaxVisits
  /\ i \in LT!Visible \ nbrs[p]
  /\ i \notin idx_locks
  /\ nbrs' = [nbrs EXCEPT ![p] = @ \cup {i}]
  /\ hints' = [hints EXCEPT ![p] = Append(@, LT!PageOf(id2loc[i]))]
  /\ reading' = [reading EXCEPT ![p] = i]
  /\ at' = [at EXCEPT ![p] = "reading"]
  /\ UNCHANGED <<tables, target, locs, orig_locs, todo, locks, thread_data_queue, bg>>

(* The read returns: unlock_idx().                                         *)
EndVisit(p) ==
  /\ at[p] = "reading"
  /\ reading' = [reading EXCEPT ![p] = -1]
  /\ at' = [at EXCEPT ![p] = "search"]
  /\ UNCHANGED <<tables, locals, todo, locks, thread_data_queue, bg>>

(* prune_neighbors() and alloc_loc(); the search's buffer is returned.     *)
AllocLoc(p, keep) ==
  LET n == Cardinality(keep) + 1
      slots == LT!AllocSlots(n, hints[p])
  IN  /\ at[p] = "search"
      /\ hints[p] # <<>>
      /\ n \in MinNbrs + 1 .. MaxNbrs + 1
      /\ LT!AlignUp(cur_loc + n) <= MaxLoc
      /\ LT!AllocTables(n, slots)
      /\ \E a \in LT!Bijection(keep \cup {target[p]}, slots) :
           /\ locs' = [locs EXCEPT ![p] = a]
           /\ todo' = [todo EXCEPT ![p] = {LT!PageOf(l) : l \in slots}]
      /\ nbrs' = [nbrs EXCEPT ![p] = keep]
      /\ hints' = [hints EXCEPT ![p] = <<>>]
      /\ thread_data_queue' = thread_data_queue + 1
      /\ at' = [at EXCEPT ![p] = "lockpage"]
      /\ UNCHANGED <<cur_id, id2loc, target, orig_locs, reading, locks, bg>>

-----------------------------------------------------------------------------
(* Locking.                                                                *)

(* lockReqs(page_lock_table, pages_to_rmw): in order, without duplicates.  *)
LockPage(p) ==
  LET g == Least(todo[p]) IN
  /\ at[p] = "lockpage"
  /\ g \notin page_locks
  /\ page_locks' = page_locks \cup {g}
  /\ IF todo[p] = {g}
     THEN /\ todo' = [todo EXCEPT ![p] = MyIds(p)]
          /\ at' = [at EXCEPT ![p] = "lockvec"]
     ELSE /\ todo' = [todo EXCEPT ![p] = @ \ {g}]
          /\ UNCHANGED at
  /\ UNCHANGED <<tables, locals, reading, vec_locks, idx_locks, thread_data_queue, bg>>

(* (Plausible defect: lock_vec() takes the locks shared.)                  *)
LockVecShared(p) ==
  LET i == Least(todo[p]) IN
  /\ at[p] = "lockvec"
  /\ vec_locks' = vec_locks \cup {i}
  /\ todo' = [todo EXCEPT ![p] = @ \ {i}]
  /\ at' = [at EXCEPT ![p] = IF todo[p] = {i} THEN "read" ELSE @]
  /\ UNCHANGED <<tables, locals, reading, page_locks, idx_locks, thread_data_queue, bg>>

(* lock_vec(vec_lock_table, target_id, new_nhood): in order.               *)
LockVec(p) ==
  LET i == Least(todo[p]) IN
  /\ at[p] = "lockvec"
  /\ i \notin vec_locks
  /\ vec_locks' = vec_locks \cup {i}
  /\ todo' = [todo EXCEPT ![p] = @ \ {i}]
  /\ at' = [at EXCEPT ![p] = IF todo[p] = {i} THEN "read" ELSE @]
  /\ UNCHANGED <<tables, locals, reading, page_locks, idx_locks, thread_data_queue, bg>>

(* read_alloc(): the pages of the neighbours are found by id2loc() ...     *)
ReadPages(p) ==
  /\ at[p] = "read"
  /\ at' = [at EXCEPT ![p] = "update"]
  /\ UNCHANGED <<tables, locals, todo, reading, locks, thread_data_queue, bg>>

(* (Plausible defect: the neighbours' ids move here too, before they are   *)
(* locked against searches.)                                               *)
SetTargetMovingIds(p) ==
  /\ at[p] = "update"
  /\ id2loc' = [i \in Ids |-> IF i \in MyIds(p) THEN locs[p][i] ELSE id2loc[i]]
  /\ todo' = [todo EXCEPT ![p] = MyIds(p)]
  /\ at' = [at EXCEPT ![p] = "lockidx"]
  /\ UNCHANGED <<cur_id, cur_loc, loc2id, empty_pages, locals, reading, locks,
                 thread_data_queue, bg>>

(* ... and again by id2loc() when the records are copied and wbc_write()   *)
(* puts them in the cache; then set_id2loc(target_id).                     *)
SetTarget(p) ==
  /\ at[p] = "update"
  /\ id2loc' = [id2loc EXCEPT ![target[p]] = locs[p][target[p]]]
  /\ todo' = [todo EXCEPT ![p] = MyIds(p)]
  /\ at' = [at EXCEPT ![p] = "lockidx"]
  /\ UNCHANGED <<cur_id, cur_loc, loc2id, empty_pages, locals, reading, locks,
                 thread_data_queue, bg>>

(* (Plausible defect: lock_idx() takes the locks shared.)                  *)
LockIdxShared(p) ==
  LET i == Least(todo[p]) IN
  /\ at[p] = "lockidx"
  /\ idx_locks' = idx_locks \cup {i}
  /\ todo' = [todo EXCEPT ![p] = @ \ {i}]
  /\ at' = [at EXCEPT ![p] = IF todo[p] = {i} THEN "move" ELSE @]
  /\ UNCHANGED <<tables, locals, reading, page_locks, vec_locks, thread_data_queue, bg>>

(* lock_idx(idx_lock_table, target_id, new_nhood): in order, exclusive.    *)
LockIdx(p) ==
  LET i == Least(todo[p]) IN
  /\ at[p] = "lockidx"
  /\ i \notin idx_locks
  /\ \A q \in Inserters : reading[q] # i
  /\ idx_locks' = idx_locks \cup {i}
  /\ todo' = [todo EXCEPT ![p] = @ \ {i}]
  /\ at' = [at EXCEPT ![p] = IF todo[p] = {i} THEN "move" ELSE @]
  /\ UNCHANGED <<tables, locals, reading, page_locks, vec_locks, thread_data_queue, bg>>

-----------------------------------------------------------------------------
(* Commit and hand-over.                                                   *)

MoveIds(p) ==
  /\ at[p] = "move"
  /\ orig_locs' = [orig_locs EXCEPT ![p] = [i \in nbrs[p] |-> id2loc[i]]]
  /\ id2loc' = [i \in Ids |-> IF i \in nbrs[p] THEN locs[p][i] ELSE id2loc[i]]
  /\ at' = [at EXCEPT ![p] = "erase"]
  /\ UNCHANGED <<cur_id, cur_loc, loc2id, empty_pages, target, nbrs, hints, locs,
                 todo, reading, locks, thread_data_queue, bg>>

(* (Plausible defect: unlock_idx() of the target only.)                    *)
EraseAndSetLocKeepingLocks(p) ==
  /\ at[p] = "erase"
  /\ LT!CommitTables(p)
  /\ idx_locks' = idx_locks \ {target[p]}
  /\ at' = [at EXCEPT ![p] = "unlockvec"]
  /\ UNCHANGED <<cur_id, cur_loc, id2loc, locals, todo, reading, page_locks, vec_locks,
                 thread_data_queue, bg>>

(* erase_and_set_loc(), then unlock_idx().                                 *)
EraseAndSetLoc(p) ==
  /\ at[p] = "erase"
  /\ LT!CommitTables(p)
  /\ idx_locks' = idx_locks \ MyIds(p)
  /\ at' = [at EXCEPT ![p] = "unlockvec"]
  /\ UNCHANGED <<cur_id, cur_loc, id2loc, locals, todo, reading, page_locks, vec_locks,
                 thread_data_queue, bg>>

(* unlock_vec(vec_lock_table, target_id, new_nhood): by now new_nhood ends *)
(* with the target, which is unlocked first ...                            *)
UnlockVec(p) ==
  /\ at[p] = "unlockvec"
  /\ vec_locks' = vec_locks \ MyIds(p)
  /\ at' = [at EXCEPT ![p] = "unlocktarget"]
  /\ UNCHANGED <<tables, locals, todo, reading, page_locks, idx_locks, thread_data_queue, bg>>

(* ... and last, a second time.                                            *)
UnlockTarget(p) ==
  /\ at[p] = "unlocktarget"
  /\ vec_locks' = vec_locks \ {target[p]}
  /\ at' = [at EXCEPT ![p] = "push"]
  /\ UNCHANGED <<tables, locals, todo, reading, page_locks, idx_locks, thread_data_queue, bg>>

(* bg_tasks.push(): the task takes over the pages, locks and buffer.       *)
PushTask(p) ==
  /\ at[p] = "push"
  /\ bg_tasks' = Append(bg_tasks, WritePages(p))
  /\ target' = [target EXCEPT ![p] = -1]
  /\ nbrs' = [nbrs EXCEPT ![p] = {}]
  /\ locs' = [locs EXCEPT ![p] = None]
  /\ orig_locs' = [orig_locs EXCEPT ![p] = None]
  /\ at' = [at EXCEPT ![p] = "idle"]
  /\ UNCHANGED <<tables, hints, todo, reading, locks, thread_data_queue, bg_task>>

(* (Plausible defect: the pages are unlocked before they are written.)     *)
BgPopUnlocking ==
  /\ bg_task = {}
  /\ bg_tasks # <<>>
  /\ bg_task' = Head(bg_tasks)
  /\ bg_tasks' = Tail(bg_tasks)
  /\ page_locks' = page_locks \ Head(bg_tasks)
  /\ UNCHANGED <<tables, locals, at, todo, reading, vec_locks, idx_locks, thread_data_queue>>

(* bg_io_thread() pops a task and writes its pages ...                     *)
BgPop ==
  /\ bg_task = {}
  /\ bg_tasks # <<>>
  /\ bg_task' = Head(bg_tasks)
  /\ bg_tasks' = Tail(bg_tasks)
  /\ UNCHANGED <<tables, locals, at, todo, reading, locks, thread_data_queue>>

(* (Plausible defect: the pages stay locked.)                              *)
BgFinishLocked ==
  /\ bg_task # {}
  /\ thread_data_queue' = thread_data_queue + 1
  /\ bg_task' = {}
  /\ UNCHANGED <<tables, locals, at, todo, reading, locks, bg_tasks>>

(* ... and, once they are written, unlocks them and frees the buffer.      *)
BgFinish ==
  /\ bg_task # {}
  /\ page_locks' = page_locks \ bg_task
  /\ thread_data_queue' = thread_data_queue + 1
  /\ bg_task' = {}
  /\ UNCHANGED <<tables, locals, at, todo, reading, vec_locks, idx_locks, bg_tasks>>

(* The steps of one insert after it has begun.                             *)
Step(p) ==
  \/ BeginSearch(p) \/ EndVisit(p)
  \/ \E i \in Ids : Visit(p, i)
  \/ \E keep \in SUBSET nbrs[p] : AllocLoc(p, keep)
  \/ LockPage(p) \/ LockVec(p) \/ ReadPages(p) \/ SetTarget(p) \/ LockIdx(p)
  \/ MoveIds(p) \/ EraseAndSetLoc(p) \/ UnlockVec(p) \/ UnlockTarget(p) \/ PushTask(p)

Next ==
  \/ \E p \in Inserters : Begin(p) \/ Step(p)
  \/ BgPop
  \/ BgFinish

(* Callers need not call again, but a started insert runs on a scheduled   *)
(* thread and the background thread loops until it is told to terminate.   *)
Fairness == /\ \A p \in Inserters : WF_vars(Step(p))
            /\ WF_vars(BgPop \/ BgFinish)

Spec == Init /\ [][Next]_vars /\ Fairness

-----------------------------------------------------------------------------
(* Properties.                                                             *)

Stages == {"idle", "begin", "search", "reading", "lockpage", "lockvec", "read", "update",
           "lockidx", "move", "erase", "unlockvec", "unlocktarget", "push"}

(* The type of the variables this module adds to those of LocTable.        *)
TypeOK ==
  /\ at \in [Inserters -> Stages]
  /\ todo \in [Inserters -> SUBSET (Ids \cup Pages)]
  /\ reading \in [Inserters -> Ids \cup {-1}]
  /\ page_locks \subseteq Pages
  /\ vec_locks \subseteq Ids
  /\ idx_locks \subseteq Ids
  /\ thread_data_queue \in 0 .. NBufs
  /\ bg_tasks \in Seq(SUBSET Pages)
  /\ bg_task \subseteq Pages

(* insert_in_place(), with its locks taken key by key and its readers, is  *)
(* an implementation of the atomic table protocol of LocTable.             *)
ImplementsLocTable == LT!Spec

(* The pages an insert has locked so far; it owns them until its task has  *)
(* been queued.                                                            *)
LockedPages(p) ==
  IF at[p] = "lockpage" THEN WritePages(p) \ todo[p]
  ELSE IF at[p] \in {"lockvec", "read", "update", "lockidx", "move", "erase",
                     "unlockvec", "unlocktarget", "push"} THEN WritePages(p)
  ELSE {}

(* A page has one writer from the first lock to the end of its write in    *)
(* the background, across the hand-over: no two inserts or tasks, queued   *)
(* or running, work on one page, and every page worked on is locked.       *)
PageWritesExclusive ==
  LET Tasks == 1 .. Len(bg_tasks) IN
  /\ \A p, q \in Inserters : p # q => LockedPages(p) \cap LockedPages(q) = {}
  /\ \A j, k \in Tasks : j # k => bg_tasks[j] \cap bg_tasks[k] = {}
  /\ \A p \in Inserters, k \in Tasks : LockedPages(p) \cap bg_tasks[k] = {}
  /\ \A p \in Inserters : LockedPages(p) \cap bg_task = {}
  /\ \A k \in Tasks : bg_tasks[k] \cap bg_task = {}
  /\ page_locks = (UNION {LockedPages(p) : p \in Inserters})
                    \cup (UNION {bg_tasks[k] : k \in Tasks}) \cup bg_task

(* A location is not recycled under a reader: as long as a search holds    *)
(* the read lock of an id, the page it reads is the one of the id's record.*)
ReaderSeesItsRecord ==
  \A p \in Inserters : reading[p] # -1 => loc2id[id2loc[reading[p]]] = reading[p]

(* When no insert and no background task is left, nothing is locked and    *)
(* all query buffers are free, in spite of unlock_vec()'s extra unlock.    *)
QuietMeansUnlocked ==
  (/\ \A p \in Inserters : at[p] = "idle"
   /\ bg_tasks = <<>> /\ bg_task = {})
  => /\ page_locks = {} /\ vec_locks = {} /\ idx_locks = {}
     /\ thread_data_queue = NBufs

(* Every insert that has begun returns: no wait for a buffer, a page, a    *)
(* vector or an index lock lasts forever.                                  *)
InsertReturns == \A p \in Inserters : at[p] # "idle" ~> at[p] = "idle"

(* The background thread gets to every task: once callers stop, all page   *)
(* locks are released.                                                     *)
PagesUnlocked == page_locks # {} ~> page_locks = {}

(* "lock the target and the neighbor ids (ensure that sector_no does not   *)
(* change)" (direct_insert.cpp): from the reads of the neighbours' pages   *)
(* to its own move of them, no neighbour of an insert changes its page.    *)
SectorsStable ==
  [][\A p \in Inserters : at[p] \in {"update", "lockidx", "move"} =>
       \A i \in nbrs[p] : id2loc'[i] # id2loc[i] => at[p] = "move" /\ at'[p] = "erase"]_vars
=============================================================================
