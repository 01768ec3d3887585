# TLA+ models of the updatable disk indices in Disk-ANN-Evaluation

The repository collects six disk-resident systems for approximate nearest
neighbour search. Three of them accept inserts and deletes while they serve
searches: PipeANN updates its index in place, FreshDiskANN collects updates in
memory and merges them into a new disk index, and DGAI keeps the graph in a file of
its own, whose pages split. This project models their update paths with the
searches that run meanwhile: locks, caches, allocators, background threads, page
splits and merges. PipeANN is modelled most completely.

Contents: [1 Inventory](#1-inventory) · [2 Plan](#2-plan) ·
[3 Modules](#3-modules) · [4 Runs](#4-runs) ·
[5 Where the code disagrees with itself](#5-where-the-code-disagrees-with-itself) ·
[6 Proofs](#6-proofs) · [7 What is not modelled](#7-what-is-not-modelled)

To check: `tlc -config X.cfg MCM.tla` for a run of section 4,
`tlapm M.tla` for the proofs of `LocTableProofs`, `DirectInsertProofs`,
`MergeDeletesProofs`, `PipeSearchProofs`, `DynamicIndexProofs`, `MergeInsertProofs`,
`IndexMergerProofs` and `TopoInsertProofs` (section 6).

---------------------------------------------------------------------------

## 1 Inventory

### 1.1 The systems

| system | what it is | place here |
|---|---|---|
| PipeANN | graph index on SSD with pipelined search, in-place inserts, lazy deletes and merges | LocTable, DirectInsert, InsertData, InsertRecords, MergeDeletes, PipeSearch, DynamicIndex |
| FreshDiskANN | two memory indices in front of a disk index that a merge thread renews | MergeInsert, IndexMerger |
| DGAI | a fork of PipeANN's update path that keeps topology and vectors in separate files | TopoInsert |
| Gorgeous (with Starling), PageANN, AiSAQ | read-only searches over rearranged DiskANN files | not modelled |

Vendored code (libcuckoo, tsl, RaBitQ, liburing, upstream DiskANN sources in the
forks) is left aside; where PipeANN depends on a library, its use is modelled.

### 1.2 PipeANN's components

**Location tables and allocator** (`ssd_index.cpp`, `ssd_index.h`).
State: `id2loc_`, `loc2id_`, `cur_id`, `cur_loc`, the queue `empty_pages`, all in
memory. Operations: `alloc_loc` (empty pages, then holes of pages the search has
just read, then the end of the file), `set_id2loc`, `erase_and_set_loc`,
`erase_loc2id`, `id2loc`, `loc2id`. Shared by inserts (exclusive locks on ids),
searches (shared locks on ids) and the merge. Hard: a slot is reserved under
`alloc_lock`, used for a long time without it, and committed under it again; a
page is queued as empty by whoever takes its last record. Correct when the two
tables are inverse to each other for every id a search can reach, when no slot has
two owners and none is lost, and when a queued page is empty.

**Insert** (`update/direct_insert.cpp`). State: local to a call. Operation:
search for neighbours, allocate one location for the target and each neighbour,
lock pages and ids, read, build the records, put them in the page cache, switch
the ids to the new locations, erase the old ones, hand the write to the background
thread. Hard: three lock tables and a buffer pool are held together; what is read
before a lock is used under it; the page locks change owner. Correct when no page
has two writers, no neighbour loses a link, readers find the record of the id they
hold, and every insert returns.

**Background I/O thread** (`bg_io_thread`). State: `bg_tasks`. One thread that
pops a task, writes its pages, unlocks them, drops the cache references, and
returns the buffer. Hard: it is the only one that frees what inserts wait for.

**Page cache** (`utils/page_cache.h`, `aligned_file_reader.h`,
`linux_aligned_file_reader.cpp`). State: pages with reference counts. Operations
`get`, `put`, `deref` are atomic per page; `read_alloc` and `wbc_write` are
sequences of them. Hard: a miss is a disk read between a failed `get` and a `put`.
Correct when references balance, when the cache never goes back to an older page,
and when the disk ends up with the last version.

**Merge** (`update/delete_merge.cpp`). State: `id_map`, `deleted_nhoods`, a ring
buffer of two batches, the new file. Operation: renumber the live ids, repair their
lists, write a new file, switch tables, tags, PQ codes and entry point under
`merge_lock`, reopen. Hard: ids are given by parallel threads, the ring is written
by id; searches and the last background write run meanwhile. Correct when every
live record is in the new file once with a sound list, all tables are renumbered
alike, and a search sees one numbering.

**Searches** (`search/*.cpp`). Beam search holds `merge_lock` shared and a shared
lock per id it reads. Pipelined search keeps reads in flight in a ring of buffers,
and does not take `merge_lock`. Page search locks pages instead of ids. Coroutine
search is read-only. Hard: requests that outlive the search, buffers that are
reused, ids that are renumbered.

The pipelined search is correct when no read outlives it, when it expands every node
from that node's record, and when it and the inserts it meets both return.

**Dynamic index** (`update/dynamic_index.cpp`). State: two deletion sets and the
index of the active one, the prefixes of two index files, a journal that is only
appended to. Operations: insert, search with a filter, lazy delete, merge. Hard: a
search uses the set that was active when it began; files, reader, tables and sets
are switched one after the other. Correct when no live vector is lost, no deleted one
comes back, and a search returns the live vectors.

**Python index** (`pyindex.h`). State: memory index, disk index, deleted tags.
Operations: add, remove, search, save, load; moves from memory to disk at a
threshold. `pyindex.cpp` releases the interpreter lock nowhere, so that calls do not
interleave.

**Sparse lock table, concurrent queue** (`utils/lock_table.h`,
`utils/concurrent_queue.h`). A map from keys to counted rwlocks without owners; a
queue whose waits are timed. Both are used by everything above.

**Pruning** (`utils/prune_neighbors.h`), **PQ handler** (`nbr/pq_nbr.h`),
**in-memory index, filters, build tools**: algorithms on distances and offline
work.

### 1.3 FreshDiskANN's components

**MergeInsert** (`src/v2/merge_insert.cpp`). State: two memory indices with their
`_active` flags, two deletion sets, the loaded disk index, the flags
`_check_switch_index` and `_clearing_index_0/1`. Operations: `insert`, `lazy_delete`,
`search_sync`, and the merge thread's `trigger_merge`, `final_merge`, `save_del_set`,
`switch_index`, `merge`, `save`. Hard: every transfer of points from memory to disk is
done under the eyes of searches, and the switch competes with inserts for
`_index_lock`. Correct when no vector is lost or comes back, when a search finds what
was there all the time, and when the switch happens.

**IndexMerger** (`src/v2/index_merger.cpp`, `graph_delta.cpp`). State: the old and new
disk index, deleted ids, the renaming, the deltas. Operations: delete pass, rename,
insert pass, merge pass, over the file in blocks. Hard: an id changes hands between
passes; a node without links is a hole. Correct when the new index holds exactly the
live vectors and no link leads to a deleted or a free id.

**Static parts**: in-memory Vamana, the read-only disk index, PQ. Not modelled.

### 1.4 DGAI's components

**Topology file** (`src/update/direct_to_topo_insert.cpp`, `trigger_deletion.cpp`,
`ssd_index.cpp`). State: `page_layout_topo`, `id2loc_topo_`, `empty_pages_topo`,
`cur_loc_topo`, the pages. Operations: insertion with a page in reserve, placement in
a neighbour's page, page split, deletion in place. Hard: an insertion moves records
of other nodes. Correct when both tables and the records agree and no page is lost.

**Coordinate file** (a slot allocator without splits), **BlockCache**, **rerank
search**: not modelled.

### 1.5 How they interact

```
 DynamicSSDIndex / PyIndex
     | insert (shared _merge_lock)      | search              | final_merge (exclusive)
     v                                  v                     v
 insert_in_place --> do_beam_search   beam_search/...     merge_deletes --> reload
     |   |   |            |               |  merge_lock shared    |  merge_lock exclusive
     |   |   |            | idx locks shared                      |
     |   |   +--> id2loc / loc2id / alloc_loc <-------------------+
     |   +------> page cache <--- read_alloc                      |  reads past the cache
     +--push----> bg_tasks --> bg_io_thread --> index file <------+

 FreshDiskANN
   insert -> active memory index --switch_index/save--> file --IndexMerger--> disk index
   lazy_delete -> active deletion set --save_del_set--> file ----^                |
   search: disk (_disk_lock), memory 0, memory 1 (clear locks), both sets <-------+

 DGAI
   insert_to_topo_in_place -> page_layout_topo / id2loc_topo_ -> page cache + topology file
   trigger_deletion_in_place (exclusive merge lock) -------------^
```

---------------------------------------------------------------------------

## 2 Plan

In the order of importance; what exists is in bold.

1. **LocTable**: the table protocol with atomic steps. It is the abstract
   specification of an insert: what the tables promise to searches.
   **LocTableProofs** proves its invariants.
2. **DirectInsert**: every lock, buffer and hand-over of an insert, and the
   background thread. It implements LocTable (`ImplementsLocTable`).
3. **InsertData**: page contents, the cache and the disk, composed with DirectInsert.
   **InsertRecords** adds which of the steps that may lose a record have happened.
4. **MergeDeletes**: merge and reload, with a search and a background write.
5. **PipeSearch**: the ring of buffers, requests in flight, both modes, and inserts
   that wait for the locks of its reads.
6. **DynamicIndex**: deletion sets, searches, inserts and merges. It takes from
   MergeDeletes what a merge leaves in the file, and keeps the order of the switches.
7. **MergeInsert** and **IndexMerger**: FreshDiskANN's threads, and the merge they start.
8. **TopoInsert**: DGAI's topology tables under splits and deletions.

Proved: the safety properties of LocTable, DirectInsert (with its refinement of
LocTable), DynamicIndex, MergeInsert and IndexMerger; of InsertData the references, of
MergeDeletes the renumbering, of PipeSearch the reads in flight. What else is proved of
these three and of TopoInsert has hypotheses that the code does not ensure, and is
stated as lemmas (section 6).

Left for a model with more time: `RecordsKept` and `LinksKept` of InsertRecords proved
for any number of threads; DGAI's BlockCache with its pins and evictions; two DGAI
insertions at a time, with the pages of a split read and written one by one (section 7).

---------------------------------------------------------------------------

## 3 Modules

Names follow the source. `PROJECT.json` maps each definition to its lines.

### 3.1 LocTable

One insert is the sequence `Begin`, `Visit`*, `AllocLoc`, `SetTarget`, `LockIdx`,
`MoveIds`, `EraseAndSetLoc` of one member of `Inserters`.

| variable | code |
|---|---|
| `cur_id`, `cur_loc`, `id2loc`, `loc2id`, `empty_pages` | the members of the same name |
| `target`, `nbrs`, `hints`, `locs`, `orig_locs` | `target_id`, `new_nhood`, `page_ref`, `locs`, `orig_locs` of a call |
| `pc` | the place in `insert_in_place` |

`Invalid` is `kInvalidID`, `Allocated` is `kAllocatedID`. Pages are numbered from 0
(the code adds 1 for the metadata sector). A record larger than a page
(`nnodes_per_sector = 0`) makes each location a page, which is `NodesPerPage = 1`.

`alloc_loc` is written as a set: `Candidates` are the slots its three steps may
take, `AllocSlots` the first `n` of them in the order of the steps, `NPop` the pages
popped from the queue, `NewCurLoc` the aligned new tail. The function runs under
`alloc_lock`, so it is one step. Which record gets which of the `n` slots follows
distances in the code and is left open.

`Visible` are the ids a search may come across: an id can be reached once its
inserter has linked it, which is when the neighbours' new records take effect
(`MoveIds`); before, only its own inserter knows it. `Settled` leaves out the ids
that are being moved under their write locks.

Properties: `TablesAgree` joins `MappingConsistent` and `NoDuplicateIds`, the two halves
of `verify_id2loc()`, which the code may only call when the index is quiet, stated at
every moment; `SlotsAccounted` joins `AllocationsExclusive` and `NoLeakedSlot` (a
reserved slot has one owner and no user); `QueuedPagesEmpty` and `EmptyPagesQueued` are
the two directions of what the queue holds; `MovesAreLocked` is an action property.

### 3.2 DirectInsert

The same insert with `page_lock_table`, `vec_lock_table` and `idx_lock_table` taken
key by key in the order of the code (`LockPage`, `LockVec`, `LockIdx`), the search's
shared locks (`reading`), the two query buffers (`thread_data_queue`), and the
background thread (`bg_tasks`, `bg_task`). `SparseLockTable` has no owners, so an
exclusive lock is a member of a set, and `unlock` of an absent key does nothing,
as in the code. `unlock_vec(target, new_nhood)` is two steps (`UnlockVec`,
`UnlockTarget`), because `new_nhood` ends with the target by then and it is unlocked
twice.

The refinement mapping reads LocTable's `pc` off `at`; an insert that has committed
is idle for LocTable although it still unlocks and pushes its task. The lock steps
before the last key are stutters. `ReadPages` and `SetTarget` stand for two uses of
`id2loc()` in the code, before and after the pages have been read; that no neighbour
moves in between is what `SectorsStable` says.

### 3.3 InsertData

DirectInsert with records in pages: `disk`, the cache (`refs`, `cached`), what each
insert references (`page_ref`), reads first (`need_read`), and builds (`buf`). A read
that misses is two steps: `Request` looks up and reads the disk, `PutMisses` puts
the page in the cache when the read has returned. `NewRecords` builds the target's
record and the neighbours' copies in the pages to write; a page that is not read
first starts blank, whatever it held. A record is its id (for the vector) and its
list.

`RefsAccounted` counts: the references to a page are as many as the members of
`HeldRefs` (each insert has `Held` of them, numbered), and those of `QueuedRefs` (the
queued tasks that will write the page), and one if the task in work writes it.

The pipeline stops where the code calls `exit(-1)` ("Sector ... not found in
page_buf_map"): `DataSetTarget` is not enabled then.

**InsertRecords** is InsertData with a history variable. The code has three steps that
may each lose what another insert has written (section 5.2, items 1 to 3): a *stale put*
of a page that was read from disk before it was written in the cache, a *raw overwrite*
of a page that was empty when `alloc_loc()` chose it and is in use when it is written, and
the *lost lock* of the second unlock. InsertData takes these steps like any other, and
`faults` notes which have happened. `RecordsKept` and `LinksKept` say that nothing else
loses a record or a link: in every interleaving, a record or a link that is missing comes
after one of the three. Without that condition (`RecordsIntact`, `LinksMutual`,
`DiskConsistent`) all three statements are false in the run's own instance.

### 3.4 MergeDeletes

`merge_deletes()` in phases (`pc`): `wait`, `populate`, `merge`, `flush`, `entry`,
`reload`, `done`. In `populate` and `merge` a chunk or batch is read by one step
(`ReadBatch`) and its locations are then taken in any order (`Populate(l)`,
`Merge(l)`), which is what the parallel loops allow; the ids that `fetch_add` gives
depend on that order. `wbuf` is a ring of `2 * LocPerMerge` slots, `WriteBack` writes
the pages of one batch of ids from it. `Pruned` leaves open which neighbours a long
list keeps. `Commit` and `Reload` are the two halves of the switch under
`merge_lock`. A vector is named by its id before the merge, which is also its tag.

One search (`SearchBegin`, `SearchRead`, `SearchEnd`) keeps a set of candidates, each
with the vector its PQ code stood for when it was added. The background thread may
still have the last insert's page to write.

`NumberingSound` and `TablesRenewed` are about ids: they must agree whatever was read, and
are checked with a write in any state and sizes that do not divide. `MergedIndexSound` is
about records, which are lost or stale in those two cases (5.2, items 4 and 5), and is
checked without them.

### 3.5 PipeSearch

One query buffer, used by one search after the other. `Begin` is `pop_query_buf()` and
the first candidates, `SendFirst` the loop before the main loop, and `Poll`, `Send` and
`Calc` are the three parts of one round of it; `Drain` is the wait at the end of the
relaxed mode, `Return` is `push_query_buf()`.

| variable | code |
|---|---|
| `list`, `unsent`, `expanded` | `retset`, the entries with `flag`, `full_retset` |
| `id_buf_map`, `on_flight_ios`, `cur_buf_idx` | the same, `query_buf->sector_idx` |
| `reqs`, `buf` | the `finished` flags, whose record is in each slot of `sector_scratch` |
| `kernel` | reads submitted and not done |
| `rlocks`, `wlocks` | `idx_lock_table`, held by the search and by the insert |

Nodes are numbered by their distance, which makes `retset` a set and `calc_best_node()`
`Min`. When the estimate in `poll_all()` counts as converged is left open; a read that
the page cache serves is finished at once. `Complete(r)` is the device and may finish
reads in any order, while `TakeFinished` takes them off in the order of the queue.
An insert is what the search sees of DirectInsert: it locks its ids in ascending order
and unlocks them.

### 3.6 DynamicIndex

`final_merge()` in the steps at which other threads can tell the difference: `FinalMerge`
(the exclusive `_merge_lock`), `SaveDelSet`, `MergeDeletes` (the new file), `CommitTables`
(`merge_lock` taken, tags renewed), `Swap` (the prefixes), `Reload` (the new file opened,
`merge_lock` released). `file` are the two index files, of which a search reads the one
the reader has `opened` and knows the tags in `tags`. A search takes the *address* of
the active set (`set`), searches under the shared `merge_lock`, and filters by the
content that the set has then. `live`, and `must`, `dead` and `saves` of a search, are
history for the properties.

`SearchExact` has a condition that the code forces on it: a search that begins outside
of a merge and sees at most one deletion set saved. The second `save_del_set()` clears the
set whose address it holds; one that begins between `SaveDelSet` and `Reload` takes the
new set while the deleted tags are still in the index. The model has both.

### 3.7 MergeInsert

| variable | code |
|---|---|
| `active_index`, `active`, `mem` | `_active_index`, `_active_0/1`, `_mem_index_0/1` |
| `mem_points`, `check_switch_index` | `_mem_points`, `_check_switch_index` |
| `active_delete_set`, `deletion_set` | `_active_delete_set`, `_deletion_set_0/1` |
| `clearing_index` | `_clearing_index_0/1` |
| `disk`, `mem_file` | the loaded disk index, the file `save()` writes |
| `pc`, `ins`, `srch` | the places of the merge thread, of the inserts and the searches |

The merge thread is `SaveDelSet`, `CheckSwitch`, `Switch`, `Save`, `Merge`,
`SetClearing`, `ClearIndex`, `EndClear`. An insert reads the flag (`Insert`) before it
takes the lock (`InsertLock`), so that it may be on either side of the switch. The
search visits the disk, index 0 and index 1, each with its own check and lock. The clear
lock of index 0 is held until its flags are reset, that of index 1 only for the
assignment; `SearchLock` has that asymmetry. `MergeUndefined` is the merge with nothing to
insert, where the code reads `back()` of an empty vector; the model stops there.

`SearchExact` is about searches that no clearing overtakes: `search_sync` looks at the
disk first, so that one that began before a merge ended misses the points that have
moved behind it (`old`).

### 3.8 IndexMerger

One merge is `Merge` (its input), `Consolidate` for each node (`process_deletes()`),
`Header` (the entry point), `RenameAndReload`, `InsertMemVec` for each new vector,
`InsertsPQ`, `MergeNode` for each node (`process_merges()`), `Finish`. `disk` and `out` are
the two index files: number of points, entry point, and tag, vector, PQ code and
neighbourhood of each id. Passes go over ids in ascending order, as the code's blocks
do; the threads inside a block work on different nodes and read only `disk`, so that
their order makes no difference. `mem_delta` is the `GraphDelta` of the memory index,
`DiskDelta` that of the disk index after renaming. `exit` is the program's exit or crash:
a node that loses all its links, an entry point whose neighbours are deleted too, a
merge that inserts nothing.

The memory index is a sequence of tags, and a new vector is named by its position there,
as in the code. `FreeId(n)` is the n-th free id, counted in ascending order, and behind the
last one the ids go on after the end of the file; `Rename(k)` takes the one whose number
is that of the insertions before `k`. `Reached`, what the search can find, is the
least set with the entry point that is closed under links. `IndexMergerAssumption` says
of the first index what a build or an earlier merge leaves (each vector once, no
link to a hole, no unlinked node but holes), and of a batch that it has each tag once,
which the tag map of the memory index sees to; the invariant of section 6.7 shows that
every merge returns an index with the same properties.

It and MergeInsert are two views of one operation: MergeInsert's `Merge` is the
conjunct `Tags(disk) = live` of `VectorsKept`.

### 3.9 TopoInsert

An insertion is `Search`, `AllocPage` (the page in reserve), `UpdateNeighbours` (lock and
read the listed pages, add the target to the lists), `Place` or `Split`, `WritePages`.
`topo` is the content of the topology pages by slot; which id a slot belongs to is what
the tables say, so that a record and its id can part. `GroupSize` are the sizes the
code's grouping of a page can give; the groups themselves are left open. `SplitInto` puts
two groups into the tables (`Relocated`) and copies the records (`Copied`). A round of
deletions is `SaveDelSet`, `Populate`, `Prune`, `Erase`, under the exclusive merge lock.

### 3.10 MC modules

They name the members of the sets and their symmetry, the initial layouts and graphs of
`MCMergeDeletes` (in order of ids, reversed, with holes; a ring, a tree), the graphs of
`MCPipeSearch` and the indices and batches of `MCIndexMerger`.

---------------------------------------------------------------------------

## 4 Runs

| run | checks | shows | instance |
|---|---|---|---|
| `LocTable_pages2` | 6 properties | tables and allocator under two inserters | 3 inserts, 2 records per page, 12 locations; 110 k states |
| `DirectInsert` | 5, with `ImplementsLocTable`, `InsertReturns` and `PagesUnlocked` | locking implements the protocol; one writer per page; no deadlock | 2 inserts, 2 inserters, 3 buffers; 37 k |
| `InsertRecords` | `RefsAccounted`, `RecordsKept`, `LinksKept` | references balance, and no record or link is lost but by three named faults | 3 inserts, 2 inserters, pages of 4, up to 2 neighbours, 4 buffers; 1.4 M |
| `MergeDeletes` | `MergedIndexSound`, `CandidatesServed` | no record is lost or mixed up by a merge that reads the disk's last state and writes whole batches; beam searches see either index | 5 ids, 8 locations, 3 layouts, 2 graphs, any deleted set; 845 k |
| `MergeDeletes_live` | `NumberingSound`, `TablesRenewed`, `MergeEnds` | ids and tables are renumbered alike, and the merge ends | 5 ids, 6 locations, chunks of 2, batches of 3, a write that may be queued; 150 k |
| `PipeSearch` | 3, with `SearchReturns` | reads, buffers and locks of a pipelined search end with it | 6 nodes, list of 3, beam 2 to 3, ring of 4, two searches, one insert; 79 k |
| `DynamicIndex` | 3 | deletion sets and files switch without a loss | 3 tags, 3 merges, one inserter, one search; 208 k |
| `MergeInsert` | 3 | no vector is lost or comes back in FreshDiskANN | 3 tags, 2 inserters, one search, merges without bound; 1.2 M |
| `MergeInsert_live` | `RefusedWhenFull`, `SwitchHappens` | inserts and the switch do not block one another | 4 tags, 2 inserters; 569 k |
| `IndexMerger` | 4 | a merge keeps the live vectors and a sound graph | 2 first indices, 2 batches, 2 merges, up to 2 deletions; 1.7 M |
| `TopoInsert` | 3 | DGAI's tables stay consistent | 3 points, 2 insertions, pages of 2, up to 2 deletions; 1.9 M |
| `TopoInsert_records` | `RecordsOwn` | the disagreement of section 5.1 | up to the first counterexample |

Further configurations are kept to be run by hand. `DirectInsert_sectors`,
`InsertData_disk`, `InsertRecords_raw`, `MergeDeletes_window`, `_bg`, `_pq`, `_pipe` and
`PipeSearch_update` end with the counterexamples of section 5.2, each within a minute.
`InsertData_one` passes with `RefsAccounted`, `RecordsIntact`, `LinksMutual` and
`DiskConsistent` for three inserts by one inserter (288 k states). The type invariants of
the modules other than LocTable, and `QuietMeansUnlocked`, pass in the instances above;
they are not listed because the properties that are listed say more.

### 4.1 Bounds and why they are enough

Every bound is a constant that occurs in a guard: `MaxId` and `MaxLoc` bound the ids and
the file, `MaxVisits` the nodes a search expands, `MaxNbrs` the neighbours of an insert,
`MaxCalls` and `MaxInserts` the calls of PipeSearch, `MaxMerges` and `MaxDeletes` the
merges and what they delete, `MaxIds`, `MaxPages` and `MinPoints` the insertions, pages
and deletions of TopoInsert. MergeInsert has no bound: its tags are reused. Deadlock is
not checked: callers may stop, and at the bound they must.

* With two records per page `Threshold` is 1, so that a page can be full, half full
  and empty, and `alloc_loc` takes each of its three steps: the third insert finds
  pages the first two have emptied or left half full.
* Two inserters with at most one neighbour each give every pair of conflicts over one
  page and one id: a target and its neighbour may share a page or not, and either may
  be the other insert's neighbour. Three inserts are needed for the double unlock: one to
  link a target, one to hold it, one to pass.
* In `InsertRecords` three inserts by two threads link to up to two neighbours and visit
  two nodes each. With four records a page is refilled while an earlier write of it is
  built, queued or on its way, and left and emptied by the neighbours that move; reads
  miss and come back late. The stale put and the lost lock both happen at these bounds. The
  raw overwrite needs a page to be emptied and popped from the queue while another insert
  still has it as a hint, with more records than TLC can visit in all orders:
  `InsertRecords_raw` follows one schedule (section 5.2, item 3).
* In `MergeDeletes`, five ids in batches of four locations and chunks of two make two
  batches, a ring that is written twice and a short last write; two of `R = 2` links
  replaced by two sampled ones make a list that must be pruned. The ring wraps in step
  with the batches, which is so in the code when `nnodes_per_sector` is a power of two.
  `MergeDeletes_live` has pages and batches of three and chunks of two, so that a chunk
  straddles the end of a batch, and every state of the last background write.
* In PipeSearch, a list of 3 over 6 nodes drops candidates whose reads are in flight,
  the ring of 4 comes round while records wait, and the second search meets what the
  first has left in the buffer. The code allows a beam as wide as the ring
  (`MAX_N_SECTOR_READS`), and for that width `RecordsOwn` does not hold: a read that
  finished out of order keeps its slot until its node's turn. The default beams are far
  below it, and the run has a ring of one more than the beam. Inserts lock one id each.
* Three merges in DynamicIndex make each deletion set active, saved, cleared and active
  again, and each file both the old and the new one.
* `MergeTh = 1` in MergeInsert, so that a memory index is full at two points: with two
  inserters it is met empty, at the threshold, and full. An insert can pass the flag
  before one switch and take the lock after it, or after the next.
* In IndexMerger a batch of two needs a free id and a new one, a batch of one leaves a
  hole; the second merge works on what the first has left. `range = 2` makes a
  neighbourhood of two full, so that a third link must be pruned.
* In TopoInsert, pages of two fill up at once. The first insertion finds a hole or
  splits a page according to its neighbours, and the second works on the outcome, with
  a round of deletions before it, after it, or both.

Symmetry under permutations is used in runs with safety properties only. Actions and
properties quantify over the permuted sets and name none of their members.

Where a property holds only in a part of what the code allows, it or its instance says
so: `RecordsKept` and `LinksKept` up to the first fault; `MergedIndexSound` with batches of
whole chunks and an idle background thread, `CandidatesServed` with beam searches as well;
`RecordsOwn` of PipeSearch with a ring that is long enough for list and beam;
`SearchReturns` with writers of one id. Section 5.2 has what happens otherwise.

### 4.2 Fairness

`DirectInsert!Fairness` is weak fairness of each started insert and of the background
thread, whose loop has no exit but shutdown. Locks are spun on and the queue's waits
are timed (10 us) and re-check, so a step that stays enabled is taken by a scheduled
thread. No strong fairness is assumed: a lock that comes and goes is not promised to
anyone. In a bounded number of inserts there is always a last one, so
`InsertReturns` shows the absence of deadlock and of lost wake-ups, and no freedom from
starvation under unbounded traffic, which the code does not provide
(`SparseLockTable::wrlock` retries against readers).

`MergeDeletes!LiveSpec` adds weak fairness of the merge and of the background
thread. `Commit` needs all beam searches to be out of `merge_lock` at once; the
default rwlock prefers readers, so that `MergeEnds` is checked without searches and
says nothing about a stream of them.

`PipeSearch!Spec` has weak fairness of the search, of the insert that has begun, and of
each read the device has. `MergeInsert!Spec` has weak fairness of the merge thread,
which polls, and of the calls that have begun; new inserts may come for ever. Nothing
is assumed of `_index_lock`: `SwitchHappens` holds because the flag keeps new inserts
from it. The other specifications state no fairness.

### 4.3 Mutants

Every property of a passing run has a mutant: an operator with the comment
"Plausible defect", next to the definition it replaces, with which the run fails. They
are not used by any specification.

---------------------------------------------------------------------------

## 5 Where the code disagrees with itself

### 5.1 A page split leaves lists behind (`TopoInsert_records`)

In `insert_to_topo_in_place()` the split of a full page groups its ids (lines 525-588 of
`direct_to_topo_insert.cpp`), and the tables follow the groups (632-659). The records are
copied by their old places (line 601), and the target's record goes behind the second
group (603), where no id is. After the first split `id2loc_topo_` ("id -> loc",
`ssd_index.h:587`) leads to other nodes' lists, and the target's list is always lost.
`TopoInsert`, which checks what does not depend on who owns a list, passes.

### 5.2 Counterexamples to run by hand

Each configuration ends with a counterexample to one statement of the source.

1. `DirectInsert_sectors` (`SectorsStable`: "ensure that sector_no does not change",
   `direct_insert.cpp:81`) — **double unlock of the target's vector lock**
   (`direct_insert.cpp:187-192`). Between the two unlocks another insert may lock the
   target as its neighbour; the second unlock takes that lock away. A third insert then
   moves the neighbour while the second works with its old page. Unlocking before
   the `push_back`, or passing `kInvalidID` for the target, would avoid it.
2. `InsertData_disk` (`DiskConsistent`: `page_cache.h:12`) — **a stale page overwrites
   the cache** (`linux_aligned_file_reader.cpp:555-561`). A search misses a page and
   reads it from disk; meanwhile an insert puts a new version in the cache; the search's
   `put` replaces it. The next insert that refills the page copies the stale records to
   disk. In the code the window is as long as the disk read. The same sequence breaks
   `RecordsIntact`. `LinksMutual` fails by it as well as by the lost lock of item 1, the
   latter already with pages of two.
3. `InsertRecords_raw` (`NoRawOverwrite`: "re-read the candidate pages",
   `direct_insert.cpp:85`) — **a page is written without having been read**
   (`direct_insert.cpp:104-111`). Whether a page must be read is decided by `alloc_loc()`
   when it hands the page out (`page_need_to_read`). An insert that pops an empty page does
   not read it. A second insert that has visited the page before it became empty still has
   it as a hint, finds the holes the first has left in it, takes the page lock first and
   settles its record there. The first then writes its buffer, in which that record's
   place is raw memory, over the page. Two threads and three inserts do it when a page
   holds four records. Reading every page to write would avoid it, or keeping a popped
   page out of the hints.
4. `MergeDeletes_window` (`IdsWrittenBack`: "Write back ... IDs") — **write-back before
   the ids are complete** (`delete_merge.cpp:241`). When `nnodes_per_sector` is not a
   power of two a chunk of 1024 locations straddles two batches of
   `ROUND_UP(131072, nnodes_per_sector)`. The ids of the chunk are given by parallel
   threads in any order, so that the first batch need not have the lowest ids, and
   `write_back` counts them as if it had.
5. `MergeDeletes_bg` (`ReadsCurrent`: "simple way to wait for background IO thread") —
   **the wait ends too early** (`delete_merge.cpp:36`). The queue is empty as soon as
   the task has been popped; its pages may still be on their way, and the merge reads
   past the cache.
6. `MergeDeletes_pq` (`SearchServed`: "serve search during merge", `ssd_index.h:228`) —
   **the PQ table moves before the switch** (`delete_merge.cpp:252`, `pq_nbr.h:46`).
7. `MergeDeletes_pipe` (`CandidatesServed`: the same comment) — **pipelined searches are
   not kept out of the switch** (`pipe_search.cpp` makes no use of `merge_lock`).
8. `PipeSearch_update` (`InsertReturns`: the README recommends search mode 2 "for update
   workloads") — **a search and an insert wait for each other**
   (`pipe_search.cpp:196`). The search holds the shared locks of its reads in flight
   while it spins on the lock of its next candidate, and does not poll meanwhile, so
   that reads that finish keep their locks. The insert takes its locks in ascending
   order, which is not the order of the search's.

One divergence from a comment has no effect and no run: `delete_merge.cpp:277` says
that "out-of-bound loc2id is initialized in reload()", whose loop stops at the tail
that `init_metadata` has just lowered. The entries behind it keep old ids, and
nothing reads them before `alloc_loc` overwrites them: `TablesRenewed` is about the
entries below the tail. LocTable starts from a loaded index, where they are invalid; after a merge they are not,
which changes nothing for the same reason.

---------------------------------------------------------------------------

## 6 Proofs

Each theorem holds for every value of the constants that satisfies the named assumption
of the module (`LocTableAssumption`, `DirectInsertAssumption`, ...): any number of
inserters and searchers, any ids, tags and graphs, any page size, beam, list and ring.
No theorem has a hypothesis beside it. Where more is needed that the code does not
ensure (one inserting thread, whole batches, a long ring, one insertion at a time), what
is proved is a lemma that names it; those are listed below the theorems and say nothing of
the code when it is used otherwise.

| module | theorem | statement |
|---|---|---|
| LocTableProofs | `Invariance`, `TypeCorrect` | `Spec => []IInv`, `Spec => []TypeOK` |
| | `MappingAlwaysConsistent` | `Spec => []TablesAgree` |
| | `AllocationSafe` | `Spec => []SlotsAccounted` |
| | `QueuedPagesAlwaysEmpty` | `Spec => []QueuedPagesEmpty` |
| | `EmptyPagesAlwaysQueued` | `Spec => []EmptyPagesQueued` |
| | `MovesAlwaysLocked` | `Spec => MovesAreLocked` |
| DirectInsertProofs | `Refinement` | `Spec => ImplementsLocTable` |
| | `PagesAlwaysAccounted` | the two page invariants of LocTable, of the detailed insert |
| | `PageWritesAlwaysExclusive` | `Spec => []PageWritesExclusive` |
| | `ReadersAlwaysSafe` | `Spec => []ReaderSeesItsRecord` |
| | `QuietAlwaysUnlocked` | `Spec => []QuietMeansUnlocked` |
| | `Invariance`, `TypeCorrect` | `Spec => []IInv`, `Spec => []TypeOK` |
| (InsertData) | `RefsAlwaysAccounted` | `DataSpec => []RefsAccounted` |
| | `DataTypeCorrect` | `DataSpec => []DataTypeOK` |
| MergeDeletesProofs | `NumberingAlwaysSound` | `Spec => []NumberingSound` |
| | `TablesAlwaysRenewed` | `Spec => []TablesRenewed` |
| | `Invariance`, `TypeCorrect` | `Spec => []MergeInv`, `Spec => []TypeOK` |
| PipeSearchProofs | `IosAlwaysComplete` | `Spec => []AllIosComplete` |
| | `Invariance`, `TypeCorrect` | `Spec => []IInv`, `Spec => []TypeOK` |
| DynamicIndexProofs | `LiveStoredAlways`, `DeletedKeptAlways`, `SearchExactAlways` | `Spec => []LiveStored`, `[]DeletedKept`, `[]SearchExact` |
| | `Invariance`, `TypeCorrect` | `Spec => []IInv`, `Spec => []TypeOK` |
| MergeInsertProofs | `LiveStoredAlways`, `NothingComesBackAlways` | `Spec => []LiveStored`, `[]NothingComesBack` |
| | `RefusedWhenFullAlways`, `SearchExactAlways` | `Spec => []RefusedWhenFull`, `[]SearchExact` |
| | `Invariance`, `TypeCorrect` | `Spec => []IInv`, `Spec => []TypeOK` |
| IndexMergerProofs | `VectorsAlwaysKept`, `LiveNodesAlwaysLinked` | `Spec => []VectorsKept`, `[]LiveNodesLinked` |
| | `NeverDeletedReferences`, `InsertsAlwaysMutual` | `Spec => []NoDeletedReferences`, `[]InsertsMutual` |
| | `Invariance`, `TypeCorrect` | `Spec => []IInv`, `Spec => []TypeOK` |

| module | lemma | hypothesis | statement |
|---|---|---|---|
| DirectInsertProofs | `OneThreadRecords`, `OneThreadLinks`, `OneThreadDisk` | one inserting thread | `DataSpec => []RecordsIntact`, `[]LinksMutual`, `[]DiskConsistent` |
| MergeDeletesProofs | `MergedRecords` | `BackgroundIdle`, `WholeChunks` | `Spec => []MergedIndexSound` |
| | `BeamServed` | and `BeamOnly` | `Spec => []CandidatesServed` |
| PipeSearchProofs | `OwnInLargeRing` | `RingLarge` | `Spec => []RecordsOwn` |
| TopoInsertProofs | `OneInsertionLayout`, `OneInsertionPages`, `OneInsertionLinks`, `OneInsertionTypes` | one insertion at a time | `Spec => []LayoutConsistent`, `[]PagesAccounted`, `[]NoDeletedLinks`, `[]TypeOK` |

### 6.1 LocTable

The inductive invariant `IInv` adds to the safety invariants and `TypeOK` what
they silently rely on:

* `LocalsOK`: what a call's local variables hold at each place, in particular that
  a call that owns locations has one for each of its ids, and that its neighbours are
  ids a search may reach;
* `TargetsDistinct`: no two calls have one target;
* `LocksDisjoint`: the ids locked for a move have one holder;
* `NamesLinked`: a location names a target only once it is committed, so that erasing
  an old location cannot erase an id that has just been inserted;
* `TailFree`: the file ends with a whole page, and nothing behind `cur_loc` is in use or
  queued, so that step 3 of `alloc_loc` is safe;
* `Moving`: between `MoveIds` and `EraseAndSetLoc` an id is at its new location and the
  old one still names it.

`AllocLoc` is the hard step: `CandidatesFree` and `AllocSlotsFree` show that every slot
`alloc_loc` returns is free and in no page that stays queued, and `NewCurLocBounds`
that the new slots at the tail are consecutive, so that the increased `cur_loc` passes
all of them. `EraseAndSetLoc` is the other one (`CommittedFacts`): it needs that old
locations are pairwise distinct and disjoint from the new ones, which follows from
`Moving`, `AllocationsExclusive` and `LocksDisjoint`.

`EmptyPagesQueued` is inductive beside `IInv`. A page becomes empty only in
`EraseAndSetLoc`, which queues it. `alloc_loc` takes pages off the queue and starts new
ones, and must reserve a slot on each of them. Both are counting arguments: step 1 pops no
more pages than it needs (`PoppedBound`), so that the first slot of each is given out
(`PoppedPagesUsed`), and step 3 pads only behind the last slot it gives out
(`AlignUpFirst`, `NewCurLocBounds`).

`UnreadPagesFree` is about what `alloc_loc` returns beside the slots, `page_need_to_read`:
a page that is not in it has no record in any of its slots, so that the insert may write
it without reading it first.

### 6.2 DirectInsert implements LocTable

`ImplementsLocTable` is `LT!Spec` under the mapping of section 3.2, which lets an
inserter's state vanish once it has committed and its locks are being released.
`Refinement` maps each action to one of LocTable's or to a stutter. It needs an invariant
of its own, because a `SparseLockTable` knows no owners: `Owners` says that each index
lock an inserter has come by is in the table and no other inserter's, so that the last
`LockIdx` maps to LocTable's atomic one.

From there what is proved of LocTable holds of DirectInsert: `P` is the instance of
`LocTableProofs` under the same mapping, and `P!IInv` joins the inductive invariant of
`DirectInsertProofs`. The other parts are

* `TodoOK`, `TodoType`, `TasksOK`: what each inserter has still to lock, and that
  a task has pages;
* `PageWritesExclusive`, inductive with those: a page lock that is
  handed to the background thread with its task changes its holder, never its key;
* `ReadersOK`: a search reads an id that it may see and whose write lock nobody has;
  with `P!TablesAgree` that is `ReaderSeesItsRecord`;
* `LocksOwned`: no lock without a holder. The converse does not hold of `vec_locks`,
  since `unlock_vec` unlocks the target twice, and is not needed;
* `BuffersOK`: the buffers in the queue, with inserts, with their searches and with
  tasks add up to `NBufs`.

### 6.3 InsertData

**References.** `RefsAccounted` holds with any number of inserters. A reference is a pair of
an inserter and a number, or a position in the queue of tasks, and the counts are
cardinalities, so that a step that changes what one inserter has moves the total by the
same amount (`TokensMoved`, `HeldMoved`), and a push or a pop shifts the queue
(`QueuedTail` and its companion). `MissesOK` keeps the subtraction in `Held` above zero: an
insert waits for no more references than its `page_ref` counts. The invariant `RefsInv`
rests on what DirectInsert's `IInv` says of places and locations, which holds here
because every step with data is a step of DirectInsert or none (`DataSteps`). `BufsInv`
adds the types of buffers and tasks, for `DataTypeCorrect`. InsertRecords has the same
behaviours (`HistoryOnly`), so that references balance there too, whatever is lost.

**Records.** The lemmas about records have the hypothesis `OneThread`: one thread that
inserts and searches, and the background thread beside it. They show that the faults of
InsertRecords need concurrent inserts. `RecordInv` says

* of the cache: what is still to be written is what the cache has (`WritesCached`), in other
  pages cache and disk agree (`CacheClean`), and what a read has found on disk is still
  current and the page still missing when it is put (`MissesFresh`);
* of an insert in work: its id is the last (`LastId`), the pages it writes without reading
  them are nobody's (`RawEmpty`, from `UnreadPagesFree`), its buffers have what the cache or
  the disk has (`BufRead`), and before `MoveIds` the new locations have the new records
  (`NewLocsWritten`);
* of the index: `RecordsFound` and `LinksFound`, which are `RecordsIntact` and `LinksMutual`
  also for ids that are being moved.

The hard steps are `SetTarget`, which overwrites whole pages in the cache and must leave the
other records in them alone (`SetTargetKeeps`, `SetTargetWrites`), `MoveIds`, which
redirects every neighbour at once (`MoveIdsRecords`), and `BgFinish` and `PushTask`, where a
page may leave the cache and must be the same on disk (`BgFinishCache`, `PushTaskCache`).

With two threads `MissesFresh` and `RawEmpty` are false, as items 2 and 3 of section 5.2
show, and with them the three properties. `RecordsKept` and `LinksKept`, which allow for
that, are left to TLC.

### 6.4 PipeSearch

`IInv` says of the ring that the reads in flight have the slots handed out last, in the
order of the queue (`ReadsOK`, through `Back`, the number of slots handed out since), so
that no two have one slot; that a finished read has its record in its slot
(`FilledOK`); and of the candidates that `list` is the best of all nodes *seen*, though
each expansion looks only at the list and the new neighbours (`PoolOK`, `BestAgain`).

That the default mode leaves no read behind rests on `LastListed`: the read sent last is
of a node in the list, unless a nearer node that is still to be sent has pushed it out.
When a node falls out of the list, another came in (`BestStays`), and it is unsent. So
when all nodes of the list are expanded, nothing is unsent, the read sent last is of an
expanded node, and a node in flight has not been read: the queue is empty.

`RecordsKept` bounds how far the ring has come since a node in the list was read: one
beam, and one slot for each nearer node that was expanded since. A node in the list has
fewer than `l_search` nearer nodes, hence `RingLarge == LSearch + BeamWidth <= MaxReads`.
The code does not check it, it compares only `beam_width` with `MAX_N_SECTOR_READS`, 128; with
a longer list `RecordsOwn` may fail, and the lemma `OwnInLargeRing` says nothing. That smaller rings may do is TLC's: the
run has a ring of 4 for a list of 3 and a beam of 3.

### 6.5 MergeDeletes

`MergeInv` holds without a hypothesis: the tables are those of the old index until the
switch and of the new one after it (`TablesOK`, `SwitchOK`, `TailOK`), the two maps have
exactly the ids that step 1 is through with, live and deleted (`MapsOK`), and the new ids
are numbered from 0 without a gap (`Numbers`) in any order within a chunk, but chunk after
chunk (`Ordered`). `CountOK` says that write-backs start at whole batches, so that the
ring is never indexed outside (`WrittenBack`); `TypeCorrect` and `TablesAlwaysRenewed`
follow. `NumberingAlwaysSound` needs `ListsOK` beside it: every list that has been
put in the ring or written to the new file is a list of new ids of live nodes, no longer
than `R`. A list read from a stale page is a list of old ids as well, so that the argument
needs nothing about what was read: `Repaired` leaves no deleted id in it (`RepairedLive`),
and `Renumbered` maps what is left into the new ids (`MappedList`).

The lemmas about records are layers on it, and each layer has one more hypothesis.

* `BackgroundIdle`: the background thread has nothing to write when the merge starts. Then
  the file has the records of the old index until it is replaced (`FileOK`).
  `merge_deletes()` waits only until the thread's queue is empty.
* `WholeChunks`: `LocPerMerge` is a multiple of `LocPerPopulate`. Then the ids before the
  end of a batch of locations are the lowest (`IdsBefore`), and those of the next batch
  are at most `LocPerMerge` further on (`BatchIds`). `WindowOK` is the heart of the argument:
  the ids of the earlier batches end in the first batch of ids that the ring still has.
  So the records of the current one find slots that hold nothing unwritten
  (`SlotsDistinct`), and what is due after it is complete. `KeptOK` carries vector,
  neighbours and length of each record through the ring to the new file (`MergedRecords`).
* `BeamOnly`: no pipelined search. A beam search holds `merge_lock`, so the switch
  happens between searches and none begins in it (`SearchOK`, `BeamServed`).

The code ensures none of the three, and without any one of them the properties are false:
`MergeDeletes_bg`, `_window` and `_pipe` (section 5.2). The run `MergeDeletes` satisfies
all three.

### 6.6 DynamicIndex and MergeInsert

Both are about deletion sets that are switched while a merge makes a new file. The invariants
say what each set accounts for at each place of the merge. In DynamicIndex, the tags in memory
are those of the open file or of the next one (`FilesInv`); no live tag is in the active
set, and from `save_del_set()` to the commit of the merge both sets together account for the
deleted tags, before and after the active one alone (`DeletesInv`). A search has the
*address* of a set; `SearchInv` says that with at most one switch since it began, the set
at that address covers what it must leave out and nothing it must find. A second
switch breaks that, which is why `SearchExact` excludes it.

In MergeInsert the same is said of the two memory indices and the disk index. Its other
half is the flag `active` (`IndexInv`: the active index takes points, the other one only
when it is saved and being merged) and the counter, which lags behind the index by the
inserts that have not returned; `SearchInv` follows a search through disk, memory 0 and
memory 1 with what is still ahead of it.

### 6.7 IndexMerger

`IInv` has one part for each pass, which says what the pass has done to the nodes it is
through with and that the others are as before: `InDeletes`, `InRename`, `InInserts`,
`InMerges`. `DiskSound` is what the file is between merges, and `Merging` fixes what a merge
is about: the tags of the batch are new, and `live` is what must remain.

The passes share an idea of which ids stay: `kept_ids`, those that are not in `free_ids`.
After the first pass a node's links lead to kept ids only, and it has links exactly when it
is kept itself (`Consolidated`). That the code takes a node without links for a hole is
why `OnlyHolesUnlinked` has to be part of the invariant and not only a property: if a
live node had no links its id would be given away.

The renaming is a matter of ranks. A position of the batch has as its rank the number of
insertions before it, and no two have the same (`RankFacts`); free ids are counted the
same way (`FreeIdFacts`); so new ids are distinct, none is kept, and they leave no gap at the
end of the file (`RenameFacts`). These rest on counting lemmas (`RankGrows`, `RankExists`), and not
on sorted lists.

What a search reaches is kept, because the kept ids are closed under links and have the
entry point (`ReachedKept`), and it is not empty, so that each new vector gets a link.
`NhoodFacts` and `PrunedFacts` follow a neighbourhood through the deltas and the pruning.
`Finish` puts the parts together: the tags of the new file are those of kept ids and of new
vectors (`NewTagsFacts`), which is `live` (`NewTagsLive`), and the file is sound again
(`NewIndexSound`).

### 6.8 TopoInsert

All of this has the hypothesis `OneInsertion`, and is therefore stated as lemmas: insertions
follow one another, while deletions are marked at any time and the deletion pass runs between them. The code lists the
pages to lock by where the neighbours are then (`direct_to_topo_insert.cpp:219`), locks them
later, and reads the neighbours' pages where they are by now. A split by another insertion in
between leaves a page that is written without its lock, and a split changes its tables entry
by entry where the model has one step (`SplitInto`). So the module says nothing of concurrent
insertions, which the code allows, and neither do the lemmas.

`IInv` consists of

* `TablesAgree`: the id at a place has that place. This one direction is enough: that no id
  is at two places, and that the other table leads back, follows (`PlaceFacts`), because a
  place has one page and one slot (`LocFacts`, from the uniqueness of quotient and remainder);
* `TagsPlaced`, and `CallsOK`: the ids below `cur_id` are given out, and the target of an
  insertion is placed exactly when its pages are to be written;
* `PagesKept`: a page behind the tail is empty, and an empty page before it is in the queue,
  once, or in reserve, never both. `PagesAccounted` counts the same;
* `ListsKept`: the lists at the places of placed nodes name placed nodes, and so do those in
  a call's buffers, apart from the target itself. It is about places and not about the lists'
  owners, since a split parts the two (section 5.1);
* `DeletionOK`: what the pass has collected of the deleted points stays, and after `Prune`
  no place that has an id has a list with a deleted point in it;
* `DeletedPlaced`: points marked for deletion are placed until they are erased.

What a search finds is placed (`Reached` is the least set that is closed under the
records, so that it lies in `Placed`, which has the entry point and is closed by `ListsKept`).
`Split` is the hard step: the two groups are a page's ids and the target, each once,
so the new tables agree (`Relocated`) and nothing but the target is added to `Placed`; and
each record copied is one of the old page, the target's, or empty. `Erase` empties the places
of the deleted points, which by `DeletionOK` no list names, and queues the pages that have
become empty, each once and none that was queued before.

### 6.9 What is only model-checked

* Liveness (`InsertReturns`, `PagesUnlocked`, `MergeEnds`, `SearchReturns`, `SwitchHappens`):
  the prover has no rules for fairness and `ENABLED`.
* `RecordsKept` and `LinksKept` of InsertRecords, for any number of threads.
* `MergedIndexSound`, `CandidatesServed`, PipeSearch's `RecordsOwn`, and the properties of
  TopoInsert: proved only under the hypotheses of the lemmas.
* TopoInsert's invariants with two insertions or more at a time: neither checked nor proved
  (6.8 and section 7). `RecordsOwn` is violated by the code (section 5.1).

---------------------------------------------------------------------------

## 7 What is not modelled

* **Torn pages.** A page is read and written as a whole; the code reads a page while
  the background thread may write it, and relies on the device for 4 KB atomicity.
* **Pages of several sectors.** In InsertData a page is one sector. When a page has
  several and only the first are cached, `read_from_cache()` keeps references on those,
  and `read_alloc()` takes them once more when it has read the page
  (`linux_aligned_file_reader.cpp:496-506`).
* **Build variants** `IN_PLACE_RECORD_UPDATE`, `NO_MAPPING`, `NO_POLLUTE_ORIGINAL`,
  `READ_ONLY_TESTS`: off by default.
* **The Python index.** Its calls do not interleave (section 1.2), and what they do one
  by one is DynamicIndex and MergeDeletes. That `save()` keeps the set of deleted tags is
  listed as a hazard.
* **The journal** of the dynamic index, which nothing reads.
* **Page search** and its lock table (`lock_page_idx`), used only in that mode.
* **Pruning.** Any subset of the expanded nodes may be chosen as neighbours, and lists
  in InsertData stay below `params.R`. A list that is cut may drop a link to the
  target, so `LinksMutual` is about lists that are not.
* **An empty `page_ref`** (an index without a reachable node), where
  `insert_in_place` unlocks the pages without writing them.
* **Crashes.** Nothing is recovered: the journal is never replayed.
* **Searches of DynamicIndex in other modes.** Page and pipelined search take no
  `merge_lock`; what that does is `MergeDeletes_pipe`.
* **Growth of the tables** under their resize mutexes.
* **Distances.** Pruning, convergence and the choice of the nearest are open choices.
* **FreshDiskANN**: several memory indices in one merge, for which
  `process_inserts()` uses the vectors loaded last (`index_merger.cpp:184`, `:232`); the offset
  ids under which edges to new vectors are collected (`graph_delta.cpp:40`), which the model
  passes over; a tag that is inserted again while its deletion is pending, here and in
  PipeANN's dynamic index, where `insert()` does not check it and the merge drops it
  (`dynamic_index.cpp:167`); the
  replacement of the inactive index in `switch_index()` without its clear lock
  (`merge_insert.cpp:381`, `:393`), which a search may be reading through the pointer
  at that time; what the program does after an exit or an undefined read.
* **DGAI**: the coordinate file, the rerank search, and the BlockCache with its pins,
  whose races with searches need a model of blocks and their states of their own. Two
  insertions at a time are in the module's actions, but the moves of a page under another
  insertion's feet (`direct_to_topo_insert.cpp:219`) need three, with more
  points than TLC can visit; the run has one insertion at a time.
* **Vendored code**, and the numeric parts: k-means, PQ training, SIMD, partitions.
* **Shutdown** (`destroy_buffers`).
* **Failures of I/O** end the process in the code.
* The components with status `not_modelled` in `PROJECT.json`, with the reason there.
