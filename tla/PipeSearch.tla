----------------------------- MODULE PipeSearch -----------------------------
(***************************************************************************)
(* SSDIndex::pipe_search(): a best-first search that keeps several reads   *)
(* in flight.  Each read has a slot of the query buffer's ring, reqs and   *)
(* sector_scratch, and the shared lock of its id until it is taken off the *)
(* front of on_flight_ios.  A record stays in its slot until its node is   *)
(* expanded.  Searches reuse the buffer one after the other.               *)
(*                                                                         *)
(* Nodes are numbered by their distance to the query, so that the list of  *)
(* candidates is a set.  Each node has a page of its own.  An insert is    *)
(* reduced to the ids it locks.                                            *)
(***************************************************************************)
EXTENDS Integers, Sequences, FiniteSets, FiniteSetsExt, Functions

CONSTANTS
  NNodes,
  Graphs,           \* the graphs to search: sets of neighbours
  Starts,           \* what the search starts from: the entry point, or mem_L nodes
  LSearch,          \* l_search
  BeamWidth,        \* beam_width
  InitialBeam,      \* the beam before the search converges, 4 in the code
  MaxReads,         \* MAX_N_SECTOR_READS
  RelaxedLs,        \* the values of relaxed_monotonicity_l; 0 is the default mode
  LockSets,         \* the ids an insert locks
  MaxCalls, MaxInserts  \* bounds on the searches and inserts

Nodes == 0 .. NNodes - 1
Slots == 0 .. MaxReads - 1

ASSUME PipeSearchAssumption ==
  /\ NNodes \in Nat \ {0} /\ LSearch \in Nat \ {0}
  /\ Graphs \subseteq [Nodes -> SUBSET Nodes]
  /\ Starts \subseteq Nodes /\ Cardinality(Starts) \in 1 .. LSearch
  /\ InitialBeam \in Nat \ {0} /\ BeamWidth \in Nat \ {0}
  /\ MaxReads \in Nat /\ BeamWidth <= MaxReads   \* else pipe_search() calls crash()
  /\ RelaxedLs \subseteq Nat /\ LockSets \subseteq SUBSET Nodes
  /\ MaxCalls \in Nat /\ MaxInserts \in Nat

VARIABLES
  graph,
  at,               \* the place of the search
  seen,             \* visited: the nodes that have been in the list
  list, unsent,     \* retset, and its nodes whose flag is set
  expanded,         \* the nodes with exact distances, full_retset
  id_buf_map,       \* the nodes read, with the slots of their records
  on_flight_ios,    \* the queue of reads: ids and slots
  cur_buf_idx,      \* query_buf->sector_idx
  cur_beam_width, converge_size,
  relaxed_monotonicity_l,
  reqs,             \* the finished flag of each request
  buf,              \* whose record is in each slot of sector_scratch
  kernel,           \* the reads the device has not done
  rlocks, wlocks,   \* idx_lock_table: held by the search, by the insert
  insert_ids,       \* the ids that the insert locks; {} if there is none
  calls, inserts    \* counters for the bounds

poolVars   == <<seen, list, unsent, expanded, id_buf_map, converge_size>>
fixedVars  == <<graph, relaxed_monotonicity_l>>
ringVars   == <<on_flight_ios, cur_buf_idx, reqs, buf, kernel, rlocks>>
insertVars == <<wlocks, insert_ids, inserts>>
vars == <<fixedVars, at, poolVars, ringVars, cur_beam_width, insertVars, calls>>

None == -1
NoSlots == [i \in {} |-> None]
Best(n, S) == {i \in S : Cardinality({j \in S : j < i}) < n}

Init ==
  /\ graph \in Graphs
  /\ at = "idle"
  /\ seen = {} /\ list = {} /\ unsent = {} /\ expanded = {} /\ id_buf_map = NoSlots
  /\ on_flight_ios = <<>> /\ cur_buf_idx = 0
  /\ cur_beam_width = 0 /\ converge_size = None /\ relaxed_monotonicity_l = 0
  /\ reqs = [s \in Slots |-> FALSE] /\ buf = [s \in Slots |-> None]
  /\ kernel = {} /\ rlocks = {}
  /\ wlocks = {} /\ insert_ids = {}
  /\ calls = 0 /\ inserts = 0

-----------------------------------------------------------------------------
(* pop_query_buf(), reset(), and the first candidates.                     *)
Begin ==
  /\ at = "idle"
  /\ calls < MaxCalls
  /\ calls' = calls + 1
  /\ seen' = Starts /\ list' = Starts /\ unsent' = Starts
  /\ expanded' = {} /\ id_buf_map' = NoSlots
  /\ on_flight_ios' = <<>> /\ cur_buf_idx' = 0
  /\ cur_beam_width' = Min({InitialBeam, BeamWidth}) /\ converge_size' = None
  /\ relaxed_monotonicity_l' \in RelaxedLs
  /\ at' = "start"
  /\ UNCHANGED <<graph, reqs, buf, kernel, rlocks, insertVars>>

(* (Plausible defect: the ring wraps one slot early.)                      *)
NextSlotEarly(s) == IF s + 2 >= MaxReads THEN 0 ELSE s + 1

NextSlot(s) == (s + 1) % MaxReads

(* (Plausible defect: a read that the cache serves is not finished.)       *)
SendReadCacheWaits(i) ==
  LET s == cur_buf_idx IN
  /\ i \notin wlocks
  /\ rlocks' = rlocks \cup {i}
  /\ unsent' = unsent \ {i}
  /\ on_flight_ios' = Append(on_flight_ios, [id |-> i, slot |-> s])
  /\ reqs' = [reqs EXCEPT ![s] = FALSE]
  /\ \/ buf' = [buf EXCEPT ![s] = i] /\ UNCHANGED kernel
     \/ kernel' = kernel \cup {[id |-> i, slot |-> s]} /\ UNCHANGED buf
  /\ cur_buf_idx' = NextSlot(s)

(* send_read_req(): the search spins on the lock of the id.  The page is   *)
(* in the cache, which finishes the request at once, or goes to the ring   *)
(* of the device.                                                          *)
SendRead(i) ==
  LET s == cur_buf_idx IN
  /\ i \notin wlocks
  /\ rlocks' = rlocks \cup {i}
  /\ unsent' = unsent \ {i}
  /\ on_flight_ios' = Append(on_flight_ios, [id |-> i, slot |-> s])
  /\ \/ /\ reqs' = [reqs EXCEPT ![s] = TRUE] /\ buf' = [buf EXCEPT ![s] = i]
        /\ UNCHANGED kernel
     \/ /\ reqs' = [reqs EXCEPT ![s] = FALSE] /\ kernel' = kernel \cup {[id |-> i, slot |-> s]}
        /\ UNCHANGED buf
  /\ cur_buf_idx' = NextSlot(s)

(* send_best_read_req(n) sends the n best candidates that are not sent.    *)

(* ... before the loop, as many as the beam is wide, in the order of the   *)
(* memory index's distances (the list is sorted by its own ones later),    *)
SendFirst ==
  /\ at = "start"
  /\ \/ /\ Len(on_flight_ios) < cur_beam_width
        /\ \E i \in unsent : SendRead(i)
        /\ UNCHANGED at
     \/ /\ unsent = {} \/ Len(on_flight_ios) >= cur_beam_width
        /\ at' = "poll"
        /\ UNCHANGED <<unsent, ringVars>>
  /\ UNCHANGED <<fixedVars, seen, list, expanded, id_buf_map, converge_size, cur_beam_width,
                 insertVars, calls>>

(* ... and in the loop, one if the beam is not full.                       *)
Send ==
  /\ at = "send"
  /\ \/ /\ unsent # {} /\ Len(on_flight_ios) < cur_beam_width
        /\ SendRead(Min(unsent))
     \/ /\ unsent = {} \/ Len(on_flight_ios) >= cur_beam_width
        /\ UNCHANGED <<unsent, ringVars>>
  /\ at' = "calc"
  /\ UNCHANGED <<fixedVars, seen, list, expanded, id_buf_map, converge_size, cur_beam_width,
                 insertVars, calls>>

(* The device has read a page; poll_all(ctx) will find it.                 *)
Complete(r) ==
  /\ r \in kernel
  /\ kernel' = kernel \ {r}
  /\ reqs' = [reqs EXCEPT ![r.slot] = TRUE]
  /\ buf' = [buf EXCEPT ![r.slot] = r.id]
  /\ UNCHANGED <<fixedVars, at, poolVars, on_flight_ios, cur_buf_idx, rlocks, cur_beam_width,
                 insertVars, calls>>

(* The finished requests at the front of the queue.                        *)
NFinished ==
  Max({n \in 0 .. Len(on_flight_ios) : \A k \in 1 .. n : reqs[on_flight_ios[k].slot]})

(* id_buf_map.insert(): a node that is there keeps its slot.               *)
WithSlots(taken) ==
  [i \in DOMAIN id_buf_map \cup {r.id : r \in taken} |->
     IF i \in DOMAIN id_buf_map THEN id_buf_map[i] ELSE (CHOOSE r \in taken : r.id = i).slot]

(* They are taken off, noted in id_buf_map and unlocked.                   *)
TakeFinished ==
  LET n == NFinished
      taken == {on_flight_ios[k] : k \in 1 .. n} IN
  /\ on_flight_ios' = SubSeq(on_flight_ios, n + 1, Len(on_flight_ios))
  /\ rlocks' = rlocks \ {r.id : r \in taken}
  /\ id_buf_map' = WithSlots(taken)

(* poll_all(), and the tuning of the beam.  When the search counts as      *)
(* converged is left open, but only a poll that takes a read may find it.  *)
Poll ==
  /\ at = "poll"
  /\ TakeFinished
  /\ \E converged \in (IF NFinished > 0 THEN BOOLEAN ELSE {FALSE}) :
       /\ cur_beam_width' \in {cur_beam_width} \cup
            IF converged THEN {Min({BeamWidth, Max({cur_beam_width + 1, InitialBeam})})}
            ELSE {}
       /\ converge_size' = IF converged /\ relaxed_monotonicity_l > 0 /\ converge_size = None
                           THEN Cardinality(expanded) ELSE converge_size
  /\ at' = IF /\ relaxed_monotonicity_l > 0 /\ converge_size' # None
              /\ Cardinality(expanded) >= converge_size' + relaxed_monotonicity_l
           THEN "drain" ELSE "send"
  /\ UNCHANGED <<fixedVars, seen, list, unsent, expanded, cur_buf_idx, reqs, buf, kernel,
                 insertVars, calls>>

(* calc_best_node(): the best candidate that has been read is expanded.    *)
(* The loop ends when all candidates are.                                  *)
Read == {i \in list \ expanded : i \in DOMAIN id_buf_map}
Calc ==
  /\ at = "calc"
  /\ IF Read = {} THEN UNCHANGED <<seen, list, unsent, expanded>>
     ELSE LET i == Min(Read)
              nbrs == graph[buf[id_buf_map[i]]] \ seen IN
          /\ seen' = seen \cup nbrs
          /\ list' = Best(LSearch, list \cup nbrs)
          /\ unsent' = (unsent \cup nbrs) \cap list'
          /\ expanded' = expanded \cup {i}
  /\ at' = IF ~(list' \subseteq expanded') THEN "poll"
           ELSE IF relaxed_monotonicity_l > 0 THEN "drain" ELSE "return"
  /\ UNCHANGED <<fixedVars, id_buf_map, converge_size, ringVars, cur_beam_width, insertVars,
                 calls>>

(* (Plausible defect: the search returns without draining its reads.)      *)
DrainNothing ==
  /\ at = "drain"
  /\ at' = "return"
  /\ UNCHANGED <<fixedVars, seen, list, unsent, expanded, id_buf_map, converge_size, ringVars,
                 cur_beam_width, insertVars, calls>>

(* With relaxed monotonicity the reads in flight are waited for, and the   *)
(* candidates that were read are added to the results.                     *)
Drain ==
  /\ at = "drain"
  /\ TakeFinished
  /\ IF on_flight_ios' = <<>>
     THEN /\ expanded' = expanded \cup {i \in list : i \in DOMAIN id_buf_map'}
          /\ at' = "return"
     ELSE UNCHANGED <<expanded, at>>
  /\ UNCHANGED <<fixedVars, seen, list, unsent, converge_size, cur_buf_idx, reqs, buf, kernel,
                 cur_beam_width, insertVars, calls>>

(* push_query_buf(): the buffer is for the next search.                    *)
Return ==
  /\ at = "return"
  /\ at' = "idle"
  /\ UNCHANGED <<fixedVars, poolVars, ringVars, cur_beam_width, insertVars, calls>>

-----------------------------------------------------------------------------
(* An insert locks its ids exclusively, in ascending order, writes, and    *)
(* unlocks them (DirectInsert).                                            *)

InsertBegin ==
  /\ insert_ids = {} /\ inserts < MaxInserts
  /\ insert_ids' \in LockSets
  /\ inserts' = inserts + 1
  /\ UNCHANGED <<fixedVars, at, poolVars, ringVars, cur_beam_width, wlocks, calls>>

InsertLock ==
  /\ insert_ids # wlocks
  /\ Min(insert_ids \ wlocks) \notin rlocks
  /\ wlocks' = wlocks \cup {Min(insert_ids \ wlocks)}
  /\ UNCHANGED <<fixedVars, at, poolVars, ringVars, cur_beam_width, insert_ids, inserts, calls>>

InsertUnlock ==
  /\ insert_ids # {} /\ insert_ids = wlocks
  /\ insert_ids' = {} /\ wlocks' = {}
  /\ UNCHANGED <<fixedVars, at, poolVars, ringVars, cur_beam_width, inserts, calls>>

-----------------------------------------------------------------------------
SearchStep == SendFirst \/ Send \/ Poll \/ Calc \/ Drain \/ Return
KernelStep == \E r \in kernel : Complete(r)
InsertStep == InsertLock \/ InsertUnlock

Next == Begin \/ SearchStep \/ KernelStep \/ InsertBegin \/ InsertStep

(* Threads that are in a call run, and the device does its reads.          *)
Spec ==
  /\ Init /\ [][Next]_vars
  /\ WF_vars(SearchStep) /\ WF_vars(InsertStep)
  /\ \A r \in [id : Nodes, slot : Slots] : WF_vars(Complete(r))

-----------------------------------------------------------------------------
(* Properties.                                                             *)

(* The type of the variables.                                              *)
TypeOK ==
  /\ at \in {"idle", "start", "poll", "send", "calc", "drain", "return"}
  /\ expanded \subseteq seen /\ seen \subseteq Nodes
  /\ unsent \subseteq list /\ list \subseteq seen /\ Cardinality(list) <= LSearch
  /\ \A i \in DOMAIN id_buf_map : i \in seen /\ id_buf_map[i] \in Slots
  /\ \A k \in DOMAIN on_flight_ios : on_flight_ios[k] \in [id : Nodes, slot : Slots]
  /\ cur_buf_idx \in Slots /\ cur_beam_width \in 0 .. BeamWidth
  /\ Len(on_flight_ios) <= BeamWidth
  /\ converge_size \in {None} \cup 0 .. NNodes /\ relaxed_monotonicity_l \in Nat
  /\ reqs \in [Slots -> BOOLEAN] /\ buf \in [Slots -> Nodes \cup {None}]
  /\ kernel \subseteq [id : Nodes, slot : Slots]
  /\ rlocks \subseteq Nodes /\ wlocks \subseteq insert_ids /\ insert_ids \subseteq Nodes

(* "End timing after all IOs complete": when a search returns, the device  *)
(* has no read left that would go to its buffer or finish a request of the *)
(* next search, and no id stays locked.  Candidates that fell out of the   *)
(* list may have been in flight; the default mode does not wait for them,  *)
(* but a better candidate that was sent later has been.                    *)
AllIosComplete ==
  at \in {"idle", "return"} => kernel = {} /\ on_flight_ios = <<>> /\ rlocks = {}

(* A node is expanded from its own record: the ring does not come round to *)
(* a slot whose record is still to be used.  A ring of LSearch + BeamWidth *)
(* slots is always enough; the code compares only the beam width with      *)
(* MAX_N_SECTOR_READS, and a ring that just holds the beam is too small.   *)
RecordsOwn == \A i \in Read : buf[id_buf_map[i]] = i

(* Every search returns: no candidate waits for a read that is never sent, *)
(* and no read waits behind one that does not finish.                      *)
SearchReturns == at = "start" ~> at = "idle"

(* Every insert gets its locks ("For update workloads, use search_mode=2   *)
(* (PipeANN)", README.md).                                                 *)
InsertReturns == insert_ids # {} ~> insert_ids = {}
=============================================================================
