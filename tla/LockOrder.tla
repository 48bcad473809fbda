----------------------------- MODULE LockOrder -----------------------------
(***************************************************************************)
(* The locks of uvm_tools.c and the order in which each code path takes    *)
(* them, with the one wait that is not a lock: uvm_tools_flush_events      *)
(* waiting in nv_kthread_q_flush for the g_tools_queue worker.             *)
(*                                                                         *)
(* Each thread repeatedly runs a path of the file, chosen per call among  *)
(* its roles, as a sequence of lock steps.  The locks are g_tools_va_space_list_lock ("list"), a VA         *)
(* space's perf_events.lock ("perf") and tools.lock ("tools"), all         *)
(* reader/writer semaphores, and the spinlocks g_tools_channel_list_lock   *)
(* ("chan") and a queue's queue->lock ("queue").  What a path does under   *)
(* its locks is modelled elsewhere; here only who waits for whom matters.  *)
(***************************************************************************)
EXTENDS Naturals, Sequences, FiniteSets, TLC
LOCAL INSTANCE SequencesExt

CONSTANTS
  Threads,          \* threads calling into the file
  Role,             \* [Threads -> SUBSET Roles]: the paths a thread may run
  NoThread,         \* no writer
  MaxWork           \* bound: items on g_tools_queue

Roles   == {"close", "fault", "broadcast", "migbegin", "complete", "worker",
            "replayworker", "flush"}

(* The paths the g_tools_queue kthread runs, one per item.                *)
WorkerRoles == {"worker", "replayworker"}
RwLocks == {"list", "perf", "tools"}
Locks   == RwLocks \cup {"chan", "queue"}

Acq(l, m) == [op |-> "acq", lock |-> l, mode |-> m]
Rel(l)    == [op |-> "rel", lock |-> l, mode |-> "none"]
Do(o)     == [op |-> o, lock |-> "none", mode |-> "none"]

VARIABLES
  role,     \* per thread: the path of its current call
  pc,       \* per thread: index of its next step in its path
  readers,  \* per rwsem: threads holding it for read
  writer,   \* per lock: the thread holding it exclusively, or NoThread
  waitq,    \* per lock: the threads at an acquire of it, in arrival order
  work,     \* items scheduled on g_tools_queue and not yet taken
  ahead     \* per flushing thread: items queued before its flush, not finished

vars == <<role, pc, readers, writer, waitq, work, ahead>>

-----------------------------------------------------------------------------
(* Mutant of destroy_event_tracker_locks: tools.lock before perf_events.  *)
DestroyLocksSwapped ==
  << Acq("list", "w"), Acq("tools", "w"), Acq("perf", "w"),
     Rel("perf"), Rel("tools"), Rel("list") >>

(* destroy_event_tracker: all three registry locks for write, in order.   *)
destroy_event_tracker_locks ==
  << Acq("list", "w"), Acq("perf", "w"), Acq("tools", "w"),
     Rel("tools"), Rel("perf"), Rel("list") >>

(* enqueue_event: the queue spinlock around the copy and publish.          *)
enqueue_event_locks == << Acq("queue", "w"), Rel("queue") >>

(* uvm_tools_record_fault: the perf event notifier holds perf_events.lock  *)
(* for read (asserted); tools.lock for read around the enqueues.           *)
record_fault_locks ==
  << Acq("perf", "r"), Acq("tools", "r") >> \o enqueue_event_locks
  \o << Rel("tools"), Rel("perf") >>

(* tools_is_event_enabled_in_any_va_space: the global list lock for read. *)
is_event_enabled_in_any_va_space_locks == << Acq("list", "r"), Rel("list") >>

(* uvm_tools_broadcast_event: the list lock, then each VA space's tools    *)
(* lock, for read.                                                         *)
broadcast_event_locks ==
  << Acq("list", "r"), Acq("tools", "r") >> \o enqueue_event_locks
  \o << Rel("tools"), Rel("list") >>

(* uvm_tools_record_block_migration_begin: the channel list lock inside    *)
(* tools.lock.                                                             *)
block_migration_begin_locks ==
  << Acq("tools", "r"), Acq("chan", "w"), Rel("chan"), Rel("tools") >>

(* on_block_migration_complete (and the replay and map-remote ones), run  *)
(* once a push with a record has completed: schedule the record on         *)
(* g_tools_queue under the channel list lock.                              *)
on_complete_locks == << Do("completed"), Acq("chan", "w"), Do("schedule"), Rel("chan") >>

(* record_migration_events, run by the g_tools_queue worker on the oldest *)
(* item: tools.lock for read around the enqueues.                          *)
record_events_locks ==
  << Do("take"), Acq("tools", "r") >> \o enqueue_event_locks
  \o << Rel("tools"), Do("done") >>

(* record_replay_events, run by the g_tools_queue worker on a replay item: *)
(* a broadcast, so the list lock and then tools.lock, for read.            *)
record_replay_events_locks ==
  << Do("take") >> \o broadcast_event_locks \o << Do("done") >>

(* tools_schedule_completed_events: retain under the lock, update progress *)
(* without it (running completion callbacks), release under it.            *)
schedule_completed_events_locks ==
  << Acq("chan", "w"), Rel("chan") >> \o on_complete_locks \o << Acq("chan", "w"), Rel("chan") >>

(* uvm_tools_flush_events: then nv_kthread_q_flush, holding no lock.       *)
flush_events_locks == schedule_completed_events_locks \o << Do("flush"), Do("wait") >>

Paths ==
  ("close"     :> destroy_event_tracker_locks) @@
  ("fault"     :> record_fault_locks) @@
  ("replayworker" :> record_replay_events_locks) @@
  ("broadcast" :> is_event_enabled_in_any_va_space_locks \o broadcast_event_locks) @@
  ("migbegin"  :> block_migration_begin_locks) @@
  ("complete"  :> on_complete_locks) @@
  ("worker"    :> record_events_locks) @@
  ("flush"     :> flush_events_locks)

PathOf(t) == Paths[role[t]]

NextStep(t) == PathOf(t)[pc[t]]

-----------------------------------------------------------------------------
(* rw_semaphore and spinlock semantics (outside this file).  A thread    *)
(* that cannot take a lock at once joins its wait queue, and the queue is *)
(* served in arrival order (queued spinlocks, and rw_semaphores with a    *)
(* run of readers at the head admitted together): a reader arriving      *)
(* behind a waiting writer waits for it, and a writer arriving behind a   *)
(* waiting reader lets it in first.                                        *)
Queued(t, l) == Contains(waitq[l], t)

(* The waiters that were queued before t, or all of them if t is not.    *)
WaitersAhead(t, l) ==
  IF Queued(t, l) THEN ToSet(SubSeq(waitq[l], 1, SelectInSeq(waitq[l], LAMBDA u : u = t) - 1))
                  ELSE ToSet(waitq[l])

(* A queued thread is blocked at an acquire, so its mode is its next step's. *)
WaitMode(u) == NextStep(u).mode

CanAcquire(t, l, m) ==
  /\ writer[l] = NoThread
  /\ m = "w" /\ l \in RwLocks => readers[l] = {}
  /\ \A u \in WaitersAhead(t, l) : m = "r" /\ WaitMode(u) = "r"

(* nv_kthread_q_flush returns once every item queued before it is done.   *)
(* Mutant: it waits for the queue to be empty.                             *)
QueueEmpty(t) == work = 0 /\ \A w \in Threads : role[w] \in WorkerRoles => pc[w] = 1
QueueFlushedFor(t) == ahead[t] = 0

(* Items queued and not finished: waiting ones and the one being run.      *)
Outstanding == work + Cardinality({w \in Threads : role[w] \in WorkerRoles /\ pc[w] > 1})

(* Records of completed pushes whose callback has not scheduled them yet. *)
(* Per path: the positions after a "completed" and up to its "schedule". *)
CompletingAt ==
  [r \in Roles |-> {k \in 1 .. Len(Paths[r]) :
                      \E i \in 1 .. k - 1 :
                        /\ Paths[r][i] = Do("completed")
                        /\ \A j \in i .. k - 1 : Paths[r][j] /= Do("schedule")}]

Completing == Cardinality({u \in Threads : pc[u] \in CompletingAt[role[u]]})

(* The next step; after the last one the call returns and the thread's   *)
(* next call may run any of its paths.                                     *)
Advance(t) ==
  IF pc[t] = Len(PathOf(t))
    THEN /\ pc' = [pc EXCEPT ![t] = 1]
         /\ \E r \in Role[t] : role' = [role EXCEPT ![t] = r]
    ELSE /\ pc' = [pc EXCEPT ![t] = @ + 1]
         /\ UNCHANGED role

(* Taking a lock leaves its wait queue, and reaching an acquire joins the  *)
(* back of that lock's queue: down_* and spin_lock queue on arrival.       *)
Requeue(t, s) ==
  LET left == IF s.op = "acq" THEN [waitq EXCEPT ![s.lock] = Remove(@, t)] ELSE waitq
      n    == Paths[role'[t]][pc'[t]]
  IN  IF n.op = "acq" THEN [left EXCEPT ![n.lock] = Append(@, t)] ELSE left

Step(t) ==
  LET s == NextStep(t)
  IN
  /\ CASE s.op = "acq" ->
            /\ CanAcquire(t, s.lock, s.mode)
            /\ IF s.mode = "r"
                 THEN /\ readers' = [readers EXCEPT ![s.lock] = @ \cup {t}]
                      /\ UNCHANGED writer
                 ELSE /\ writer' = [writer EXCEPT ![s.lock] = t]
                      /\ UNCHANGED readers
            /\ UNCHANGED <<work, ahead>>
       [] s.op = "rel" ->
            /\ IF writer[s.lock] = t
                 THEN /\ writer' = [writer EXCEPT ![s.lock] = NoThread]
                      /\ UNCHANGED readers
                 ELSE /\ readers' = [readers EXCEPT ![s.lock] = @ \ {t}]
                      /\ UNCHANGED writer
            /\ UNCHANGED <<work, ahead>>
       [] s.op = "completed" ->
            /\ work + Completing < MaxWork
            /\ UNCHANGED <<readers, writer, work, ahead>>
       [] s.op = "schedule" ->
            /\ work' = work + 1
            /\ UNCHANGED <<readers, writer, ahead>>
       [] s.op = "take" ->
            /\ work > 0
            /\ work' = work - 1
            /\ UNCHANGED <<readers, writer, ahead>>
       [] s.op = "done" ->
            /\ ahead' = [f \in Threads |-> IF ahead[f] > 0 THEN ahead[f] - 1 ELSE 0]
            /\ UNCHANGED <<readers, writer, work>>
       [] s.op = "flush" ->
            /\ ahead' = [ahead EXCEPT ![t] = Outstanding]
            /\ UNCHANGED <<readers, writer, work>>
       [] s.op = "wait" ->
            /\ QueueFlushedFor(t)
            /\ UNCHANGED <<readers, writer, work, ahead>>
  /\ Advance(t)
  /\ waitq' = Requeue(t, s)

Init ==
  /\ role \in {f \in [Threads -> Roles] : \A t \in Threads : f[t] \in Role[t]}
  /\ pc = [t \in Threads |-> 1]
  /\ readers = [l \in RwLocks |-> {}]
  /\ writer = [l \in Locks |-> NoThread]
  /\ waitq = [l \in Locks |-> <<>>]
  /\ work = 0
  /\ ahead = [t \in Threads |-> 0]

(* A thread that starts at an acquire it cannot take at once joins the    *)
(* back of its queue; later calls join as they reach the acquire.          *)
Sleep(t) ==
  LET s == NextStep(t)
  IN  /\ s.op = "acq"
      /\ ~CanAcquire(t, s.lock, s.mode)
      /\ ~Queued(t, s.lock)
      /\ waitq' = [waitq EXCEPT ![s.lock] = Append(@, t)]
      /\ UNCHANGED <<role, pc, readers, writer, work, ahead>>

Next == \E t \in Threads : Step(t) \/ Sleep(t)

(* A thread runs on: an acquire either takes the lock or joins its queue, *)
(* and a lock free for the head of its queue stays so until the head      *)
(* takes it.  Only the bound on g_tools_queue can be taken by another     *)
(* completion first, so a completion waiting for room is served under     *)
(* strong fairness.                                                        *)
Fairness ==
  \A t \in Threads : /\ WF_vars(Step(t) \/ Sleep(t))
                    /\ SF_vars(Step(t) /\ NextStep(t).op = "completed")

Spec == Init /\ [][Next]_vars
FairSpec == Spec /\ Fairness

-----------------------------------------------------------------------------
(* t waits for u: t's next lock is held by u in a conflicting mode, or u  *)
(* is queued on it ahead of t; a flush waits for the worker while items   *)
(* it must wait for are outstanding.                                       *)
WaitsFor(t, u) ==
  LET s == NextStep(t)
  IN  /\ t /= u
      /\ \/ /\ s.op = "acq" /\ ~CanAcquire(t, s.lock, s.mode)
            /\ \/ writer[s.lock] = u
               \/ s.mode = "w" /\ s.lock \in RwLocks /\ u \in readers[s.lock]
               \/ u \in WaitersAhead(t, s.lock)
         \/ s.op = "wait" /\ ~QueueFlushedFor(t) /\ role[u] \in WorkerRoles

(* The threads that cannot take their next step for a lock or the flush. *)
Blocked ==
  {t \in Threads : LET s == NextStep(t)
                   IN  \/ s.op = "acq" /\ ~CanAcquire(t, s.lock, s.mode)
                       \/ s.op = "wait" /\ ~QueueFlushedFor(t)}

WaitEdges == {p \in Blocked \X Threads : WaitsFor(p[1], p[2])}

(* The threads reachable from `from` along wait edges E.                   *)
RECURSIVE Reachable(_, _, _)
Reachable(E, from, seen) ==
  LET nxt == {p[2] : p \in {e \in E : e[1] \in from}} \ seen
  IN  IF nxt = {} THEN seen ELSE Reachable(E, nxt, seen \cup nxt)

(* No set of threads waits on each other in a cycle: the registry's write *)
(* locks, the callbacks' read locks taken under locks their callers hold, *)
(* the broadcast walk, the channel list lock taken inside tools.lock and  *)
(* the flush waiting for the worker, which itself needs tools.lock, are    *)
(* taken in one global order, whatever the interleaving.                   *)
NoWaitCycle ==
  LET E == WaitEdges
  IN  \A t \in Threads : t \notin Reachable(E, {t}, {})

(* Every call that has started returns: close, the callbacks, the         *)
(* broadcast, the worker's item and a flush all finish under the lock    *)
(* fairness of the kernel primitives.                                     *)
EveryCallReturns == \A t \in Threads : pc[t] > 1 ~> pc[t] = 1

=============================================================================
