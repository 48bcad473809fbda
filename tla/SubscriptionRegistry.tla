------------------------ MODULE SubscriptionRegistry ------------------------
(***************************************************************************)
(* The subscription registry of uvm_tools.c and the two perf-event         *)
(* callbacks that consume it.                                              *)
(*                                                                         *)
(* A tracker (an open /dev/nvidia-uvm-tools file) is either a queue or a   *)
(* counter tracker and is bound to one VA space.  Subscribing sets bits of *)
(* its subscribed mask and links it on the VA space's per-index lists      *)
(* (insert_event_tracker); tools_update_status then registers or           *)
(* unregisters the fault and migration perf callbacks and keeps           *)
(* va_space->tools.enabled and g_tools_va_space_list in step.  Closing     *)
(* the file runs destroy_event_tracker.  uvm_tools_record_fault and        *)
(* uvm_tools_record_migration run only while registered, deliver to the    *)
(* queue trackers and increment the counter trackers.                      *)
(*                                                                         *)
(* All registry operations hold g_tools_va_space_list_lock,                *)
(* perf_events.lock and tools.lock for write, and the callbacks hold       *)
(* perf_events.lock and tools.lock for read, so every action below is      *)
(* atomic.  The per-index lists are not separate state: a tracker is on    *)
(* list i of its VA space exactly when bit i is in its subscribed mask,    *)
(* which is how insert/remove_event_tracker update both together.          *)
(***************************************************************************)
EXTENDS Naturals, FiniteSets

CONSTANTS
  Spaces,          \* VA spaces
  Trackers,        \* tracker files
  QueueTrackers,   \* the trackers that are queues (is_queue); others count
  TrackerSpace,    \* [Trackers -> Spaces]: the VA space a tracker binds to
  Gpus,            \* GPU identities; the CPU is "cpu"
  NumIdx,          \* list indices 0 .. NumIdx-1, shared by events and counters
  EvCpuFault, EvGpuFault, EvMigration, EvReadDuplicate, \* UvmEventType values
  CntCpuFault, CntGpuFault, CntBytesHtD, CntBytesDtH,   \* UvmCounterName values
  QueueMasks,      \* event masks a queue tracker may subscribe
  CounterMasks,    \* counter masks a counter tracker may subscribe
  RegisterMayFail, \* uvm_perf_register_event_callback_locked may fail
  AllocMayFail,    \* kmem_cache_alloc of a migration record may fail
  BroadcastEvents, \* types broadcast to every VA space (replay sync, access counter)
  ImmediateEvents, \* types recorded directly in one VA space (fatal fault, thrashing, ...)
  MaxRecords,      \* bound on callbacks and recording calls
  MaxBurst,        \* bound: records one call makes in a row (pages, merged faults)
  NoScope

Idx      == 0 .. NumIdx - 1
Procs    == {"cpu"} \cup Gpus
Scopes   == {"all"} \cup Procs
CounterIdx == {CntCpuFault, CntGpuFault, CntBytesHtD, CntBytesDtH}
Callbacks == {"fault", "migration"}

ASSUME /\ QueueTrackers \subseteq Trackers
       /\ TrackerSpace \in [Trackers -> Spaces]
       /\ {EvCpuFault, EvGpuFault, EvMigration} \cup CounterIdx \subseteq Idx
       /\ EvReadDuplicate \in Nat
       /\ BroadcastEvents \cup ImmediateEvents \subseteq Idx
       /\ QueueMasks \subseteq SUBSET Idx /\ CounterMasks \subseteq SUBSET Idx

VARIABLES
  tstate,      \* unbound (no uvm_file) | bound | closed
  scope,       \* counter tracker: all_processors or its processor
  subscribed,  \* subscribed_queues / subscribed_counters
  eventCount,  \* g_tools_enabled_event_count
  enabled,     \* va_space->tools.enabled (and membership of g_tools_va_space_list)
  registered,  \* perf callbacks registered per VA space
  counter,     \* counter tracker's mapped NvU64 array
  expected,    \* ghost: what each counter should read under the scope rules
  recv,        \* ghost: events enqueued on each queue tracker, per type
  owed,        \* ghost: events each queue tracker should have received
  records      \* callbacks run so far (bounded)

vars == <<tstate, scope, subscribed, eventCount, enabled, registered, counter,
          expected, recv, owed, records>>

-----------------------------------------------------------------------------
(* The lists of a VA space, read off a subscribed-mask function.           *)
QueueList(sub, s, e) ==
  {t \in QueueTrackers : TrackerSpace[t] = s /\ e \in sub[t]}
CounterList(sub, s, c) ==
  {t \in Trackers \ QueueTrackers : TrackerSpace[t] = s /\ c \in sub[t]}

tools_is_event_enabled(sub, s, e)   == QueueList(sub, s, e) /= {}
tools_is_counter_enabled(sub, s, c) == CounterList(sub, s, c) /= {}

tools_are_enabled(sub, s) ==
  \E i \in Idx : tools_is_event_enabled(sub, s, i) \/ tools_is_counter_enabled(sub, s, i)

tools_is_fault_callback_needed(sub, s) ==
  \/ tools_is_event_enabled(sub, s, EvCpuFault)
  \/ tools_is_event_enabled(sub, s, EvGpuFault)
  \/ tools_is_counter_enabled(sub, s, CntCpuFault)
  \/ tools_is_counter_enabled(sub, s, CntGpuFault)

tools_is_migration_callback_needed(sub, s) ==
  \/ tools_is_event_enabled(sub, s, EvMigration)
  \/ tools_is_event_enabled(sub, s, EvReadDuplicate)
  \/ tools_is_counter_enabled(sub, s, CntBytesHtD)
  \/ tools_is_counter_enabled(sub, s, CntBytesDtH)

NeededCallbacks(sub, s) ==
  {cb \in Callbacks : IF cb = "fault" THEN tools_is_fault_callback_needed(sub, s)
                                      ELSE tools_is_migration_callback_needed(sub, s)}

MasksOf(t) == IF t \in QueueTrackers THEN QueueMasks ELSE CounterMasks

(* The registrations that may fail in a tools_update_status of VA space s *)
(* over lists sub: only those it attempts, the needed and unregistered.   *)
Failures(s, sub) ==
  IF RegisterMayFail THEN SUBSET (NeededCallbacks(sub, s) \ registered[s]) ELSE {{}}

(* Mutants of the operators below: subscribing bits already subscribed,  *)
(* unsubscribing bits never subscribed, a registration check that looks  *)
(* at the wrong callback, an update that never clears enabled, the CPU    *)
(* fault counter matched on every processor, and a destroy that leaves    *)
(* the tracker linked.                                                     *)
InsertEventTrackerNoFilter(sub, cnt, t, mask) ==
  [sub |-> [sub EXCEPT ![t] = @ \cup mask],
   cnt |-> [i \in Idx |-> IF i \in mask THEN cnt[i] + 1 ELSE cnt[i]],
   inserted |-> mask]
RemoveEventTrackerNoFilter(sub, cnt, t, mask) ==
  [sub |-> [sub EXCEPT ![t] = @ \ mask],
   cnt |-> [i \in Idx |-> IF i \in mask THEN cnt[i] - 1 ELSE cnt[i]]]
RegisterStepAnyRegistered(cb, name, needed, fail) ==
  CASE needed /\ cb /= {}  -> [ok |-> TRUE, cb |-> cb]
    [] needed /\ fail      -> [ok |-> FALSE, cb |-> cb]
    [] needed              -> [ok |-> TRUE, cb |-> cb \cup {name}]
    [] OTHER               -> [ok |-> TRUE, cb |-> cb \ {name}]
CounterMatchesAlways(c, p) == TRUE

(* insert_event_tracker: link and count only the bits not yet subscribed, *)
(* then subscribe the whole mask; report the bits it inserted.             *)
InsertEventTracker(sub, cnt, t, mask) ==
  LET insertable == mask \ sub[t]
  IN  [sub |-> [sub EXCEPT ![t] = @ \cup mask],
       cnt |-> [i \in Idx |-> IF i \in insertable THEN cnt[i] + 1 ELSE cnt[i]],
       inserted |-> insertable]

(* remove_event_tracker: unlink and uncount only the subscribed bits.     *)
RemoveEventTracker(sub, cnt, t, mask) ==
  LET removable == mask \cap sub[t]
  IN  [sub |-> [sub EXCEPT ![t] = @ \ mask],
       cnt |-> [i \in Idx |-> IF i \in removable THEN cnt[i] - 1 ELSE cnt[i]]]

(* One block of tools_update_perf_events_callbacks: check-then-register a *)
(* needed callback (returning early on failure), unregister an unneeded   *)
(* one.                                                                    *)
RegisterStep(cb, name, needed, fail) ==
  CASE needed /\ name \in cb -> [ok |-> TRUE, cb |-> cb]
    [] needed /\ fail        -> [ok |-> FALSE, cb |-> cb]
    [] needed                -> [ok |-> TRUE, cb |-> cb \cup {name}]
    [] OTHER                 -> [ok |-> TRUE, cb |-> cb \ {name}]

tools_update_perf_events_callbacks(s, sub, fail) ==
  LET f == RegisterStep(registered[s], "fault",
                        tools_is_fault_callback_needed(sub, s), "fault" \in fail)
  IN  IF f.ok
        THEN RegisterStep(f.cb, "migration",
                          tools_is_migration_callback_needed(sub, s), "migration" \in fail)
        ELSE f

ToolsUpdateStatusNeverDisable(s, sub, fail) ==
  LET r == tools_update_perf_events_callbacks(s, sub, fail)
  IN  [ok |-> r.ok, cb |-> r.cb,
       enabled |-> IF r.ok THEN enabled[s] \/ tools_are_enabled(sub, s) ELSE enabled[s]]

(* tools_update_status: callbacks first; on failure return before         *)
(* touching enabled and the global VA space list.                          *)
ToolsUpdateStatus(s, sub, fail) ==
  LET r == tools_update_perf_events_callbacks(s, sub, fail)
  IN  [ok |-> r.ok, cb |-> r.cb,
       enabled |-> IF r.ok THEN tools_are_enabled(sub, s) ELSE enabled[s]]

ApplyStatus(s, r) ==
  /\ registered' = [registered EXCEPT ![s] = r.cb]
  /\ enabled' = [enabled EXCEPT ![s] = r.enabled]

-----------------------------------------------------------------------------
(* Binding a tracker to its VA space and subscribing or unsubscribing a   *)
(* mask are done by ioctls outside this file; they are modelled from the  *)
(* contract: bind sets the counter scope, subscribe inserts then updates  *)
(* the status and, on failure, removes exactly the bits it inserted.      *)
Bind(t) ==
  /\ tstate[t] = "unbound"
  /\ tstate' = [tstate EXCEPT ![t] = "bound"]
  /\ \E sc \in IF t \in QueueTrackers THEN {NoScope} ELSE Scopes :
       scope' = [scope EXCEPT ![t] = sc]
  /\ UNCHANGED <<subscribed, eventCount, enabled, registered, counter, expected,
                 recv, owed, records>>

Subscribe(t, mask) ==
  LET s   == TrackerSpace[t]
      ins == InsertEventTracker(subscribed, eventCount, t, mask)
  IN
  /\ tstate[t] = "bound"
  /\ \E fail \in Failures(s, ins.sub) :
       LET r   == ToolsUpdateStatus(s, ins.sub, fail)
           res == IF r.ok THEN ins
                  ELSE RemoveEventTracker(ins.sub, ins.cnt, t, ins.inserted)
       IN  /\ subscribed' = res.sub
           /\ eventCount' = res.cnt
           /\ ApplyStatus(s, r)
  /\ UNCHANGED <<tstate, scope, counter, expected, recv, owed, records>>

Unsubscribe(t, mask) ==
  LET s   == TrackerSpace[t]
      rem == RemoveEventTracker(subscribed, eventCount, t, mask)
  IN
  /\ tstate[t] = "bound"
  /\ \E fail \in Failures(s, rem.sub) :
       /\ subscribed' = rem.sub
       /\ eventCount' = rem.cnt
       /\ ApplyStatus(s, ToolsUpdateStatus(s, rem.sub, fail))
  /\ UNCHANGED <<tstate, scope, counter, expected, recv, owed, records>>

DestroyKeepsLists(t, fail) ==
  IF tstate[t] = "bound"
    THEN LET s == TrackerSpace[t]
         IN  /\ ApplyStatus(s, ToolsUpdateStatus(s, subscribed, fail))
             /\ UNCHANGED <<subscribed, eventCount>>
    ELSE UNCHANGED <<subscribed, eventCount, enabled, registered>>

(* destroy_event_tracker: a bound tracker is removed from every list it   *)
(* subscribed and the status updated ("de-registration should not fail"   *)
(* is only asserted; the release build carries on).                        *)
destroy_event_tracker(t, fail) ==
  IF tstate[t] = "bound"
    THEN LET s   == TrackerSpace[t]
             rem == RemoveEventTracker(subscribed, eventCount, t, subscribed[t])
         IN  /\ subscribed' = rem.sub
             /\ eventCount' = rem.cnt
             /\ ApplyStatus(s, ToolsUpdateStatus(s, rem.sub, fail))
    ELSE UNCHANGED <<subscribed, eventCount, enabled, registered>>

(* uvm_tools_close: destroy the tracker, if any, and release the file.    *)
uvm_tools_close(t) ==
  /\ tstate[t] \in {"unbound", "bound"}
  /\ \E fail \in Failures(TrackerSpace[t], [subscribed EXCEPT ![t] = {}]) :
       destroy_event_tracker(t, fail)
  /\ tstate' = [tstate EXCEPT ![t] = "closed"]
  /\ UNCHANGED <<scope, counter, expected, recv, owed, records>>

-----------------------------------------------------------------------------
(* counter_matches_processor: an all-processors tracker counts a CPU      *)
(* fault only against the default CPU identity, so a fault that is also  *)
(* reported against its preferred GPU is not counted twice.               *)
counter_matches_processor(c, p) ==
  IF c = CntCpuFault THEN p = "cpu" ELSE TRUE

(* uvm_tools_inc_counter (amount 1): add to every counter tracker on list *)
(* c whose scope is all-processors and matching, or exactly p.            *)
uvm_tools_inc_counter(cnt, s, c, p) ==
  [t \in Trackers |->
     IF /\ t \in CounterList(subscribed, s, c)
        /\ \/ scope[t] = "all" /\ counter_matches_processor(c, p)
           \/ scope[t] = p
       THEN [cnt[t] EXCEPT ![c] = @ + 1] ELSE cnt[t]]

(* Walking list e of every VA space in S: enqueue on each queue tracker.  *)
RecordIn(S, e) ==
  [t \in Trackers |-> IF \E s \in S : t \in QueueList(subscribed, s, e)
                       THEN [recv[t] EXCEPT ![e] = @ + 1] ELSE recv[t]]

(* uvm_tools_record_event: enqueue on every queue tracker of list e.      *)
uvm_tools_record_event(s, e) == recv' = RecordIn({s}, e)

(* The delivery rule of the contract, for the ghost `owed`: an event of   *)
(* type e raised for the VA spaces S is owed to every queue tracker of    *)
(* those spaces subscribed to e.                                           *)
Owe(S, e, n) ==
  owed' = [t \in Trackers |->
             IF t \in QueueTrackers /\ TrackerSpace[t] \in S /\ e \in subscribed[t]
               THEN [owed[t] EXCEPT ![e] = @ + n] ELSE owed[t]]

(* The counting rule of the contract, for the ghost `expected`: a unit     *)
(* reported against the processors ids is counted once by every           *)
(* all-processors tracker of counter c and by every tracker scoped to one *)
(* of ids.                                                                 *)
Credit(exp, s, c, ids) ==
  [t \in Trackers |->
     IF t \in CounterList(subscribed, s, c) /\ (scope[t] = "all" \/ scope[t] \in ids)
       THEN [exp[t] EXCEPT ![c] = @ + 1] ELSE exp[t]]

(* Mutant of the loop below: one record for the whole region.            *)
RecordFirstOnly(s, e, n) ==
  [t \in Trackers |-> IF t \in QueueList(subscribed, s, e)
                       THEN [recv[t] EXCEPT ![e] = @ + 1] ELSE recv[t]]

(* n records of type e in a row, each walking list e: the page loop of    *)
(* uvm_tools_record_read_duplicate, and a GPU fault followed by its       *)
(* merged instances.                                                       *)
RecordEach(s, e, n) ==
  [t \in Trackers |-> IF t \in QueueList(subscribed, s, e)
                       THEN [recv[t] EXCEPT ![e] = @ + n] ELSE recv[t]]

(* uvm_tools_record_fault, run by the fault perf callback while it is     *)
(* registered.  A CPU fault is counted against the default CPU and, when  *)
(* the buffer's preferred location is a GPU, against that GPU too; a GPU  *)
(* fault is recorded once for itself and once per merged instance (n in  *)
(* all) and counted once against the GPU.  The asserts on entry are       *)
(* stated as RegisteredCallbacksAsserted below.                            *)
RecordFault(s, proc, pref, n) ==
  /\ "fault" \in registered[s]
  /\ records < MaxRecords
  /\ IF proc = "cpu"
       THEN /\ uvm_tools_record_event(s, EvCpuFault)
            /\ Owe({s}, EvCpuFault, 1)
            /\ counter' = LET once == uvm_tools_inc_counter(counter, s, CntCpuFault, "cpu")
                          IN  IF pref \in Gpus
                                THEN uvm_tools_inc_counter(once, s, CntCpuFault, pref)
                                ELSE once
            /\ expected' = Credit(expected, s, CntCpuFault,
                                  IF pref \in Gpus THEN {"cpu", pref} ELSE {"cpu"})
       ELSE /\ IF tools_is_event_enabled(subscribed, s, EvGpuFault)
                  THEN recv' = RecordEach(s, EvGpuFault, n)
                  ELSE UNCHANGED recv
            /\ Owe({s}, EvGpuFault, n)
            /\ counter' = uvm_tools_inc_counter(counter, s, CntGpuFault, proc)
            /\ expected' = Credit(expected, s, CntGpuFault, {proc})
  /\ records' = records + 1
  /\ UNCHANGED <<tstate, scope, subscribed, eventCount, enabled, registered>>

(* uvm_tools_record_migration, run by the migration perf callback.  With  *)
(* a migration subscriber and a block record on the push it allocates a   *)
(* migration record (the record itself is DeferredEvents' business); a    *)
(* failed allocation jumps to done_unlock, past the byte counters.         *)
(* Otherwise a CPU-to-GPU migration is counted as HtD against the GPU and *)
(* a GPU-to-CPU one as DtH against the GPU.                                *)
RecordMigration(s, src, dst) ==
  /\ "migration" \in registered[s]
  /\ records < MaxRecords
  /\ \E allocOk \in IF AllocMayFail THEN BOOLEAN ELSE {TRUE} :
       LET skip == tools_is_event_enabled(subscribed, s, EvMigration) /\ ~allocOk
           htd  == IF src = "cpu" THEN uvm_tools_inc_counter(counter, s, CntBytesHtD, dst)
                                  ELSE counter
           both == IF dst = "cpu" THEN uvm_tools_inc_counter(htd, s, CntBytesDtH, src)
                                  ELSE htd
       IN  counter' = IF skip THEN counter ELSE both
  /\ expected' = CASE src = "cpu" -> Credit(expected, s, CntBytesHtD, {dst})
                   [] dst = "cpu" -> Credit(expected, s, CntBytesDtH, {src})
                   [] OTHER       -> expected
  /\ records' = records + 1
  /\ UNCHANGED <<tstate, scope, subscribed, eventCount, enabled, registered, recv, owed>>

(* Mutant of g_tools_va_space_list: the VA spaces with a perf callback.  *)
VaSpaceListRegistered == {s \in Spaces : registered[s] /= {}}

(* g_tools_va_space_list: the VA spaces whose tools.enabled is set.       *)
g_tools_va_space_list == {s \in Spaces : enabled[s]}

(* tools_is_event_enabled_in_any_va_space: the global count, shared with   *)
(* the counter of the same index.                                          *)
tools_is_event_enabled_in_any_va_space(e) == eventCount[e] /= 0

(* uvm_tools_broadcast_event: list e of every VA space on the global list. *)
uvm_tools_broadcast_event(e) == recv' = RecordIn(g_tools_va_space_list, e)

(* uvm_tools_broadcast_replay_sync and uvm_tools_broadcast_access_counter: *)
(* return unless the global count of the type is non-zero, then broadcast. *)
Broadcast(e) ==
  /\ records < MaxRecords
  /\ IF tools_is_event_enabled_in_any_va_space(e)
       THEN uvm_tools_broadcast_event(e)
       ELSE UNCHANGED recv
  /\ Owe(Spaces, e, 1)
  /\ records' = records + 1
  /\ UNCHANGED <<tstate, scope, subscribed, eventCount, enabled, registered,
                 counter, expected>>

(* uvm_tools_record_cpu/gpu_fatal_fault, _thrashing, _throttling_start/end: *)
(* return unless tools.enabled, then, under tools.lock, record if list e   *)
(* is non-empty.                                                           *)
RecordImmediate(s, e) ==
  /\ records < MaxRecords
  /\ IF enabled[s] /\ tools_is_event_enabled(subscribed, s, e)
       THEN uvm_tools_record_event(s, e)
       ELSE UNCHANGED recv
  /\ Owe({s}, e, 1)
  /\ records' = records + 1
  /\ UNCHANGED <<tstate, scope, subscribed, eventCount, enabled, registered,
                 counter, expected>>

(* uvm_tools_test_hmm_split_invalidate: return unless tools.enabled, then  *)
(* record under tools.lock without testing list e, whose walk finds no    *)
(* subscriber when it is empty.                                            *)
uvm_tools_test_hmm_split_invalidate(s, e) ==
  /\ records < MaxRecords
  /\ IF enabled[s] THEN uvm_tools_record_event(s, e) ELSE UNCHANGED recv
  /\ Owe({s}, e, 1)
  /\ records' = records + 1
  /\ UNCHANGED <<tstate, scope, subscribed, eventCount, enabled, registered,
                 counter, expected>>

(* uvm_tools_record_read_duplicate (and _invalidate, its copy with another *)
(* event type): return unless tools.enabled; under tools.lock, if list e  *)
(* is non-empty, record one event per page of the region's page mask.     *)
RecordReadDuplicate(s, e, pages) ==
  /\ records < MaxRecords
  /\ IF enabled[s] /\ tools_is_event_enabled(subscribed, s, e)
       THEN recv' = RecordEach(s, e, pages)
       ELSE UNCHANGED recv
  /\ Owe({s}, e, pages)
  /\ records' = records + 1
  /\ UNCHANGED <<tstate, scope, subscribed, eventCount, enabled, registered,
                 counter, expected>>

-----------------------------------------------------------------------------
Init ==
  /\ tstate = [t \in Trackers |-> "unbound"]
  /\ scope = [t \in Trackers |-> NoScope]
  /\ subscribed = [t \in Trackers |-> {}]
  /\ eventCount = [i \in Idx |-> 0]
  /\ enabled = [s \in Spaces |-> FALSE]
  /\ registered = [s \in Spaces |-> {}]
  /\ counter = [t \in Trackers |-> [c \in CounterIdx |-> 0]]
  /\ expected = [t \in Trackers |-> [c \in CounterIdx |-> 0]]
  /\ recv = [t \in Trackers |-> [i \in Idx |-> 0]]
  /\ owed = [t \in Trackers |-> [i \in Idx |-> 0]]
  /\ records = 0

Next ==
  \/ \E t \in Trackers : Bind(t) \/ uvm_tools_close(t)
  \/ \E t \in Trackers : \E m \in MasksOf(t) : Subscribe(t, m) \/ Unsubscribe(t, m)
  \/ \E s \in Spaces, p, q \in Procs, n \in 1 .. MaxBurst :
       (p = "cpu" => n = 1) /\ RecordFault(s, p, q, n)
  \/ \E s \in Spaces, p, q \in Procs : p /= q /\ RecordMigration(s, p, q)
  \/ \E e \in BroadcastEvents : Broadcast(e)
  \/ \E s \in Spaces, e \in ImmediateEvents : RecordImmediate(s, e)
  \/ \E s \in Spaces, e \in ImmediateEvents : uvm_tools_test_hmm_split_invalidate(s, e)
  \/ \E s \in Spaces, e \in ImmediateEvents, n \in 1 .. MaxBurst : RecordReadDuplicate(s, e, n)

Spec == Init /\ [][Next]_vars

-----------------------------------------------------------------------------
TypeOK ==
  /\ tstate \in [Trackers -> {"unbound", "bound", "closed"}]
  /\ scope \in [Trackers -> Scopes \cup {NoScope}]
  /\ subscribed \in [Trackers -> SUBSET Idx]
  /\ eventCount \in [Idx -> Nat]
  /\ enabled \in [Spaces -> BOOLEAN]
  /\ registered \in [Spaces -> SUBSET Callbacks]
  /\ counter \in [Trackers -> [CounterIdx -> 0 .. MaxRecords]]
  /\ recv \in [Trackers -> [Idx -> 0 .. MaxRecords * MaxBurst]]
  /\ owed \in [Trackers -> [Idx -> 0 .. MaxRecords * MaxBurst]]

(* g_tools_enabled_event_count[i] counts the trackers subscribed to index *)
(* i, queue and counter trackers alike, however subscribe, unsubscribe,   *)
(* failed subscriptions and closes interleave: insert and remove only     *)
(* count the bits that change, so the count never drifts or underflows    *)
(* (the UVM_ASSERT in remove_event_tracker and the zero check in          *)
(* uvm_tools_exit rely on it).                                             *)
EnabledCountMatchesTrackers ==
  \A i \in Idx : eventCount[i] = Cardinality({t \in Trackers : i \in subscribed[t]})

(* va_space->tools.enabled, and so membership of g_tools_va_space_list,   *)
(* that broadcasts walk, is true exactly when some list of the VA space   *)
(* is non-empty, after every subscribe, failed subscribe, unsubscribe and *)
(* close.                                                                  *)
ActiveListInSync ==
  \A s \in Spaces : enabled[s] = tools_are_enabled(subscribed, s)

(* Every callback a VA space's subscriptions need is registered, so no    *)
(* fault or migration is missed, and the tools_update_status of           *)
(* destroy_event_tracker never has anything to register and cannot fail,  *)
(* even after failed registrations.                                        *)
NeededCallbacksRegistered ==
  \A s \in Spaces : NeededCallbacks(subscribed, s) \subseteq registered[s]

(* Every counter tracker reads what the counting contract gives it: a CPU *)
(* fault with a GPU preferred location, reported against two identities,  *)
(* counts once for an all-processors tracker, and byte counters count     *)
(* every migration they are scoped to.                                     *)
CountersFollowScope ==
  \A t \in Trackers \ QueueTrackers : counter[t] = expected[t]

(* A callback writes into a tracker's mapped queue or counters only while *)
(* the tracker is bound: close unlinks it before its pages are unmapped.   *)
NoDeliveryAfterClose ==
  [][\A t \in Trackers :
       (recv'[t] /= recv[t] \/ counter'[t] /= counter[t]) => tstate[t] = "bound"]_vars

(* Every event raised for a VA space, or broadcast to all of them, is     *)
(* enqueued on exactly the queue trackers subscribed to its type at that  *)
(* moment, although the broadcast is gated by the global count, which     *)
(* counter subscriptions share, and walks g_tools_va_space_list, and the  *)
(* immediate paths read tools.enabled before taking tools.lock: both must *)
(* stay in step with the lists through failed subscriptions and closes.   *)
EventsReachSubscribers ==
  \A t \in QueueTrackers : recv[t] = owed[t]

(* Whenever a perf callback is registered, the UVM_ASSERTs it makes on    *)
(* entry hold: the VA space is enabled and the callback is needed.        *)
RegisteredCallbacksAsserted ==
  \A s \in Spaces : \A cb \in registered[s] :
     enabled[s] /\ cb \in NeededCallbacks(subscribed, s)

====
