# TLA+ models of the UVM tools event-tracing core

These modules model `src/kernel-open/nvidia-uvm/uvm_tools.c`. That file is the event-tracing and counter core of the UVM driver, ported to Nanos closures. It lets monitoring clients subscribe to events and counters of a VA space, and delivers events to them from many call sites in the driver.

## The system and how its parts interact

| Part | Code | What it does |
|---|---|---|
| Event queue | `enqueue_event`, `queue_needs_wakeup` (364-480) | A ring buffer shared with user space. The kernel produces under `queue->lock`. The consumer is an untrusted user process that owns `get_ahead`/`get_behind` in a control block it can write freely. |
| Subscription registry | `insert_event_tracker`, `remove_event_tracker`, `tools_update_perf_events_callbacks`, `tools_update_status`, `destroy_event_tracker`, `uvm_tools_close` (316-431, 546-618, 1570-1639) | Per-VA-space lists of trackers for each event type and counter. It keeps a global per-index count, the `tools.enabled` flag and its `g_tools_va_space_list` membership, and registers the fault and migration perf callbacks. |
| Counter aggregator | `counter_matches_processor`, `uvm_tools_inc_counter` (508-544) | Adds to the mapped counters of counter trackers by scope. |
| Perf callbacks | `uvm_tools_record_fault`, `uvm_tools_record_migration` (721-793, 947-1000) | Record and count faults and migrations of subscribed VA spaces. |
| Deferred pipeline | `add/remove_pending_event_for_channel`, `uvm_tools_record_block_migration_begin`, `uvm_tools_record_map_remote`, `uvm_tools_broadcast_replay`, `on_*_complete`, `record_*_events`, `tools_schedule_completed_events`, `uvm_tools_flush_events` (795-930, 1004-1036, 1111-1172, 1245-1282, 1427-1568, 1889-1894) | Events that need GPU timestamps are attached to a push. The channel's pending count keeps it on `g_tools_channel_list`. The push's completion callback uncounts the channel and schedules a record on `g_tools_queue`, whose worker enqueues the events. A flush updates progress on the listed channels and flushes the worker queue. |
| Immediate paths | fatal faults, thrashing, throttling, read duplication, access counters, replay sync (1039-1243, 1284-1425) | Fill one entry and call record or broadcast under the read locks. |
| Process-memory access, UUID table | 1680-1887 | Copy target memory page by page through a staging page mapped on the VA space's GPUs, and report the processor UUIDs. |
| Init/exit, user-page helpers | 219-314, 1901-1987 | Cache, `g_tools_queue` and device-file setup at load and teardown at unload, and page pinning for tracker buffers. |

How they interact:
- A subscription decides which callbacks run and which queues and counters they reach.
- Callbacks and deferred workers produce into the event queues.
- The registry's write locks exclude the callbacks, which hold the same locks for read. This is why a registry operation and a callback are each one atomic step in the models.

## Modules

### `RingQueue.tla` (MC: `MCRingQueue.tla`)

Models `enqueue_event` as four steps of a producer, in the code's order:
1. `EnqueueBegin`: lock, then take a masked snapshot of the cursors. When the queue is full, count the drop and unlock.
2. `EnqueueCopy`: copy the record.
3. `EnqueuePublish`: store `put_ahead` and `put_behind`.
4. `EnqueueWakeup`: the once-per-`get_ahead` signal, then unlock.

Two producers interleave with the consumer. The consumer is an environment, an honest four-cursor reader (`ConsumerClaim/Read/Release`). `Spec` keeps stores in program order. `WeakSpec` models a weakly ordered CPU, which may make the record visible after the cursor publish, because the code has no barrier between the `memcpy` and the `atomic_set`: `PublishBeforeCopy` publishes first and `CopyLate` makes the record visible before the unlock, which is a release. Masking is `% QueueSize`, which equals `& (size-1)` for the power-of-two sizes the code requires.

### `DeferredEvents.tla` (MC: `MCDeferredEvents.tla`)

Pushes on channels are environment: `PushBegin`, `PushEnd`, `GpuComplete`. The tools handlers attach a token (the block record) to a push and count its channel:
- `RecordBlockMigrationBegin`
- `RecordMigration`
- `RecordMapRemote`, which has two allocations, each of which may fail
- `BroadcastReplay`

`OnComplete` runs the completion callback once the GPU is done. It uncounts the channel and appends the record to `workq` (`g_tools_queue`). `WorkerRun` turns the oldest record into events. `MigrationEvents` chains timestamps the way `record_migration_events` does.

A flusher runs `tools_schedule_completed_events` and then `nv_kthread_q_flush` as these steps:
- `FlushRetain`
- `FlushProgress`: runs the callbacks of completed pushes on the i-th retained channel, walking the live list without the lock as the code does.
- `FlushRelease`
- `FlushQueue`
- `FlushReturn`

`ToggleEnabled` stands for the registry turning a subscription on or off.

### `SubscriptionRegistry.tla` (MC: `MCSubscriptionRegistry.tla`)

State:
- Trackers are `unbound`, `bound` or `closed`, with a `subscribed` mask. The per-index lists are read off the masks, because insert and remove change list and mask together.
- `eventCount` is `g_tools_enabled_event_count`, one array indexed by event types and counter names alike.
- `enabled` and `registered` hold the flag and the callbacks of each VA space.

Operations:
- `Subscribe` runs `InsertEventTracker` then `ToolsUpdateStatus`. On failure it removes the bits it inserted.
- `Unsubscribe` and `uvm_tools_close` → `destroy_event_tracker` follow the code.
- `tools_update_perf_events_callbacks` is the two check-then-register blocks (`RegisterStep`) with the early return. `Failures` lists the registrations that may fail.
- `RecordFault` and `RecordMigration` run while their callback is registered. They deliver to queue trackers (`recv`) and count through `uvm_tools_inc_counter`, including the skip of the byte counters after a failed allocation.
- A ghost, `expected`, applies the contract's counting rule for comparison.

- `Broadcast(e)` is `uvm_tools_broadcast_replay_sync` / `uvm_tools_broadcast_access_counter`: the gate `tools_is_event_enabled_in_any_va_space` reads the global count (shared with counters of the same index), then `uvm_tools_broadcast_event` walks `g_tools_va_space_list` and records into every subscribed queue.
- `RecordImmediate(s, e)` is the fatal-fault, thrashing and throttling paths: the unlocked `tools.enabled` early return, then the list under `tools.lock`.
- `RecordReadDuplicate(s, e, n)` is `uvm_tools_record_read_duplicate`: the same gate, then one record per page of the region. `RecordEach` is that loop, and `RecordFault` uses it too, because a GPU fault is recorded once for itself and once per merged instance. `uvm_tools_test_hmm_split_invalidate` tests only `tools.enabled`. `MaxBurst` bounds the pages or instances of one call.
- A second ghost, `owed`, records which queue trackers the contract says must receive each event; `recv` is what the code delivers.

`Bind`, `Subscribe` and `Unsubscribe` stand for ioctls that are not in this file. They are modelled from the contract (attach, subscribe, unsubscribe) and marked `spec_modelled` in `PROJECT.json`.

### `LockOrder.tla` (MC: `MCLockOrder.tla`)

Every path of the file that takes locks, as a sequence of lock steps; each thread has a set of paths (`Role`) and picks one per call: `destroy_event_tracker` (list, perf, tools for write), the fault callback (perf then tools for read, then the queue spinlock), the broadcast (list then tools), migration-begin (channel list lock inside tools), a completion callback (schedule under the channel list lock), the `g_tools_queue` worker (a migration item: tools for read; a replay item: a broadcast, so list then tools) and `uvm_tools_flush_events` (progress, then `nv_kthread_q_flush`, which waits for the items queued before it). What each path does under its locks is modelled in the other modules.

Every lock has a wait queue (`waitq`) that a thread joins when it reaches an acquire (`Requeue`), and it is served in arrival order: a run of readers at the head of an rw-semaphore's queue is admitted together. So a reader arriving behind a waiting writer waits for it, and a writer arriving behind a waiting reader lets it in first. This is how Linux rw-semaphores and queued spinlocks behave.

An earlier version of this module had no queues. Instead, any thread whose next step was a write acquire blocked all readers. An idle `close` thread therefore counted as a writer waiting forever, and the broadcaster never took `list`. The FIFO queues remove that artefact. The broadcast and the replay worker now both take `list` while a close is queued on it, which is reachable and checked.

### `ProcessMemoryAccess.tla` (MC: `MCProcessMemoryAccess.tla`)

Models `tools_access_process_memory` step by step, with the lock released between steps where the code releases it:
- `Setup`: the four allocations. A failed first allocation returns at once; a later one jumps to `exit`.
- `Loop`: the loop head. It either ends with NV_OK, or takes the VA space lock, looks up the block (which may fail) and snapshots the VA space's GPUs.
- `RetainAndMap`: one GPU of the snapshot, in id order. Under Confidential Computing the loop breaks. A GPU already in `retained` is skipped. Otherwise the GPU is retained and the staging page is mapped on it; the mapping may fail.
- `AccessBlock`: the HMM update (its failure keeps the lock), then the access and ECC check, the unlock, and `*bytes += bytes_now`.
- `UnlockAndExit`, `FreeStage`, `ReleaseRetained`: the two labels, then `uvm_mem_free` and `uvm_global_mask_release`.

`GetProcessorUuidTable` is the UUID ioctl, one step under the lock. GPUs joining and leaving the VA space are environment steps (`RegisterGpu`, `UnregisterGpu`). They take the lock for write, so they run only while no access holds it. `gpuRef` counts the VA space's reference and each retaining access; a GPU at 0 is gone.

### `ToolsLifecycle.tla` (MC: `MCToolsLifecycle.tla`)

Models `uvm_tools_init` and `uvm_tools_exit` (1901-1987). State: how many of the six cache pointers are set, the state of `g_tools_queue` and how often it was stopped, whether the device file exists, and `ret`. Actions:
- `CreateCache`: one `NV_KMEM_CACHE_CREATE`, or its failure to `err_cache_destroy` with `ret` = -ENOMEM.
- `QueueInit`: `ret = nv_kthread_q_init(...)`; a negative result goes to `err_cache_destroy`.
- `CreateSpecialFile`: success returns `ret`; failure goes to `err_stop_thread`, which stops the queue and falls through to the cache cleanup, and also returns `ret`.
- `Exit`: unload of a module whose init returned 0: stop the queue, destroy the caches.

### Abstract specifications and refinement

- `LossyQueue.tla`: a FIFO of at most `Capacity - 1` records; an enqueue appends or, when full, counts a drop for its type. `RingQueue` implements it (`ImplementsLossyQueue`) under the mapping buffer = accepted records not yet released, `out` = released records, `dropped` = the control block's drop counters.
- `DeferredBatches.tla`: a batch is opened on an operation with a start time, grows by later-stamped records, is closed when the operation completes and is delivered once, all its events at once, with migration intervals chained. `DeferredEvents` implements it (`ImplementsDeferredBatches`) with the push's token as the batch and the GPU-completion state as "closed".

## Runs

| Run | Result | What it shows |
|---|---|---|
| `ringqueue_honest` | pass, 1.26M states | With 2 producers, a 4-slot queue and up to 6 attempts, delivery is a prefix of acceptance order (`FifoDelivery`). Every attempt is accepted, dropped or in flight (`NoSilentLoss`). The queue implements `LossyQueue` (`ImplementsLossyQueue`): a drop happens exactly when it is full, and records leave in order. |
| `ringqueue_weak` | **violation** | Under `WeakSpec`, an honest consumer can claim a slot whose `put_behind` is visible and read it before the record is, so `FifoDelivery` fails. `enqueue_event` needs a write barrier between the copy and the publish. |
| `deferred_flush2` | pass, 1.3M states | Two pushes of replay records on two channels, with two concurrent flushers:<br>• a channel's count is its pending tokens plus flush retains, and it is listed iff the count is non-zero (`ChannelAccounting`);<br>• each flush's walk stays inside the prefix it retained (`FlushPrefixIsSnapshot`);<br>• a returning flush has delivered every token whose push the GPU had completed when it started (`FlushDeliversCompleted`). |
| `deferred_batches` | pass, 0.3M states | Two pushes of every kind, two records per batch, no flusher. The channel accounting holds with every kind's partial allocation failures (`ChannelAccounting`). `DeferredEvents` implements `DeferredBatches`: every batch is delivered at most once, whole, with chained timestamps (`ImplementsDeferredBatches`). |
| `deferred_flushspec` | **violation** | A flush can return while a submitted but not yet GPU-completed push's token is pending. The spec says flush delivers every pending batch. |
| `registry_safety` | pass, 50k distinct views | Subscribes, with failing registrations, interleaved with unsubscribes, closes and callbacks:<br>• the global count equals the trackers per index;<br>• `enabled` follows the lists;<br>• needed callbacks are registered;<br>• counters follow the scope rule;<br>• nothing is written to a closed tracker. |
| `registry_delivery` | pass, 135k states | Faults (GPU faults with up to one merged instance), a broadcast type (index 4), and an immediate type (index 5) that is also recorded by read duplication of one or two pages and by the HMM split test event. Every queue tracker receives exactly the events the contract owes it (`EventsReachSubscribers`). |
| `lockorder` | pass, 44k states | Four threads: a close; a driver thread whose calls run the fault callback, a broadcast, migration-begin or a completion callback; the worker, running migration or replay items; and a flush. With FIFO lock queues:<br>• no wait cycle ever forms (`NoWaitCycle`);<br>• no state deadlocks;<br>• under the kernel primitives' fairness every started call returns (`EveryCallReturns`). This includes a flush waiting for a replay item whose broadcast is queued on `list` behind a closing writer, while new completions keep scheduling items. |
| `registry_failedsub` | **violation** | A failed migration registration leaves the fault callback registered on a disabled VA space, so the next fault breaks `uvm_tools_record_fault`'s asserts. |
| `registry_allocfail` | **violation** | A failed migration-record allocation also skips the byte counters. |
| `lifecycle_init` | **violation** | When `create_special_file` fails, `uvm_tools_init` stops the worker, destroys the caches and returns 0, because `ret` still holds `nv_kthread_q_init`'s 0. The loader keeps a module with no device file, queue or caches, and its `uvm_tools_exit` stops the queue a second time (`InitSuccessMeansReady`). |
| `procmem` | pass, 338k states | Two threads each issue one process-memory access or UUID-table ioctl, of up to 3 bytes over 2-byte pages, while two GPUs join and leave the VA space. Every allocation, block lookup, GPU mapping, HMM update, access and ECC check may fail, and Confidential Computing may be on or off.<br>• The staging page is never mapped on a GPU that has gone away (`StageOnLiveGpus`).<br>• Each GPU's reference count is its registration plus the accesses retaining it (`GpuRefsBalanced`).<br>• No thread still holds the VA space lock once it reaches `exit` (`LockReleasedAtExit`). |

Every property of a passing run has a mutant in `PROJECT.json`: a plausible bug in the mapped code, which TLC shows breaks that property.

## Bounds

- **Queue.** Size 4 with threshold 2 is the spec's own scenario. Six attempts by two producers overfill it several times, so drops, wrap-around and repeated wakeups all occur.
- **Deferred pipeline.** Two pushes on two channels give channels with several pending tokens, channels unlinked and relinked during a flush, and tokens added behind a flush's snapshot. `MaxDetails` 2 gives a two-event timestamp chain. Two flushers run with replay records only and one record per push. With every kind of record, two flushers exceed ten minutes of checking. The flush handles channels and does not depend on the record kind.
- **Lock order.** Four threads repeat calls, with at most 2 items on `g_tools_queue`. The paths that share the driver thread (fault, broadcast, migration-begin, completion) never run at the same time as each other.
  - A concurrent broadcast is still present, because the worker's replay item runs the broadcast's lock sequence.
  - The read-only paths add no wait edge among themselves: none of them takes a lock another holds for read while waiting for a write.
  - Larger role sets (the immediate records, `uvm_tools_broadcast_replay`'s list-then-channel sequence) repeat these patterns and made the liveness check too slow.
- **Process memory.** Two threads and two GPUs. Sizes up to 3 bytes at offsets 0 or 1 in 2-byte pages give accesses of one and two pages, so a GPU can leave between two pages of one access, and a GPU seen on both pages tests the retain-once rule. One ioctl per thread keeps the run at 338k states; a second ioctl per thread (12M states) adds no new ordering, since every thread returns with nothing retained.
- **Registry.** Read-duplication subscriptions are not enumerated (`EvReadDuplicate` lies outside the subscribed indices), so the read-duplication disjunct of `tools_is_migration_callback_needed` is modelled but never true in these runs. `registry_safety` uses a VIEW that omits the write-only ghosts `recv` and `owed`. Two VA spaces and three trackers: a queue and a counter tracker in one space, a queue in the other. One GPU gives all three counter scopes. Masks that need both callbacks make a partial registration reachable. Two callbacks are enough to reach a fault after a failed subscribe and a CPU fault counted against two identities. The indices follow the driver's overlap of the counter and event enumerations; they start at zero together.

## Fairness

No run of `DeferredEvents` assumes fairness. A completed push is noticed only when some caller runs `uvm_channel_update_progress`, and the comment at lines 95-106 says that happens "as needed", from code outside this file. So eventual delivery of a deferred record does not follow from this file, and no property claims it. The part the file does guarantee is checked as safety: a returning flush has delivered what the GPU had completed when it started (`FlushDeliversCompleted`).

`lockorder` assumes weak fairness of each thread's step: a thread is never descheduled forever. With FIFO queues, a lock that is free for the head of its queue stays free until the head takes it. Strong fairness is assumed only for a completion waiting for room under the `MaxWork` bound, because another completion may take that room first.

The flush and the registry are client calls that need not happen, and no run assumes they do. `procmem` checks safety only: an access never waits for anything but the VA space lock, which the environment takes only for single steps.

## Not modelled

- The bytes moved by process-memory access, and the page pinning of `map_user_pages`, which nothing in this file calls.
- A consumer that writes arbitrary values into the control block. `enqueue_event` masks both cursors as it reads them (452-453), so every value gives an index inside the ring. A lying consumer can only corrupt its own view of the records.
- The assertions of `uvm_tools_exit` on the registry. `ToolsLifecycle` is not composed with `SubscriptionRegistry`; at unload the registry is idle.
- The global count against the contract's per-collector rule. The code keeps one count per tracker, counter indices included, and `EnabledCountMatchesTrackers` checks that the count is exactly that. The contract counts VA spaces with a non-empty list instead, which the code does not do.
- Event payload layout and the HAL translation tables. One defect lies only in the payload: `uvm_tools_test_hmm_split_invalidate` (1093-1105) records a stack `UvmEventEntry` without zeroing it. Every other path memsets its entry first, and the contract says every event is zero-initialised. The model records the event and leaves the content out, and the defect is listed as a hazard.
- Lock ordering inside the data models: each locked section is one atomic step there; `LockOrder` checks the locks separately.
- The unlocked reads of `tools.enabled` and of the global count before the lists are re-read under `tools.lock` are one step with that read.
- The user-space consumer's wait loop, so wakeup liveness is not modelled. The once-per-`get_ahead` signal is safe only with a consumer that re-checks the cursors before it sleeps, and that consumer is not in this repository.
- VA space teardown against pending deferred records.

`PROJECT.json` lists these under `hazards` with the reason.

## Plan

Still to do:
1. Compose the registry with the ring queue, so that `uvm_tools_record_event` and `broadcast_event` enqueue through `enqueue_event` while trackers close. This checks that no enqueue reaches an unmapped queue, at queue granularity.
2. Model the wakeup protocol against a consumer contract, once one is fixed from the contract's threshold rule.
3. Split the unlocked `tools.enabled` read from the locked section in `RecordImmediate`.
4. Add `uvm_tools_broadcast_replay`'s list-then-channel-lock sequence to `LockOrder`, once a cheaper liveness configuration makes room for another role.
