--------------------------- MODULE DeferredEvents ---------------------------
(***************************************************************************)
(* The delayed-notification pipeline of uvm_tools.c: events that need a    *)
(* GPU timestamp of an asynchronous push (block migrations, map-remote     *)
(* operations, fault replays).                                             *)
(*                                                                         *)
(* A producer attaches a record (block_migration_data_t,                   *)
(* block_map_remote_data_t or replay_data_t, here a "token") to a push as  *)
(* its on_complete data and counts it on the push's channel:               *)
(* add_pending_event_for_channel links the channel into                    *)
(* g_tools_channel_list on its first pending event.  When the channel's    *)
(* progress is updated after the GPU finished the push, the completion     *)
(* callback reads the GPU timestamps, uncounts the channel and schedules   *)
(* the record on g_tools_queue, whose single worker thread records the     *)
(* events.  uvm_tools_flush_events retains every listed channel, updates   *)
(* their progress, releases them and flushes the worker queue.             *)
(*                                                                         *)
(* Pushes, the GPU and the progress updates of threads other than a        *)
(* flusher are environment (uvm_push.c, uvm_channel.c); they are modelled  *)
(* by what the code here relies on: a push runs on one channel, is ended,  *)
(* completes on the GPU, and its on_complete callback runs once, after the *)
(* GPU completed it, from whichever thread updates the channel's progress. *)
(***************************************************************************)
EXTENDS Naturals, Sequences, SequencesExt, FiniteSets

CONSTANTS
  Pushes,      \* uvm_push_t objects that may carry a tools record (each used once)
  Channels,    \* uvm_channel_t objects
  Flushers,    \* threads calling uvm_tools_flush_events
  MaxDetails,  \* bound: migration / map-remote records per push
  Purposes,    \* the kinds of pushes the environment issues (a subset of Kinds)
  NoToken      \* model value: push_info->on_complete_data == NULL

Kinds == {"migration", "map_remote", "replay"}
ASSUME Purposes \subseteq Kinds /\ Purposes /= {}

VARIABLES
  push,         \* per push: state, channel, purpose, timestamp slots used
  token,        \* per push: the tools record attached to it, or NoToken
  pending,      \* per channel: channel->tools.pending_event_count
  channelList,  \* g_tools_channel_list, in list order
  workq,        \* g_tools_queue: scheduled records, in FIFO order
  workEnq,      \* items ever scheduled on g_tools_queue
  workDone,     \* items the worker has finished
  enabled,      \* per kind: the event type has a subscriber
  flusher,      \* per flushing thread: its place in uvm_tools_flush_events
  delivered     \* ghost: events passed to uvm_tools_record_event/broadcast, in order

vars == <<push, token, pending, channelList, workq, workEnq, workDone,
          enabled, flusher, delivered>>

PushStates == {"free", "open", "ended", "gpudone", "retired"}
Events == [push : Pushes, kind : Kinds, begin : 0 .. MaxDetails + 1, end : 0 .. MaxDetails + 1]

-----------------------------------------------------------------------------
(* Mutants of the definitions below, each a plausible slip in this code:   *)
(* linking a channel at the head of g_tools_channel_list, a record handed  *)
(* to the worker without uncounting its channel, a worker loop that does   *)
(* not chain the GPU timestamps, a flush that returns without waiting for *)
(* g_tools_queue, a callback that never schedules its record, and a        *)
(* double decrement of pending_event_count.                                *)
AddPendingAtHead(c) ==
  /\ pending' = [pending EXCEPT ![c] = @ + 1]
  /\ channelList' = IF pending[c] = 0 THEN <<c>> \o channelList ELSE channelList
HandOffKeepCount(b) ==
  /\ token' = [token EXCEPT ![b].status = "completed"]
  /\ workq' = Append(workq, b)
  /\ workEnq' = workEnq + 1
  /\ UNCHANGED <<pending, channelList>>
MigrationEventsUnchained(b) ==
  [k \in 1 .. Len(token[b].details) |->
     [push |-> b, kind |-> "migration", begin |-> token[b].start,
      end |-> token[b].details[k]]]
QueueFlushedAtOnce(f) == TRUE
RemovePendingTwice(pend, list, c) ==
  <<[pend EXCEPT ![c] = @ - 2], IF pend[c] <= 2 THEN SelectSeq(list, LAMBDA x : x /= c) ELSE list>>

(* add_pending_event_for_channel: the first pending event links the        *)
(* channel at the tail of g_tools_channel_list.                            *)
AddPending(c) ==
  /\ pending' = [pending EXCEPT ![c] = @ + 1]
  /\ channelList' = IF pending[c] = 0 THEN Append(channelList, c) ELSE channelList

(* remove_pending_event_for_channel: the last pending event unlinks it.    *)
RemovePendingCount(pend, list, c) ==
  LET n == pend[c] - 1
  IN  <<[pend EXCEPT ![c] = n],
        IF n = 0 THEN SelectSeq(list, LAMBDA x : x /= c) ELSE list>>

uvm_push_timestamp(b) == push[b].stamps + 1

NewToken(b, k, start) ==
  [kind |-> k, chan |-> push[b].chan, start |-> start, details |-> <<>>,
   status |-> "pending"]

-----------------------------------------------------------------------------
(* Environment: a push begins on a channel for one purpose, ends, and the  *)
(* GPU completes it.                                                       *)
PushBegin(b, c, k) ==
  /\ push[b].state = "free"
  /\ push' = [push EXCEPT ![b] = [state |-> "open", chan |-> c, purpose |-> k,
                                  stamps |-> 0, calls |-> 0]]
  /\ UNCHANGED <<token, pending, channelList, workq, workEnq, workDone, enabled,
                 flusher, delivered>>

PushEnd(b) ==
  /\ push[b].state = "open"
  /\ push' = [push EXCEPT ![b].state = "ended"]
  /\ UNCHANGED <<token, pending, channelList, workq, workEnq, workDone, enabled,
                 flusher, delivered>>

GpuComplete(b) ==
  /\ push[b].state = "ended"
  /\ push' = [push EXCEPT ![b].state = "gpudone"]
  /\ UNCHANGED <<token, pending, channelList, workq, workEnq, workDone, enabled,
                 flusher, delivered>>

(* Environment: a tracker subscribes to or unsubscribes from an event      *)
(* type (the registry's side, modelled in SubscriptionRegistry).           *)
ToggleEnabled(k) ==
  /\ enabled' = [enabled EXCEPT ![k] = ~@]
  /\ UNCHANGED <<push, token, pending, channelList, workq, workEnq, workDone,
                 flusher, delivered>>

-----------------------------------------------------------------------------
(* uvm_tools_record_block_migration_begin: if the VA space has a           *)
(* subscriber for migration events, allocate the block record (which may   *)
(* fail), stamp the push start, attach it to the push and count the        *)
(* channel.                                                                *)
RecordBlockMigrationBegin(b) ==
  /\ push[b].state = "open" /\ push[b].purpose = "migration"
  /\ push[b].calls = 0
  /\ \/ /\ enabled["migration"]
        /\ token[b] = NoToken
        /\ token' = [token EXCEPT ![b] = NewToken(b, "migration", uvm_push_timestamp(b))]
        /\ push' = [push EXCEPT ![b].stamps = @ + 1, ![b].calls = 1]
        /\ AddPending(push[b].chan)
     \/ \* tools disabled, no migration subscriber, or kmem_cache_alloc failed
        /\ push' = [push EXCEPT ![b].calls = 1]
        /\ UNCHANGED <<token, pending, channelList>>
  /\ UNCHANGED <<workq, workEnq, workDone, enabled, flusher, delivered>>

(* uvm_tools_record_migration, its event part: with a migration           *)
(* subscriber and a block record on the push, append one migration record  *)
(* stamped with a new push timestamp (allocation may fail).                *)
RecordMigration(b) ==
  /\ push[b].state = "open" /\ push[b].purpose = "migration"
  /\ push[b].calls \in 1 .. MaxDetails
  /\ \/ /\ enabled["migration"] /\ token[b] /= NoToken
        /\ token' = [token EXCEPT ![b].details = Append(@, uvm_push_timestamp(b))]
        /\ push' = [push EXCEPT ![b].calls = @ + 1, ![b].stamps = @ + 1]
     \/ \* no subscriber, no block record, or kmem_cache_alloc failed
        /\ push' = [push EXCEPT ![b].calls = @ + 1]
        /\ UNCHANGED token
  /\ UNCHANGED <<pending, channelList, workq, workEnq, workDone, enabled,
                 flusher, delivered>>

(* uvm_tools_record_map_remote for a GPU mapping: the first call on a      *)
(* push creates and counts the block record, every call appends one map    *)
(* record; each allocation may fail and silently drops its part.           *)
RecordMapRemote(b) ==
  /\ push[b].state = "open" /\ push[b].purpose = "map_remote"
  /\ push[b].calls < MaxDetails
  /\ \/ /\ enabled["map_remote"]
        /\ \E blockOk, detailOk \in BOOLEAN :
             LET t == IF token[b] = NoToken /\ blockOk
                        THEN NewToken(b, "map_remote", 0) ELSE token[b]
                 add == t /= NoToken /\ detailOk
             IN
             /\ token' = [token EXCEPT ![b] =
                            IF add THEN [t EXCEPT !.details = Append(@, uvm_push_timestamp(b))]
                            ELSE t]
             /\ push' = [push EXCEPT ![b].calls = @ + 1,
                                     ![b].stamps = IF add THEN @ + 1 ELSE @]
             /\ IF token[b] = NoToken /\ t /= NoToken
                  THEN AddPending(push[b].chan)
                  ELSE UNCHANGED <<pending, channelList>>
     \/ /\ ~enabled["map_remote"]
        /\ push' = [push EXCEPT ![b].calls = @ + 1]
        /\ UNCHANGED <<token, pending, channelList>>
  /\ UNCHANGED <<workq, workEnq, workDone, enabled, flusher, delivered>>

(* uvm_tools_broadcast_replay: when some VA space subscribes to fault      *)
(* replays, allocate the replay record (may fail), stamp the push, attach  *)
(* the record and count the channel.                                       *)
BroadcastReplay(b) ==
  /\ push[b].state = "open" /\ push[b].purpose = "replay"
  /\ push[b].calls = 0
  /\ \/ /\ enabled["replay"]
        /\ token' = [token EXCEPT ![b] = NewToken(b, "replay", uvm_push_timestamp(b))]
        /\ push' = [push EXCEPT ![b].stamps = @ + 1, ![b].calls = 1]
        /\ AddPending(push[b].chan)
     \/ /\ push' = [push EXCEPT ![b].calls = 1]
        /\ UNCHANGED <<token, pending, channelList>>
  /\ UNCHANGED <<workq, workEnq, workDone, enabled, flusher, delivered>>

-----------------------------------------------------------------------------
(* The tail shared by on_block_migration_complete, on_replay_complete and  *)
(* on_map_remote_complete, under g_tools_channel_list_lock: uncount the    *)
(* channel and schedule the record on g_tools_queue.  The GPU timestamps   *)
(* they read first are valid because the push has completed.               *)
HandOffToWorker(b) ==
  LET r == RemovePendingCount(pending, channelList, token[b].chan)
  IN  /\ token' = [token EXCEPT ![b].status = "completed"]
      /\ pending' = r[1]
      /\ channelList' = r[2]
      /\ workq' = Append(workq, b)
      /\ workEnq' = workEnq + 1

(* The push's on_complete callback, run once by a progress update after    *)
(* the GPU completed the push; pushes without a tools record only retire.  *)
OnComplete(b) ==
  /\ push[b].state = "gpudone"
  /\ push' = [push EXCEPT ![b].state = "retired"]
  /\ IF token[b] /= NoToken
       THEN HandOffToWorker(b)
       ELSE UNCHANGED <<token, pending, channelList, workq, workEnq>>

(* record_migration_events: one event per migration record, in list       *)
(* order; each begins at the previous record's end timestamp, the first at *)
(* the block's start timestamp.                                            *)
MigrationEvents(b) ==
  LET d == token[b].details
  IN  [k \in 1 .. Len(d) |->
         [push |-> b, kind |-> "migration",
          begin |-> IF k = 1 THEN token[b].start ELSE d[k - 1], end |-> d[k]]]

(* record_map_remote_events: one event per map record with its own GPU     *)
(* timestamp.                                                              *)
MapRemoteEvents(b) ==
  [k \in 1 .. Len(token[b].details) |->
     [push |-> b, kind |-> "map_remote", begin |-> 0, end |-> token[b].details[k]]]

(* record_replay_events: a single broadcast event.                         *)
ReplayEvents(b) ==
  << [push |-> b, kind |-> "replay", begin |-> 0, end |-> token[b].start] >>

(* The g_tools_queue worker runs the oldest scheduled item and frees the   *)
(* record.                                                                 *)
WorkerRun ==
  /\ workq /= <<>>
  /\ LET b == Head(workq)
         evs == CASE token[b].kind = "migration"  -> MigrationEvents(b)
                  [] token[b].kind = "map_remote" -> MapRemoteEvents(b)
                  [] token[b].kind = "replay"     -> ReplayEvents(b)
     IN  /\ delivered' = delivered \o evs
         /\ token' = [token EXCEPT ![b].status = "delivered"]
  /\ workq' = Tail(workq)
  /\ workDone' = workDone + 1
  /\ UNCHANGED <<push, pending, channelList, workEnq, enabled, flusher>>

-----------------------------------------------------------------------------
(* uvm_tools_flush_events = tools_schedule_completed_events followed by    *)
(* nv_kthread_q_flush(&g_tools_queue).                                     *)

(* Tokens whose push the GPU has completed: a flush starting now owes      *)
(* their events (ghost, for FlushDeliversCompleted).                       *)
GpuCompletedTokens ==
  {b \in Pushes : token[b] /= NoToken /\ token[b].status /= "delivered"
                  /\ push[b].state \in {"gpudone", "retired"}}

(* Tokens whose push has been submitted to the GPU (ended), completed or  *)
(* not (ghost, for FlushDeliversAllPending).                               *)
SubmittedTokens ==
  {b \in Pushes : token[b] /= NoToken /\ token[b].status /= "delivered"
                  /\ push[b].state \in {"ended", "gpudone", "retired"}}

(* Under the lock: retain every listed channel and remember their count.   *)
FlushRetain(f) ==
  /\ flusher[f].pc = "idle"
  /\ pending' = [c \in Channels |-> IF c \in ToSet(channelList)
                                     THEN pending[c] + 1 ELSE pending[c]]
  /\ flusher' = [flusher EXCEPT ![f] =
                   [pc |-> IF channelList = <<>> THEN "queue" ELSE "progress",
                    count |-> Len(channelList), i |-> 1, snap |-> channelList,
                    target |-> 0, owed |-> GpuCompletedTokens,
                    submitted |-> SubmittedTokens]]
  /\ UNCHANGED <<push, token, channelList, workq, workEnq, workDone, enabled,
                 delivered>>

(* Without the lock, walk the first `count` list entries and update each   *)
(* channel's progress: run the callback of a completed push on it, or,     *)
(* when there is none left, move to the next entry.                        *)
FlushProgress(f) ==
  LET c == channelList[flusher[f].i]
  IN
  /\ flusher[f].pc = "progress"
  /\ \/ \E b \in Pushes :
          /\ push[b].state = "gpudone" /\ push[b].chan = c
          /\ OnComplete(b)
          /\ UNCHANGED flusher
     \/ /\ \A b \in Pushes : ~(push[b].state = "gpudone" /\ push[b].chan = c)
        /\ flusher' = [flusher EXCEPT ![f].i = @ + 1,
                                      ![f].pc = IF flusher[f].i = flusher[f].count
                                                THEN "release" ELSE "progress"]
        /\ UNCHANGED <<push, token, pending, channelList, workq, workEnq>>
  /\ UNCHANGED <<workDone, enabled, delivered>>

(* remove_pending_event_for_channel on each of the first n list entries,  *)
(* walked with list_for_each_entry_safe: those reaching zero are unlinked. *)
ReleaseFirst(pend, list, n) ==
  LET first == SubSeq(list, 1, n)
      p2 == [c \in DOMAIN pend |-> IF c \in ToSet(first) THEN pend[c] - 1 ELSE pend[c]]
  IN  <<p2, SelectSeq(first, LAMBDA c : p2[c] > 0) \o SubSeq(list, n + 1, Len(list))>>

(* Under the lock: release the first `count` entries again.                *)
FlushRelease(f) ==
  LET r == ReleaseFirst(pending, channelList, flusher[f].count)
  IN
  /\ flusher[f].pc = "release"
  /\ pending' = r[1]
  /\ channelList' = r[2]
  /\ flusher' = [flusher EXCEPT ![f].pc = "queue"]
  /\ UNCHANGED <<push, token, workq, workEnq, workDone, enabled, delivered>>

(* nv_kthread_q_flush: wait for every item scheduled before the call.      *)
FlushQueue(f) ==
  /\ flusher[f].pc = "queue"
  /\ flusher' = [flusher EXCEPT ![f].pc = "wait", ![f].target = workEnq]
  /\ UNCHANGED <<push, token, pending, channelList, workq, workEnq, workDone,
                 enabled, delivered>>

QueueFlushed(f) == workDone >= flusher[f].target

FlushReturn(f) ==
  /\ flusher[f].pc = "wait"
  /\ QueueFlushed(f)
  /\ flusher' = [flusher EXCEPT ![f].pc = "idle"]
  /\ UNCHANGED <<push, token, pending, channelList, workq, workEnq, workDone,
                 enabled, delivered>>

-----------------------------------------------------------------------------
Init ==
  /\ push = [b \in Pushes |-> [state |-> "free", chan |-> CHOOSE c \in Channels : TRUE,
                               purpose |-> "migration", stamps |-> 0, calls |-> 0]]
  /\ token = [b \in Pushes |-> NoToken]
  /\ pending = [c \in Channels |-> 0]
  /\ channelList = <<>>
  /\ workq = <<>>
  /\ workEnq = 0
  /\ workDone = 0
  /\ enabled \in [Kinds -> BOOLEAN]
  /\ flusher = [f \in Flushers |-> [pc |-> "idle", count |-> 0, i |-> 1,
                                    snap |-> <<>>, target |-> 0, owed |-> {},
                                    submitted |-> {}]]
  /\ delivered = <<>>

(* The environment's own progress updates: any thread may run the          *)
(* callback of a completed push.                                           *)
Environment ==
  \/ \E b \in Pushes, c \in Channels, k \in Purposes : PushBegin(b, c, k)
  \/ \E b \in Pushes : PushEnd(b) \/ GpuComplete(b)
  \/ \E b \in Pushes : OnComplete(b) /\ UNCHANGED <<workDone, enabled, flusher, delivered>>
  \/ \E k \in Purposes : ToggleEnabled(k)

Next ==
  \/ Environment
  \/ \E b \in Pushes : RecordBlockMigrationBegin(b) \/ RecordMigration(b)
                       \/ RecordMapRemote(b) \/ BroadcastReplay(b)
  \/ WorkerRun
  \/ \E f \in Flushers : FlushRetain(f) \/ FlushProgress(f) \/ FlushRelease(f)
                         \/ FlushQueue(f) \/ FlushReturn(f)

Spec == Init /\ [][Next]_vars

-----------------------------------------------------------------------------
TypeOK ==
  /\ push \in [Pushes -> [state : PushStates, chan : Channels, purpose : Kinds,
                          stamps : 0 .. MaxDetails + 1, calls : 0 .. MaxDetails + 1]]
  /\ pending \in [Channels -> Nat]
  /\ channelList \in Seq(Channels)
  /\ workq \in Seq(Pushes)
  /\ delivered \in Seq(Events)

(* Flushing threads between FlushRetain and FlushRelease hold one          *)
(* reference on every channel of their snapshot.                           *)
Retains(c) ==
  Cardinality({f \in Flushers : flusher[f].pc \in {"progress", "release"}
                                /\ c \in ToSet(flusher[f].snap)})

(* Channel accounting: a channel's pending_event_count is the number of    *)
(* its records whose completion callback has not run plus the references   *)
(* held by flushes in progress; it is linked in g_tools_channel_list       *)
(* exactly once while that count is non-zero and never otherwise.  Breaks  *)
(* if a callback, a flush release or a double release mis-counts, which    *)
(* would trip UVM_ASSERT(pending_event_count > 0) or leave a channel       *)
(* listed (or unlisted) with the wrong count.                              *)
ChannelAccounting ==
  \A c \in Channels :
    /\ pending[c] = Cardinality({b \in Pushes : token[b] /= NoToken
                                   /\ token[b].chan = c
                                   /\ token[b].status = "pending"})
                    + Retains(c)
    /\ (c \in ToSet(channelList)) <=> pending[c] > 0
    /\ Cardinality({i \in DOMAIN channelList : channelList[i] = c}) <= 1

(* The unlocked walk of tools_schedule_completed_events is safe: while a   *)
(* flush holds its references, the first `count` entries of the list are  *)
(* exactly the channels it retained, in the same order, because retained   *)
(* channels cannot be unlinked and new channels are linked at the tail.    *)
FlushPrefixIsSnapshot ==
  \A f \in Flushers :
    flusher[f].pc \in {"progress", "release"} =>
      SubSeq(channelList, 1, flusher[f].count) = flusher[f].snap

(* Refinement: the pipeline implements DeferredBatches.  A push's record  *)
(* is its batch, open until the GPU completes the push, done until the     *)
(* worker has recorded its events, and out after that; what the worker     *)
(* passes to the recorder is the contract's output.  Breaks if events are  *)
(* recorded before the GPU finished the push, twice, out of record order,  *)
(* with timestamps that do not chain or do not increase, or if a record    *)
(* changes after its push was submitted.                                   *)
AbsBatch(b) ==
  IF token[b] = NoToken THEN NoToken
  ELSE [kind    |-> token[b].kind,
        start   |-> token[b].start,
        details |-> token[b].details,
        state   |-> IF token[b].status = "delivered" THEN "out"
                    ELSE IF push[b].state \in {"gpudone", "retired"} THEN "done"
                    ELSE "open"]

Batches == INSTANCE DeferredBatches
             WITH Batches <- Pushes, NoBatch <- NoToken,
                  batch <- [b \in Pushes |-> AbsBatch(b)], out <- delivered

ImplementsDeferredBatches == Batches!Spec

(* What uvm_tools_flush_events achieves: when it returns, every record     *)
(* whose push the GPU had completed when the flush started has been        *)
(* delivered.                                                              *)
FlushDeliversCompleted ==
  [][\A f \in Flushers :
       (flusher[f].pc = "wait" /\ flusher'[f].pc = "idle") =>
         \A b \in flusher[f].owed : token'[b].status = "delivered"]_vars

(* What the spec promises of a flush (section 6 and section 8, "flush     *)
(* exhaustiveness"): when it returns, every record of a batch that was     *)
(* submitted to the GPU before the flush started has been delivered.  The  *)
(* code only completes the pushes the GPU has already finished; this is    *)
(* checked to fail.                                                        *)
FlushDeliversAllPending ==
  [][\A f \in Flushers :
       (flusher[f].pc = "wait" /\ flusher'[f].pc = "idle") =>
         \A b \in flusher[f].submitted : token'[b].status = "delivered"]_vars

=============================================================================
