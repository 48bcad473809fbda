----------------------------- MODULE RingQueue -----------------------------
(***************************************************************************)
(* The event ring of one queue tracker (uvm_tools_queue_t) and the         *)
(* producer side of its control block, as written by enqueue_event() in    *)
(* uvm_tools.c.                                                            *)
(*                                                                         *)
(* Producers are driver threads calling uvm_tools_record_event(); they     *)
(* serialise on queue->lock and go through four steps inside it:           *)
(* snapshot the cursors (or drop), memcpy the record into its slot,        *)
(* publish put_ahead/put_behind, and the wakeup check.  The consumer is    *)
(* the user-space reader that shares the control block and the ring, an   *)
(* honest 4-cursor reader.  The consumer is environment: it is not code of *)
(* this repository.                                                        *)
(***************************************************************************)
EXTENDS Naturals, Sequences, SequencesExt, FiniteSets

CONSTANTS
  QueueSize,             \* queue->queue_buffer_count, a power of two
  NotificationThreshold, \* queue->notification_threshold
  Producers,             \* threads that may call enqueue_event concurrently
  EventTypes,            \* entry->eventData.eventType values in use
  MaxAttempts,           \* bound: number of enqueue_event calls in a behaviour
  NoRecord, NoHolder     \* model values: empty slot, free spinlock

ASSUME /\ QueueSize \in {2, 4, 8}
       /\ NotificationThreshold \in 0 .. QueueSize
       /\ MaxAttempts \in Nat

Slots   == 0 .. QueueSize - 1
Records == [seq : 0 .. MaxAttempts - 1, type : EventTypes]

VARIABLES
  ctrl,        \* UvmToolsEventControlData: four NvU32 cursors and dropped[]
  queue,       \* queue->queue: the ring slots
  lock,        \* queue->lock: holder or NoHolder
  pc,          \* per producer: where it is inside enqueue_event
  entry,       \* per producer: the record it is enqueuing
  sn,          \* per producer: its uvm_tools_queue_snapshot_t
  is_wakeup_get_valid, wakeup_get, \* queue fields of the same names
  signals,     \* number of blockq_flush(queue->wait_queue) calls
  nextSeq,     \* ghost: enqueue_event calls started so far
  attempts,    \* ghost: enqueue_event calls started, per event type
  accepted,    \* ghost: records published, in publication order
  consumer,    \* honest consumer: its step and claimed slot
  delivered,   \* ghost: records the honest consumer has read, in order
  released     \* ghost: slots the honest consumer has released

prodVars == <<pc, entry, sn, lock>>
vars == <<ctrl, queue, lock, pc, entry, sn, is_wakeup_get_valid, wakeup_get,
          signals, nextSeq, attempts, accepted, consumer, delivered, released>>

-----------------------------------------------------------------------------
(* queue_mask = queue_size - 1.  For a power-of-two size that divides      *)
(* 2^32, `x & queue_mask` of the NvU32 value x is x modulo the size, also  *)
(* after a 32-bit wrap-around of x, so the mask is modelled as %.          *)
QueueMask(x) == x % QueueSize

(* Mutants of the definitions below, each a plausible slip in             *)
(* enqueue_event: a full check that never fires or fires one slot early,  *)
(* and a drop counted wrongly or not at all.                               *)
IsFullNever(s) == FALSE
IsFullTwoFree(s) == QueueMask(QueueSize + s.get_behind - s.put_behind) \in {1, 2}
CountDropLost(c, t) == c
CountDropDecrement(c, t) == [c EXCEPT !.dropped[t] = @ - 1]

(* sn.get_behind, sn.put_behind and sn.put_ahead as enqueue_event derives  *)
(* them from the untrusted control block.                                  *)
TakeSnapshot(c) ==
  LET put == QueueMask(c.put_behind)
  IN  [get_behind |-> QueueMask(c.get_behind),
       put_behind |-> put,
       put_ahead  |-> QueueMask(put + 1)]

(* "one free element means that the queue is full"                         *)
IsFull(s) == QueueMask(QueueSize + s.get_behind - s.put_behind) = 1

(* atomic64_inc(&ctrl->dropped[eventType])                                 *)
CountDrop(c, t) == [c EXCEPT !.dropped[t] = @ + 1]

(* queue_needs_wakeup(): unread records seen from get_ahead reach the      *)
(* notification threshold.  get_ahead is not masked by the caller.         *)
QueueNeedsWakeup(put, get) ==
  QueueMask(QueueSize + put - get) >= NotificationThreshold

-----------------------------------------------------------------------------
(* enqueue_event, up to the full check: the speculation barrier, taking    *)
(* queue->lock and reading the cursors.  A full ring increments            *)
(* ctrl->dropped[eventType] and unlocks; the record is lost.               *)
EnqueueBegin(p, t) ==
  LET s == TakeSnapshot(ctrl)
      e == [seq |-> nextSeq, type |-> t]
  IN
  /\ pc[p] = "idle"
  /\ nextSeq < MaxAttempts
  /\ lock = NoHolder
  /\ nextSeq' = nextSeq + 1
  /\ attempts' = [attempts EXCEPT ![t] = @ + 1]
  /\ sn' = [sn EXCEPT ![p] = s]
  /\ entry' = [entry EXCEPT ![p] = e]
  /\ IF IsFull(s)
       THEN /\ ctrl' = CountDrop(ctrl, t)
            /\ UNCHANGED <<pc, lock>>
       ELSE /\ lock' = p
            /\ pc' = [pc EXCEPT ![p] = "copy"]
            /\ UNCHANGED ctrl
  /\ UNCHANGED <<queue, is_wakeup_get_valid, wakeup_get, signals, accepted,
                 consumer, delivered, released>>

(* memcpy of the entry into queue->queue[sn.put_behind]           *)
EnqueueCopy(p) ==
  /\ pc[p] = "copy"
  /\ queue' = [queue EXCEPT ![sn[p].put_behind] = entry[p]]
  /\ pc' = [pc EXCEPT ![p] = "publish"]
  /\ UNCHANGED <<ctrl, lock, entry, sn, is_wakeup_get_valid, wakeup_get,
                 signals, nextSeq, attempts, accepted, consumer, delivered, released>>

(* sn.put_behind = sn.put_ahead; both put cursors are set to it.  The two  *)
(* atomic_set calls are one step: a consumer reading either cursor sees    *)
(* the new value after the memcpy.                                         *)
EnqueuePublish(p) ==
  /\ pc[p] = "publish"
  /\ sn' = [sn EXCEPT ![p].put_behind = sn[p].put_ahead]
  /\ ctrl' = [ctrl EXCEPT !.put_ahead = sn[p].put_ahead,
                          !.put_behind = sn[p].put_ahead]
  /\ accepted' = Append(accepted, entry[p])
  /\ pc' = [pc EXCEPT ![p] = "wakeup"]
  /\ UNCHANGED <<queue, lock, entry, is_wakeup_get_valid, wakeup_get, signals,
                 nextSeq, attempts, consumer, delivered, released>>

(* enqueue_event has no barrier between the memcpy and the atomic_set of  *)
(* the put cursors (plain stores on every architecture), so on a weakly    *)
(* ordered CPU the consumer may see the new put_behind before the record.  *)
(* The record's stores are visible at the latest at uvm_spin_unlock, a     *)
(* release.  PublishBeforeCopy is the publish seen first; CopyLate is the  *)
(* record becoming visible after it, before the wakeup step and unlock.   *)
PublishBeforeCopy(p) ==
  /\ pc[p] = "copy"
  /\ ctrl' = [ctrl EXCEPT !.put_ahead = sn[p].put_ahead,
                          !.put_behind = sn[p].put_ahead]
  /\ accepted' = Append(accepted, entry[p])
  /\ pc' = [pc EXCEPT ![p] = "copyLate"]
  /\ UNCHANGED <<queue, lock, entry, sn, is_wakeup_get_valid, wakeup_get, signals,
                 nextSeq, attempts, consumer, delivered, released>>

CopyLate(p) ==
  /\ pc[p] = "copyLate"
  /\ queue' = [queue EXCEPT ![sn[p].put_behind] = entry[p]]
  /\ sn' = [sn EXCEPT ![p].put_behind = sn[p].put_ahead]
  /\ pc' = [pc EXCEPT ![p] = "wakeup"]
  /\ UNCHANGED <<ctrl, lock, entry, is_wakeup_get_valid, wakeup_get, signals,
                 nextSeq, attempts, accepted, consumer, delivered, released>>

(* Read get_ahead; signal the wait queue unless a wakeup was already       *)
(* signalled for this very get_ahead value; unlock.                        *)
EnqueueWakeup(p) ==
  LET get == ctrl.get_ahead
      signal == /\ QueueNeedsWakeup(sn[p].put_behind, get)
                /\ ~(is_wakeup_get_valid /\ wakeup_get = get)
  IN
  /\ pc[p] = "wakeup"
  /\ IF signal
       THEN /\ is_wakeup_get_valid' = TRUE
            /\ wakeup_get' = get
            /\ signals' = signals + 1
       ELSE UNCHANGED <<is_wakeup_get_valid, wakeup_get, signals>>
  /\ pc' = [pc EXCEPT ![p] = "idle"]
  /\ lock' = NoHolder
  /\ UNCHANGED <<ctrl, queue, entry, sn, nextSeq, attempts, accepted, consumer,
                 delivered, released>>

-----------------------------------------------------------------------------
(* The honest consumer (environment): claim the slot at get_ahead when     *)
(* put_behind is ahead of it, read the slot, then release it by advancing  *)
(* get_behind.                                                             *)
ConsumerClaim ==
  /\ consumer.step = "claim"
  /\ ctrl.get_ahead /= ctrl.put_behind
  /\ consumer' = [step |-> "read", slot |-> ctrl.get_ahead]
  /\ ctrl' = [ctrl EXCEPT !.get_ahead = QueueMask(@ + 1)]
  /\ UNCHANGED <<queue, prodVars, is_wakeup_get_valid, wakeup_get, signals,
                 nextSeq, attempts, accepted, delivered, released>>

ConsumerRead ==
  /\ consumer.step = "read"
  /\ delivered' = Append(delivered, queue[consumer.slot])
  /\ consumer' = [consumer EXCEPT !.step = "release"]
  /\ UNCHANGED <<ctrl, queue, prodVars, is_wakeup_get_valid, wakeup_get,
                 signals, nextSeq, attempts, accepted, released>>

ConsumerRelease ==
  /\ consumer.step = "release"
  /\ ctrl' = [ctrl EXCEPT !.get_behind = QueueMask(@ + 1)]
  /\ consumer' = [consumer EXCEPT !.step = "claim"]
  /\ released' = released + 1
  /\ UNCHANGED <<queue, prodVars, is_wakeup_get_valid, wakeup_get, signals,
                 nextSeq, attempts, accepted, delivered>>

-----------------------------------------------------------------------------
Init ==
  /\ ctrl = [get_ahead |-> 0, get_behind |-> 0, put_ahead |-> 0,
             put_behind |-> 0, dropped |-> [t \in EventTypes |-> 0]]
  /\ queue = [i \in Slots |-> NoRecord]
  /\ lock = NoHolder
  /\ pc = [p \in Producers |-> "idle"]
  /\ entry = [p \in Producers |-> NoRecord]
  /\ sn = [p \in Producers |-> TakeSnapshot(ctrl)]
  /\ is_wakeup_get_valid = FALSE
  /\ wakeup_get = 0
  /\ signals = 0
  /\ nextSeq = 0
  /\ attempts = [t \in EventTypes |-> 0]
  /\ accepted = <<>>
  /\ consumer = [step |-> "claim", slot |-> 0]
  /\ delivered = <<>>
  /\ released = 0

(* Stores become visible in program order (a strongly ordered CPU).      *)
Next ==
  \/ \E p \in Producers, t \in EventTypes : EnqueueBegin(p, t)
  \/ \E p \in Producers : EnqueueCopy(p) \/ EnqueuePublish(p) \/ EnqueueWakeup(p)
  \/ ConsumerClaim \/ ConsumerRead \/ ConsumerRelease

Spec == Init /\ [][Next]_vars

(* A weakly ordered CPU: the record may also become visible after the     *)
(* cursor publish.                                                         *)
WeakNext == Next \/ \E p \in Producers : PublishBeforeCopy(p) \/ CopyLate(p)

WeakSpec == Init /\ [][WeakNext]_vars

-----------------------------------------------------------------------------
TypeOK ==
  /\ ctrl.dropped \in [EventTypes -> 0 .. MaxAttempts]
  /\ queue \in [Slots -> Records \cup {NoRecord}]
  /\ lock \in Producers \cup {NoHolder}
  /\ pc \in [Producers -> {"idle", "copy", "publish", "copyLate", "wakeup"}]
  /\ is_wakeup_get_valid \in BOOLEAN
  /\ signals \in 0 .. MaxAttempts
  /\ nextSeq \in 0 .. MaxAttempts
  /\ accepted \in Seq(Records)
  /\ delivered \in Seq(Records \cup {NoRecord})

(* Records of type t between the snapshot and the publish step.           *)
InFlight(t) ==
  Cardinality({p \in Producers : pc[p] \in {"copy", "publish"} /\ entry[p].type = t})

CountOfType(s, t) == Cardinality({i \in 1 .. Len(s) : s[i].type = t})

(* FIFO without corruption (honest consumer): the records the consumer     *)
(* reads are exactly the published records, in publication order, with    *)
(* none skipped, duplicated or overwritten before being read.  Breaks if   *)
(* the full check of enqueue_event lets a producer overwrite an unreleased *)
(* slot or publish the cursor before the memcpy.                           *)
FifoDelivery == IsPrefix(delivered, accepted)

(* No silent loss: every enqueue_event call for event type t is either     *)
(* still in its critical section, published, or counted in                *)
(* ctrl->dropped[t]: a full ring loses records only visibly.              *)
NoSilentLoss ==
  \A t \in EventTypes :
    attempts[t] = CountOfType(accepted, t) + ctrl.dropped[t] + InFlight(t)

(* Refinement (honest consumer): the ring implements LossyQueue, the      *)
(* contract of the event queue.  Its abstract FIFO is the published       *)
(* records the consumer has not released (the slots enqueue_event's full  *)
(* check must not reuse), its output the records read and released, and  *)
(* its drop counters are ctrl->dropped.  An enqueue takes effect at the   *)
(* drop in the full check or at the publish of put_behind; a take at the  *)
(* consumer's release of the slot.  Breaks if a record is dropped while   *)
(* more than one slot is free, published into a full ring, or overwritten *)
(* before the consumer read it.                                            *)
Abs == INSTANCE LossyQueue
         WITH Capacity <- QueueSize,
              buf      <- SubSeq(accepted, released + 1, Len(accepted)),
              dropped  <- ctrl.dropped,
              out      <- SubSeq(delivered, 1, released)

ImplementsLossyQueue == Abs!Spec

=============================================================================
