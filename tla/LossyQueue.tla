----------------------------- MODULE LossyQueue -----------------------------
(***************************************************************************)
(* What a tools event queue promises its consumer: a FIFO of at most       *)
(* Capacity - 1 records (one slot is reserved to tell full from empty).   *)
(* An enqueue either appends its record or, when the queue is full,        *)
(* counts it in the visible drop counter of its event type; it never       *)
(* blocks and never overwrites.  The consumer takes records from the head, *)
(* in order.                                                               *)
(***************************************************************************)
EXTENDS Naturals, Sequences

CONSTANTS Capacity, Records, EventTypes

VARIABLES
  buf,      \* records enqueued and not yet taken, oldest first
  dropped,  \* per event type: records discarded because the queue was full
  out       \* records taken by the consumer, in order

avars == <<buf, dropped, out>>

Full == Len(buf) = Capacity - 1

Init ==
  /\ buf = <<>>
  /\ dropped = [t \in EventTypes |-> 0]
  /\ out = <<>>

(* One enqueue call: append, or count a drop when full.                   *)
Enqueue(r) ==
  /\ IF Full
       THEN /\ dropped' = [dropped EXCEPT ![r.type] = @ + 1]
            /\ UNCHANGED buf
       ELSE /\ buf' = Append(buf, r)
            /\ UNCHANGED dropped
  /\ UNCHANGED out

Take ==
  /\ buf /= <<>>
  /\ out' = Append(out, Head(buf))
  /\ buf' = Tail(buf)
  /\ UNCHANGED dropped

Next == (\E r \in Records : Enqueue(r)) \/ Take

Spec == Init /\ [][Next]_avars

=============================================================================
