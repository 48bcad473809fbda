----------------------- MODULE MCSubscriptionRegistry -----------------------
(* Two VA spaces; in the first a queue and a counter tracker, in the      *)
(* second a queue tracker; one GPU.  Counter and event indices overlap as *)
(* they do in the driver, where both enumerations start at zero:          *)
(* HtD 0, DtH 1, CPU fault 2, GPU fault 3 for counters and CPU fault 1,   *)
(* migration 2, GPU fault 3 for events.  In the delivery run index 4     *)
(* stands for a broadcast type (fault replay) and 5 for an immediate one  *)
(* (thrashing); the other runs record neither.                            *)
EXTENDS SubscriptionRegistry, TLC

CONSTANTS s1, s2, q1, q2, c1, g1

MCSpaces == {s1, s2}
MCTrackers == {q1, c1, q2}
MCQueueTrackers == {q1, q2}
MCTrackerSpace == (q1 :> s1) @@ (c1 :> s1) @@ (q2 :> s2)
MCGpus == {g1}
MCQueueMasks == {{1}, {1, 2}, {3}}
(* For the delivery run: a broadcast-only subscription, which needs no    *)
(* perf callback, and ones that also need the fault callback.             *)
MCDeliveryQueueMasks == {{4}, {1, 4}, {3, 5}}
MCDeliveryCounterMasks == {{2}}
MCCounterMasks == {{2}, {2, 0}, {3, 1}}

(* recv and owed are written and never read by a guard, so two states that *)
(* differ only in them have the same futures; the safety run, whose state *)
(* properties do not mention them, identifies such states.                *)
SafetyView == <<tstate, scope, subscribed, eventCount, enabled, registered,
                counter, expected, records>>
====
