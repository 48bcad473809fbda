---------------------------- MODULE MCRingQueue ----------------------------
(* Model-checking instance of RingQueue: a ring of four slots (three       *)
(* usable), two producer threads, two event types and six enqueue calls, *)
(* enough to fill the ring, drop, wrap the cursors and race two producers  *)
(* against the consumer.                                                   *)
EXTENDS RingQueue, TLC

CONSTANTS p1, p2, e1, e2

MCProducers  == {p1, p2}
MCEventTypes == {e1, e2}

ProducerSymmetry == Permutations(MCProducers)
=============================================================================
