----------------------------- MODULE MCLockOrder -----------------------------
(* Four threads on one VA space with one queue: a tracker close; a driver *)
(* thread that per call runs the fault callback, a broadcast, migration-  *)
(* begin or a push's completion callback; the g_tools_queue worker running *)
(* a migration or a replay item; and a flush.                              *)
EXTENDS LockOrder

CONSTANTS tClose, tDriver, tWorker, tFlush

MCThreads == {tClose, tDriver, tWorker, tFlush}
MCRole ==
  (tClose :> {"close"})
  @@ (tDriver :> {"fault", "broadcast", "migbegin", "complete"})
  @@ (tWorker :> {"worker", "replayworker"})
  @@ (tFlush :> {"flush"})
====
