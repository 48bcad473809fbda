--------------------------- MODULE DeferredBatches --------------------------
(***************************************************************************)
(* What the delayed-notification pipeline promises, without channels,      *)
(* callbacks or a worker queue.  A batch of records is attached to an      *)
(* asynchronous operation (a push): it is opened with a start timestamp,   *)
(* grows by records stamped with later timestamps while the operation is   *)
(* being built, is closed when the GPU has finished the operation, and is  *)
(* then delivered exactly once, all of its events at once.  A migration    *)
(* batch yields one event per record, each beginning where the previous    *)
(* one ended; a map-remote batch one event per record with its own end     *)
(* time; a replay batch a single event at its start time.                  *)
(***************************************************************************)
EXTENDS Naturals, Sequences

CONSTANTS
  Batches,     \* the operations that may carry a batch
  MaxDetails,  \* records per batch
  NoBatch      \* no batch attached

Kinds  == {"migration", "map_remote", "replay"}
Stamps == 0 .. MaxDetails + 1

VARIABLES
  batch,  \* per operation: NoBatch or [kind, start, details, state]
  out     \* events delivered, in delivery order

bvars == <<batch, out>>

(* The events of a migration batch: a chain of intervals from `from`.     *)
RECURSIVE Chain(_, _, _)
Chain(b, from, ds) ==
  IF ds = <<>> THEN <<>>
  ELSE << [push |-> b, kind |-> "migration", begin |-> from, end |-> Head(ds)] >>
         \o Chain(b, Head(ds), Tail(ds))

BatchEvents(b) ==
  LET t == batch[b]
  IN  CASE t.kind = "migration"  -> Chain(b, t.start, t.details)
        [] t.kind = "map_remote" ->
             [k \in DOMAIN t.details |->
                [push |-> b, kind |-> "map_remote", begin |-> 0, end |-> t.details[k]]]
        [] t.kind = "replay"     ->
             << [push |-> b, kind |-> "replay", begin |-> 0, end |-> t.start] >>

(* The latest timestamp of an open batch.                                  *)
LastStamp(t) == IF t.details = <<>> THEN t.start ELSE t.details[Len(t.details)]

Init ==
  /\ batch = [b \in Batches |-> NoBatch]
  /\ out = <<>>

(* A batch is opened, possibly with its first record in the same step.    *)
Open(b) ==
  /\ batch[b] = NoBatch
  /\ \E k \in Kinds, st \in Stamps, ds \in {<<>>} \cup {<<x>> : x \in Stamps} :
       /\ k = "replay" => ds = <<>>
       /\ \A i \in DOMAIN ds : ds[i] > st
       /\ batch' = [batch EXCEPT ![b] = [kind |-> k, start |-> st, details |-> ds,
                                         state |-> "open"]]
  /\ UNCHANGED out

(* One more record, stamped after everything already in the batch.         *)
AddRecord(b) ==
  LET t == batch[b]
  IN  /\ t /= NoBatch
      /\ t.state = "open" /\ t.kind /= "replay"
      /\ Len(t.details) < MaxDetails
      /\ \E x \in Stamps :
           /\ x > LastStamp(t)
           /\ batch' = [batch EXCEPT ![b].details = Append(@, x)]
      /\ UNCHANGED out

Close(b) ==
  LET t == batch[b]
  IN  /\ t /= NoBatch /\ t.state = "open"
      /\ batch' = [batch EXCEPT ![b].state = "done"]
      /\ UNCHANGED out

Deliver(b) ==
  LET t == batch[b]
  IN  /\ t /= NoBatch /\ t.state = "done"
      /\ out' = out \o BatchEvents(b)
      /\ batch' = [batch EXCEPT ![b].state = "out"]

Next == \E b \in Batches : Open(b) \/ AddRecord(b) \/ Close(b) \/ Deliver(b)

(* [][Next]_bvars, with the stuttering disjunct written first: most steps *)
(* of an implementation leave the batches unchanged, and TLC then skips   *)
(* evaluating Next when it checks this as a property.                     *)
Spec == Init /\ [][UNCHANGED bvars \/ Next]_bvars

=============================================================================
