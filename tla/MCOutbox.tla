------------------------------ MODULE MCOutbox ------------------------------
(* Small instances of Outbox for TLC. *)
EXTENDS Outbox, TLC

CONSTANTS e1, e2, q1, q2, i1, i2

(* One event that fans out to two queues. *)
FanOut == e1 :> {q1, q2}
OneQueue == e1 :> {q1}

(* One mapped event and one that no queue is mapped to. *)
WithUnmapped == e1 :> {q1, q2} @@ e2 :> {}

(* Both instances serve the one queue; one instance serves one of two. *)
TwoWorkers == {i1, i2} \X {q1}
OneWorker == {<<i1, q1>>}

=============================================================================
