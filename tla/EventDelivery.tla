--------------------------- MODULE EventDelivery ---------------------------
(***************************************************************************)
(* What the outbox, the queues and the ProcessedEvent markers together     *)
(* promise a business module: the work of a consumer takes effect at most  *)
(* once for an event, and only for an event whose transaction committed.   *)
(* Outbox.tla, with its relays, retries and crashes, implements it (the    *)
(* property EffectsHappenOnce).                                            *)
(***************************************************************************)
CONSTANTS Events, Queues, Route

Deliveries == {d \in Events \X Queues : d[2] \in Route[d[1]]}

VARIABLES
  recorded,  \* the events whose business transaction committed
  done       \* the deliveries whose work took effect

Init == recorded = {} /\ done = {}

Record(e) ==
  /\ e \notin recorded
  /\ recorded' = recorded \union {e}
  /\ UNCHANGED done

Deliver(d) ==
  /\ d[1] \in recorded
  /\ d \notin done
  /\ done' = done \union {d}
  /\ UNCHANGED recorded

Next == (\E e \in Events : Record(e)) \/ (\E d \in Deliveries : Deliver(d))

Spec == Init /\ [][Next]_<< recorded, done >>

=============================================================================
