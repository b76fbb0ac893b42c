------------------------------- MODULE Outbox -------------------------------
(***************************************************************************)
(* The way of a domain event from the transaction that records it to the   *)
(* consumers that react to it: the OutboxEvent row, the publishers that    *)
(* claim and relay it, one BullMQ job per mapped queue, and the workers    *)
(* that run the consumer's work inside EventIdempotencyService.run.        *)
(*                                                                         *)
(* Every instance of the application runs a publisher and a worker for     *)
(* each queue it serves; any of them may crash between any two steps, and may be so slow  *)
(* that the others take it for crashed.                                    *)
(*                                                                         *)
(* A claim takes every claimable row: CLAIM_BATCH_SIZE (20) exceeds the    *)
(* events of the instances checked.                                        *)
(***************************************************************************)
EXTENDS QueueJob, FiniteSets

CONSTANTS
  Events,
  Queues,
  Route,        \* Route[e]: the queues mapped to e's type, {} when unmapped
  Workers,      \* which instance has a worker on which queue
  MaxAttempts   \* MAX_ATTEMPTS, 10 in the code

ASSUME RouteAssumption == Route \in [Events -> SUBSET Queues]
ASSUME WorkerAssumption == Workers \subseteq Instances \X Queues
ASSUME AttemptsAssumption == MaxAttempts \in Nat \ {0}

Deliveries == {d \in Events \X Queues : d[2] \in Route[d[1]]}

VARIABLES
  row,        \* row[e]: status and attempts of the OutboxEvent row
  ready,      \* the events whose availableAt has passed
  stuck,      \* the events claimed more than STUCK_PROCESSING_MS ago
  publisher,  \* publisher[i]: the batch instance i claimed and what it relays
  adds,       \* queue.add commands that outlive the relay that sent them
  job,        \* job[d]: the job of delivery d
  run,        \* run[w]: the job that worker w runs
  processed,  \* the deliveries that have their ProcessedEvent row
  applied     \* applied[d]: how often the work of d was committed

vars == << row, ready, stuck, publisher, adds, job, run, processed, applied >>

-----------------------------------------------------------------------------
(* Types *)

(* NONE: the business transaction has not committed. *)
RowStatuses == {"NONE", "PENDING", "PROCESSING", "PUBLISHED", "FAILED"}
EventRow == [status : RowStatuses, attempts : 0 .. MaxAttempts]

(* The columns RETURNING hands to the publisher. *)
Claim == [event : Events, attempts : 0 .. MaxAttempts - 1]

Idle == [pc |-> "idle"]
PublisherState ==
  {Idle}
    \union [pc : {"batch"}, batch : SUBSET Claim]
    \union [pc : {"relay"}, batch : SUBSET Claim, claim : Claim,
            left : SUBSET Queues]

WorkerState == {Idle} \union
  [pc : {"started", "working", "finished"}, event : Events]

TypeOK ==
  /\ row \in [Events -> EventRow]
  /\ ready \in SUBSET Events
  /\ stuck \in SUBSET Events
  /\ publisher \in [Instances -> PublisherState]
  /\ adds \in SUBSET Deliveries
  /\ job \in [Deliveries -> JobRow]
  /\ run \in [Workers -> WorkerState]
  /\ processed \in SUBSET Deliveries
  /\ applied \in [Deliveries -> Nat]

-----------------------------------------------------------------------------
(* Helpers *)

(* The WHERE clause of claimBatch. *)
Claimable_PendingOnly ==
  {e \in Events : row[e].status = "PENDING" /\ e \in ready}
Claimable ==
  {e \in Events : \/ row[e].status = "PENDING" /\ e \in ready
                  \/ row[e].status = "PROCESSING" /\ e \in stuck}

(* The delivery that worker w runs. *)
Running(w) == << run[w].event, w[2] >>

(* What is left of a relay when its publisher turns away from it: the adds  *)
(* already sent may still reach Redis.                                      *)
LateAdds(i) == {publisher[i].claim.event} \X publisher[i].left

-----------------------------------------------------------------------------
(* Recording: OutboxService.record in the business transaction *)

Record(e) ==
  /\ row[e].status = "NONE"
  /\ row' = [row EXCEPT ![e] = [status |-> "PENDING", attempts |-> 0]]
  /\ ready' = ready \union {e}
  /\ UNCHANGED << stuck, publisher, adds, job, run, processed, applied >>

-----------------------------------------------------------------------------
(* OutboxPublisherService *)

(* claimBatch: one UPDATE, so no row is in two claims made at once. *)
ClaimBatch(i) ==
  /\ publisher[i].pc = "idle"
  /\ Claimable # {}
  /\ publisher' = [publisher EXCEPT ![i] =
       [pc |-> "batch",
        batch |-> {[event |-> e, attempts |-> row[e].attempts] :
                     e \in Claimable}]]
  /\ row' = [e \in Events |->
               IF e \in Claimable
               THEN [row[e] EXCEPT !.status = "PROCESSING"]
               ELSE row[e]]
  /\ stuck' = stuck \ Claimable
  /\ UNCHANGED << ready, adds, job, run, processed, applied >>

(* publishOne on the next row of the batch: every add is sent at once. *)
StartRelay(i, c) ==
  /\ publisher[i].pc = "batch"
  /\ c \in publisher[i].batch
  /\ Route[c.event] # {}
  /\ publisher' = [publisher EXCEPT ![i] =
       [pc |-> "relay", batch |-> publisher[i].batch \ {c}, claim |-> c,
        left |-> Route[c.event]]]
  /\ UNCHANGED << row, ready, stuck, adds, job, run, processed, applied >>

(* publishOne on an event type no queue is mapped to. *)
LeaveUnmapped(i, c) ==
  /\ publisher[i].pc = "batch"
  /\ c \in publisher[i].batch
  /\ Route[c.event] = {}
  /\ row' = [row EXCEPT ![c.event] = [@ EXCEPT !.status = "PENDING"]]
  /\ ready' = ready \ {c.event}
  /\ publisher' = [publisher EXCEPT ![i] =
       [pc |-> "batch", batch |-> publisher[i].batch \ {c}]]
  /\ UNCHANGED << stuck, adds, job, run, processed, applied >>

(* Redis confirms one of the adds. *)
Enqueue(i, q) ==
  /\ publisher[i].pc = "relay"
  /\ q \in publisher[i].left
  /\ LET d == << publisher[i].claim.event, q >>
     IN job' = [job EXCEPT ![d] = Added(job[d])]
  /\ publisher' = [publisher EXCEPT ![i] =
       [pc |-> "relay", batch |-> publisher[i].batch,
        claim |-> publisher[i].claim, left |-> publisher[i].left \ {q}]]
  /\ UNCHANGED << row, ready, stuck, adds, run, processed, applied >>

(* When a relay counts as confirmed: Promise.all, every add has resolved. *)
Confirmed_ByAny(i) == publisher[i].left # Route[publisher[i].claim.event]
Confirmed(i) == publisher[i].left = {}

MarkPublished(i) ==
  /\ publisher[i].pc = "relay"
  /\ Confirmed(i)
  /\ row' = [row EXCEPT ![publisher[i].claim.event] =
               [@ EXCEPT !.status = "PUBLISHED"]]
  /\ publisher' = [publisher EXCEPT ![i] =
       [pc |-> "batch", batch |-> publisher[i].batch]]
  /\ UNCHANGED << ready, stuck, adds, job, run, processed, applied >>

Exhausted(attempts) == attempts >= MaxAttempts

(* handlePublishFailure: an add was rejected, or the PUBLISHED update was.  *)
(* The attempts are counted from the claim, and the row is written blindly. *)
FailRelay(i) ==
  LET c == publisher[i].claim IN
  /\ publisher[i].pc = "relay"
  /\ row' = [row EXCEPT ![c.event] =
               [status |-> IF Exhausted(c.attempts + 1)
                           THEN "FAILED" ELSE "PENDING",
                attempts |-> c.attempts + 1]]
  /\ ready' = ready \ {c.event}
  /\ adds' = adds \union LateAdds(i)
  /\ publisher' = [publisher EXCEPT ![i] =
       [pc |-> "batch", batch |-> publisher[i].batch]]
  /\ UNCHANGED << stuck, job, run, processed, applied >>

(* The poll is over, and polling is reset. *)
EndPoll(i) ==
  /\ publisher[i] = [pc |-> "batch", batch |-> {}]
  /\ publisher' = [publisher EXCEPT ![i] = Idle]
  /\ UNCHANGED << row, ready, stuck, adds, job, run, processed, applied >>

(* The instance crashes, or PostgreSQL fails in handlePublishFailure and    *)
(* pollOnce gives the rest of its batch up: the rows stay PROCESSING.       *)
AbandonBatch(i) ==
  /\ publisher[i].pc # "idle"
  /\ adds' = IF publisher[i].pc = "relay" THEN adds \union LateAdds(i) ELSE adds
  /\ publisher' = [publisher EXCEPT ![i] = Idle]
  /\ UNCHANGED << row, ready, stuck, job, run, processed, applied >>

(* An add that outlived its relay reaches Redis (or never does). *)
LateAdd(d) ==
  /\ d \in adds
  /\ job' = [job EXCEPT ![d] = Added(job[d])]
  /\ adds' = adds \ {d}
  /\ UNCHANGED << row, ready, stuck, publisher, run, processed, applied >>

(* availableAt passes; a claim turns STUCK_PROCESSING_MS old. *)
BecomeReady(e) ==
  /\ row[e].status = "PENDING" /\ e \notin ready
  /\ ready' = ready \union {e}
  /\ UNCHANGED << row, stuck, publisher, adds, job, run, processed, applied >>

BecomeStuck(e) ==
  /\ row[e].status = "PROCESSING" /\ e \notin stuck
  /\ stuck' = stuck \union {e}
  /\ UNCHANGED << row, ready, publisher, adds, job, run, processed, applied >>

-----------------------------------------------------------------------------
(* BullMQ, as enqueueDomainEvent configures it *)

StartJob(w, e) ==
  LET d == << e, w[2] >> IN
  /\ d \in Deliveries
  /\ run[w].pc = "idle"
  /\ job[d].state = "waiting"
  /\ job' = [job EXCEPT ![d] = Taken(job[d], w[1])]
  /\ run' = [run EXCEPT ![w] = [pc |-> "started", event |-> e]]
  /\ UNCHANGED << row, ready, stuck, publisher, adds, processed, applied >>

Stall(d) ==
  /\ job[d].state = "active"
  /\ job' = [job EXCEPT ![d] = Stalled(job[d])]
  /\ UNCHANGED << row, ready, stuck, publisher, adds, run, processed, applied >>

(* removeOnComplete: only the last 1000 completed jobs are kept, and with   *)
(* the job its id is forgotten.                                             *)
ForgetJob(d) ==
  /\ job[d].state = "done"
  /\ job' = [job EXCEPT ![d] = NoJob]
  /\ UNCHANGED << row, ready, stuck, publisher, adds, run, processed, applied >>

-----------------------------------------------------------------------------
(* DomainEventConsumer and EventIdempotencyService.run *)

(* The insert of the marker waits for a transaction that has inserted the   *)
(* same one and is still open.                                              *)
MarkerFree_NotAwaited(d) == TRUE
MarkerFree(d) ==
  \A w \in Workers : run[w].pc = "working" => Running(w) # d

(* The insert violates the unique index: the marker is committed. *)
Duplicate_SeenEarly(d) == d \in processed \/ ~MarkerFree(d)
Duplicate(d) == d \in processed

(* run returns 'skipped'. *)
SkipWork(w) ==
  /\ run[w].pc = "started"
  /\ Duplicate(Running(w))
  /\ run' = [run EXCEPT ![w] = [@ EXCEPT !.pc = "finished"]]
  /\ UNCHANGED << row, ready, stuck, publisher, adds, job, processed, applied >>

BeginWork(w) ==
  /\ run[w].pc = "started"
  /\ MarkerFree(Running(w))
  /\ ~Duplicate(Running(w))
  /\ run' = [run EXCEPT ![w] = [@ EXCEPT !.pc = "working"]]
  /\ UNCHANGED << row, ready, stuck, publisher, adds, job, processed, applied >>

(* Marker and work are committed together. *)
CommitWork(w) ==
  /\ run[w].pc = "working"
  /\ processed' = processed \union {Running(w)}
  /\ applied' = [applied EXCEPT ![Running(w)] = @ + 1]
  /\ run' = [run EXCEPT ![w] = [@ EXCEPT !.pc = "finished"]]
  /\ UNCHANGED << row, ready, stuck, publisher, adds, job >>

(* The work throws: the transaction rolls back, and the job is rejected. *)
FailWork(w) ==
  /\ run[w].pc \in {"started", "working"}
  /\ job' = [job EXCEPT ![Running(w)] = Rejected(job[Running(w)], w[1])]
  /\ run' = [run EXCEPT ![w] = Idle]
  /\ UNCHANGED << row, ready, stuck, publisher, adds, processed, applied >>

(* The worker reports the job complete; without the lock nobody listens. *)
FinishJob(w) ==
  /\ run[w].pc = "finished"
  /\ job' = [job EXCEPT ![Running(w)] = Completed(job[Running(w)], w[1])]
  /\ run' = [run EXCEPT ![w] = Idle]
  /\ UNCHANGED << row, ready, stuck, publisher, adds, processed, applied >>

(* The instance dies; an open transaction is rolled back. *)
CrashWorker(w) ==
  /\ run[w].pc # "idle"
  /\ run' = [run EXCEPT ![w] = Idle]
  /\ UNCHANGED << row, ready, stuck, publisher, adds, job, processed, applied >>

-----------------------------------------------------------------------------
(* The specification *)

Init ==
  /\ row = [e \in Events |-> [status |-> "NONE", attempts |-> 0]]
  /\ ready = {}
  /\ stuck = {}
  /\ publisher = [i \in Instances |-> Idle]
  /\ adds = {}
  /\ job = [d \in Deliveries |-> NoJob]
  /\ run = [w \in Workers |-> Idle]
  /\ processed = {}
  /\ applied = [d \in Deliveries |-> 0]

StartNext(i) == \E c \in Claim : StartRelay(i, c) \/ LeaveUnmapped(i, c)
EnqueueNext(i) == \E q \in Queues : Enqueue(i, q)
EndRelay(i) == MarkPublished(i) \/ FailRelay(i)

Next ==
  \/ \E e \in Events : Record(e)
  \/ \E i \in Instances : ClaimBatch(i)
  \/ \E i \in Instances : StartNext(i)
  \/ \E i \in Instances : EnqueueNext(i)
  \/ \E i \in Instances : EndRelay(i)
  \/ \E i \in Instances : EndPoll(i)
  \/ \E i \in Instances : AbandonBatch(i)
  \/ \E d \in Deliveries : LateAdd(d)
  \/ \E e \in Events : BecomeReady(e)
  \/ \E e \in Events : BecomeStuck(e)
  \/ \E w \in Workers, e \in Events : StartJob(w, e)
  \/ \E d \in Deliveries : Stall(d)
  \/ \E d \in Deliveries : ForgetJob(d)
  \/ \E w \in Workers : SkipWork(w)
  \/ \E w \in Workers : BeginWork(w)
  \/ \E w \in Workers : CommitWork(w)
  \/ \E w \in Workers : FailWork(w)
  \/ \E w \in Workers : FinishJob(w)
  \/ \E w \in Workers : CrashWorker(w)

(* Some instance polls every two seconds, and the instances do not crash at *)
(* the same point of every single poll; time passes; waiting jobs are taken *)
(* and a worker that runs one goes on until it crashes; BullMQ checks for   *)
(* stalled jobs.                                                            *)
DeliveryFairness ==
  /\ SF_vars(\E i \in Instances : ClaimBatch(i))
  /\ SF_vars(\E i \in Instances : StartNext(i))
  /\ SF_vars(\E i \in Instances : EnqueueNext(i))
  /\ SF_vars(\E i \in Instances : EndRelay(i))
  /\ WF_vars(\E i \in Instances : EndPoll(i))
  /\ \A e \in Events : WF_vars(BecomeReady(e)) /\ WF_vars(BecomeStuck(e))
  /\ SF_vars(\E w \in Workers, e \in Events : StartJob(w, e))
  /\ WF_vars(\E w \in Workers : SkipWork(w) \/ BeginWork(w))
  /\ WF_vars(\E w \in Workers : CommitWork(w) \/ FailWork(w))
  /\ WF_vars(\E w \in Workers : FinishJob(w))
  /\ \A d \in Deliveries : WF_vars(Stall(d))

Spec == Init /\ [][Next]_vars
FairSpec == Spec /\ DeliveryFairness

-----------------------------------------------------------------------------
(* Properties *)

(* A PUBLISHED event is in every queue it is mapped to, or was handled      *)
(* there: no relay that failed half-way, no reclaimed slow publisher and no *)
(* forgotten job loses it (publishOne, "never mark PUBLISHED optimistically *)
(* or partially").                                                          *)
NothingLost ==
  \A d \in Deliveries :
    row[d[1]].status = "PUBLISHED" =>
      job[d].state \in {"waiting", "active", "failed"} \/ d \in processed

(* A job completes only when its work is committed: a duplicate that skips  *)
(* never answers for a transaction that later rolls back.                   *)
CompletedMeansApplied ==
  \A d \in Deliveries : job[d].state = "done" => applied[d] = 1

(* The work of a consumer takes effect at most once per event, whatever is  *)
(* published, redelivered or stalled in between.                            *)
Delivery == INSTANCE EventDelivery WITH
  recorded <- {e \in Events : row[e].status # "NONE"},
  done <- {d \in Deliveries : applied[d] > 0}
EffectsHappenOnce ==
  /\ Delivery!Spec
  /\ [][\A d \in Deliveries : applied[d] > 0 => applied'[d] = applied[d]]_vars

(* An event that was recorded is applied by each of its consumers, unless   *)
(* its row is parked as FAILED or its job used all its attempts: no crash   *)
(* leaves it stuck for ever.                                                *)
EventuallyApplied ==
  \A d \in Deliveries :
    row[d[1]].status # "NONE" ~>
      \/ d \in processed
      \/ job[d].state = "failed"
      \/ row[d[1]].status = "FAILED"

=============================================================================
