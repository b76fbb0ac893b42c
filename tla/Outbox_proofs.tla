---------------------------- MODULE Outbox_proofs ----------------------------
(***************************************************************************)
(* Proofs about Outbox, for every set of events and queues, every routing, *)
(* any number of instances and workers, and any limits.                    *)
(***************************************************************************)
EXTENDS Outbox, QueueJob_proofs

-----------------------------------------------------------------------------
(* Type correctness.  A row that can be claimed has attempts left, so no     *)
(* failure counts past MaxAttempts; a relay sends to queues of its event; a  *)
(* worker runs a job that exists in its queue.                               *)

RowInv ==
  \A e \in Events :
    /\ row[e].status \in {"PENDING", "PROCESSING"} => row[e].attempts < MaxAttempts
    /\ Route[e] = {} => row[e].attempts = 0

ClaimInv ==
  \A i \in Instances :
    publisher[i].pc = "relay" =>
      /\ publisher[i].left \subseteq Route[publisher[i].claim.event]
      /\ Route[publisher[i].claim.event] # {}

RunInv == \A w \in Workers : run[w].pc # "idle" => Running(w) \in Deliveries

TypeInv == TypeOK /\ RowInv /\ ClaimInv /\ RunInv

BatchState == [pc : {"batch"}, batch : SUBSET Claim]
RelayState == [pc : {"relay"}, batch : SUBSET Claim, claim : Claim,
               left : SUBSET Queues]

LEMMA PublisherFields ==
  ASSUME TypeInv, NEW i \in Instances
  PROVE  /\ publisher[i].pc = "batch" => publisher[i] \in BatchState
         /\ publisher[i].pc = "relay" => publisher[i] \in RelayState
         /\ publisher[i].pc \in {"idle", "batch", "relay"}
  <1>1. publisher[i] \in {Idle} \union BatchState \union RelayState
    BY DEF TypeInv, TypeOK, PublisherState, BatchState, RelayState
  <1> QED
    BY <1>1 DEF BatchState, RelayState, Idle

LEMMA RunFields ==
  ASSUME TypeInv, NEW w \in Workers, run[w].pc # "idle"
  PROVE  /\ run[w] \in [pc : {"started", "working", "finished"}, event : Events]
         /\ Running(w) \in Deliveries
         /\ w[1] \in Instances
  BY WorkerAssumption DEF TypeInv, TypeOK, WorkerState, Idle, RunInv

LEMMA RelayDeliveries ==
  ASSUME TypeInv, NEW i \in Instances, publisher[i].pc = "relay"
  PROVE  /\ LateAdds(i) \subseteq Deliveries
         /\ \A q \in Queues : q \in publisher[i].left =>
              << publisher[i].claim.event, q >> \in Deliveries
  <1>1. publisher[i] \in RelayState
    BY PublisherFields
  <1>2. publisher[i].claim.event \in Events /\ publisher[i].left \subseteq Queues
    BY <1>1 DEF RelayState, Claim
  <1> QED
    BY <1>2 DEF TypeInv, ClaimInv, LateAdds, Deliveries

LEMMA TypeInit == Init => TypeInv
  BY NoJobIsSound, AttemptsAssumption
  DEF Init, TypeInv, TypeOK, RowInv, ClaimInv, RunInv, EventRow, RowStatuses,
      PublisherState, WorkerState, Idle

(* The steps of publishers, in terms of the row and the publisher written. *)
LEMMA RowWritten ==
  ASSUME TypeInv, NEW e \in Events, NEW r \in EventRow,
         row' = [row EXCEPT ![e] = r],
         r.status \in {"PENDING", "PROCESSING"} => r.attempts < MaxAttempts,
         Route[e] = {} => r.attempts = 0
  PROVE  row' \in [Events -> EventRow] /\ RowInv'
  BY DEF TypeInv, TypeOK, RowInv

LEMMA PublisherWritten ==
  ASSUME TypeInv, NEW i \in Instances, NEW p \in PublisherState,
         publisher' = [publisher EXCEPT ![i] = p],
         p.pc = "relay" => /\ p.left \subseteq Route[p.claim.event]
                           /\ Route[p.claim.event] # {}
  PROVE  publisher' \in [Instances -> PublisherState] /\ ClaimInv'
  BY DEF TypeInv, TypeOK, ClaimInv

LEMMA RunWritten ==
  ASSUME TypeInv, NEW w \in Workers, NEW r \in WorkerState,
         run' = [run EXCEPT ![w] = r],
         r.pc # "idle" => << r.event, w[2] >> \in Deliveries
  PROVE  run' \in [Workers -> WorkerState] /\ RunInv'
  <1>1. \A v \in Workers : run'[v] = IF v = w THEN r ELSE run[v]
    BY DEF TypeInv, TypeOK
  <1> QED
    BY <1>1 DEF TypeInv, TypeOK, RunInv, Running

LEMMA JobWritten ==
  ASSUME TypeInv, NEW d \in Deliveries, NEW j \in JobRow,
         job' = [job EXCEPT ![d] = j]
  PROVE  job' \in [Deliveries -> JobRow]
  BY DEF TypeInv, TypeOK

LEMMA StatesExist ==
  /\ Idle \in PublisherState /\ Idle.pc = "idle"
  /\ Idle \in WorkerState
  /\ BatchState \subseteq PublisherState
  /\ RelayState \subseteq PublisherState
  BY DEF PublisherState, BatchState, RelayState, WorkerState, Idle

LEMMA PublisherTypeStep ==
  ASSUME TypeInv, NEW i \in Instances,
         \/ ClaimBatch(i) \/ StartNext(i) \/ EnqueueNext(i) \/ EndRelay(i)
         \/ EndPoll(i) \/ AbandonBatch(i)
  PROVE  TypeInv'
  <1> USE StatesExist
  <1>1. CASE ClaimBatch(i)
    <2>1. \A e \in Claimable : row[e].attempts \in 0 .. MaxAttempts - 1
      BY AttemptsAssumption
      DEF Claimable, TypeInv, RowInv, TypeOK, EventRow
    <2> DEFINE p == [pc |-> "batch",
                     batch |-> {[event |-> e, attempts |-> row[e].attempts] :
                                  e \in Claimable}]
    <2>2. p \in BatchState
      BY <2>1 DEF BatchState, Claim, Claimable
    <2>3. publisher' = [publisher EXCEPT ![i] = p] /\ p.pc = "batch"
      BY <1>1 DEF ClaimBatch
    <2> HIDE DEF p
    <2>4. publisher' \in [Instances -> PublisherState] /\ ClaimInv'
      BY <2>2, <2>3, PublisherWritten
    <2>5. \A e \in Events : [row[e] EXCEPT !.status = "PROCESSING"] \in EventRow
      BY DEF TypeInv, TypeOK, EventRow, RowStatuses
    <2>6. row' \in [Events -> EventRow]
      BY <1>1, <2>5 DEF ClaimBatch, TypeInv, TypeOK
    <2>7. RowInv'
      <3>1. \A e \in Events :
              /\ row'[e].attempts = row[e].attempts
              /\ e \notin Claimable => row'[e] = row[e]
        BY <1>1 DEF ClaimBatch, TypeInv, TypeOK, EventRow
      <3> QED
        BY <2>1, <3>1, AttemptsAssumption DEF TypeInv, RowInv
    <2> QED
      BY <1>1, <2>4, <2>6, <2>7 DEF ClaimBatch, TypeInv, TypeOK, RunInv, Running
  <1>2. ASSUME NEW c \in Claim, StartRelay(i, c) PROVE TypeInv'
    <2>1. publisher[i] \in BatchState
      BY <1>2, PublisherFields DEF StartRelay
    <2> DEFINE p == [pc |-> "relay", batch |-> publisher[i].batch \ {c},
                     claim |-> c, left |-> Route[c.event]]
    <2>2. p \in RelayState
      BY <2>1, RouteAssumption DEF BatchState, RelayState, Claim
    <2>3. /\ publisher' = [publisher EXCEPT ![i] = p]
          /\ p.left = Route[p.claim.event] /\ Route[p.claim.event] # {}
      BY <1>2 DEF StartRelay
    <2> HIDE DEF p
    <2>4. publisher' \in [Instances -> PublisherState] /\ ClaimInv'
      BY <2>2, <2>3, PublisherWritten
    <2> QED
      BY <1>2, <2>4 DEF StartRelay, TypeInv, TypeOK, RowInv, RunInv, Running
  <1>3. ASSUME NEW c \in Claim, LeaveUnmapped(i, c) PROVE TypeInv'
    <2>1. publisher[i] \in BatchState
      BY <1>3, PublisherFields DEF LeaveUnmapped
    <2> DEFINE p == [pc |-> "batch", batch |-> publisher[i].batch \ {c}]
               r == [row[c.event] EXCEPT !.status = "PENDING"]
    <2>2. p \in BatchState
      BY <2>1 DEF BatchState
    <2>3. publisher' = [publisher EXCEPT ![i] = p] /\ p.pc = "batch"
      BY <1>3 DEF LeaveUnmapped
    <2>4. c.event \in Events /\ row[c.event].attempts = 0
      BY <1>3 DEF Claim, LeaveUnmapped, TypeInv, RowInv
    <2>5. r \in EventRow /\ r.attempts = 0
      BY <2>4 DEF TypeInv, TypeOK, EventRow, RowStatuses
    <2>6. row' = [row EXCEPT ![c.event] = r]
      BY <1>3 DEF LeaveUnmapped
    <2> HIDE DEF p, r
    <2>7. publisher' \in [Instances -> PublisherState] /\ ClaimInv'
      BY <2>2, <2>3, PublisherWritten
    <2>8. row' \in [Events -> EventRow] /\ RowInv'
      <3>1. r.attempts < MaxAttempts
        BY <2>5, AttemptsAssumption
      <3> QED
        BY <2>4, <2>5, <2>6, <3>1, RowWritten
    <2> QED
      BY <1>3, <2>7, <2>8 DEF LeaveUnmapped, TypeInv, TypeOK, RunInv, Running
  <1>4. ASSUME NEW q \in Queues, Enqueue(i, q) PROVE TypeInv'
    <2>1. publisher[i] \in RelayState
      BY <1>4, PublisherFields DEF Enqueue
    <2> DEFINE p == [pc |-> "relay", batch |-> publisher[i].batch,
                     claim |-> publisher[i].claim,
                     left |-> publisher[i].left \ {q}]
               d == << publisher[i].claim.event, q >>
    <2>2. p \in RelayState
      BY <2>1 DEF RelayState
    <2>3. /\ publisher' = [publisher EXCEPT ![i] = p]
          /\ p.left \subseteq Route[p.claim.event] /\ Route[p.claim.event] # {}
      BY <1>4 DEF Enqueue, TypeInv, ClaimInv
    <2>4. d \in Deliveries
      BY <1>4, RelayDeliveries DEF Enqueue
    <2>5. job' = [job EXCEPT ![d] = Added(job[d])]
      BY <1>4 DEF Enqueue
    <2> HIDE DEF p, d
    <2>6. publisher' \in [Instances -> PublisherState] /\ ClaimInv'
      BY <2>2, <2>3, PublisherWritten
    <2>7. Added(job[d]) \in JobRow
      BY <2>4, AddedIsSound DEF TypeInv, TypeOK
    <2>8. job' \in [Deliveries -> JobRow]
      BY <2>4, <2>5, <2>7, JobWritten
    <2> QED
      BY <1>4, <2>6, <2>8 DEF Enqueue, TypeInv, TypeOK, RowInv, RunInv, Running
  <1>5. CASE EndRelay(i)
    <2>1. publisher[i] \in RelayState
      BY <1>5, PublisherFields DEF EndRelay, MarkPublished, FailRelay
    <2> DEFINE c == publisher[i].claim
               p == [pc |-> "batch", batch |-> publisher[i].batch]
    <2>2. /\ p \in BatchState /\ p.pc = "batch"
          /\ c \in Claim /\ c.event \in Events
          /\ c.attempts \in 0 .. MaxAttempts - 1
      BY <2>1 DEF BatchState, RelayState, Claim
    <2>3. publisher' = [publisher EXCEPT ![i] = p]
      BY <1>5 DEF EndRelay, MarkPublished, FailRelay
    <2>a. Route[c.event] # {}
      BY <1>5 DEF EndRelay, MarkPublished, FailRelay, TypeInv, ClaimInv
    <2>4. publisher' \in [Instances -> PublisherState] /\ ClaimInv'
      BY <2>2, <2>3, PublisherWritten
    <2>5. row' \in [Events -> EventRow] /\ RowInv'
      <3>1. CASE MarkPublished(i)
        <4> DEFINE r == [row[c.event] EXCEPT !.status = "PUBLISHED"]
        <4>1. r \in EventRow /\ r.status = "PUBLISHED"
          BY <2>2 DEF TypeInv, TypeOK, EventRow, RowStatuses
        <4>2. row' = [row EXCEPT ![c.event] = r]
          BY <3>1 DEF MarkPublished
        <4> HIDE DEF r, c
        <4> QED
          BY <2>2, <2>a, <4>1, <4>2, RowWritten
      <3>2. CASE FailRelay(i)
        <4> DEFINE r == [status |-> IF Exhausted(c.attempts + 1)
                                    THEN "FAILED" ELSE "PENDING",
                         attempts |-> c.attempts + 1]
        <4>1. /\ r \in EventRow
              /\ r.status \in {"PENDING", "PROCESSING"} => r.attempts < MaxAttempts
          BY <2>2, AttemptsAssumption DEF EventRow, RowStatuses, Exhausted
        <4>2. row' = [row EXCEPT ![c.event] = r]
          BY <3>2 DEF FailRelay
        <4> HIDE DEF r, c
        <4> QED
          BY <2>2, <2>a, <4>1, <4>2, RowWritten
      <3> QED
        BY <1>5, <3>1, <3>2 DEF EndRelay
    <2>6. adds' \subseteq Deliveries
      BY <1>5, RelayDeliveries DEF EndRelay, MarkPublished, FailRelay, TypeInv, TypeOK
    <2> QED
      BY <1>5, <2>4, <2>5, <2>6
      DEF EndRelay, MarkPublished, FailRelay, TypeInv, TypeOK, RunInv, Running
  <1>6. CASE EndPoll(i) \/ AbandonBatch(i)
    <2>1. publisher' = [publisher EXCEPT ![i] = Idle]
      BY <1>6 DEF EndPoll, AbandonBatch
    <2>2. publisher' \in [Instances -> PublisherState] /\ ClaimInv'
      BY <2>1, PublisherWritten
    <2>3. adds' \subseteq Deliveries
      BY <1>6, RelayDeliveries DEF EndPoll, AbandonBatch, TypeInv, TypeOK
    <2> QED
      BY <1>6, <2>2, <2>3
      DEF EndPoll, AbandonBatch, TypeInv, TypeOK, RowInv, RunInv, Running
  <1> QED
    BY <1>1, <1>2, <1>3, <1>4, <1>5, <1>6 DEF StartNext, EnqueueNext

LEMMA QueueTypeStep ==
  ASSUME TypeInv,
         \/ \E d \in Deliveries : LateAdd(d) \/ Stall(d) \/ ForgetJob(d)
         \/ \E w \in Workers, e \in Events : StartJob(w, e)
  PROVE  TypeInv'
  <1>1. ASSUME NEW d \in Deliveries, LateAdd(d) \/ Stall(d) \/ ForgetJob(d)
        PROVE  TypeInv'
    <2>0. job[d] \in JobRow
      BY DEF TypeInv, TypeOK
    <2>1. PICK j \in JobRow : job' = [job EXCEPT ![d] = j]
      <3>1. CASE LateAdd(d)
        BY <2>0, <3>1, AddedIsSound DEF LateAdd
      <3>2. CASE Stall(d)
        BY <2>0, <3>2, StalledIsSound DEF Stall
      <3>3. CASE ForgetJob(d)
        BY <3>3, NoJobIsSound DEF ForgetJob
      <3> QED
        BY <1>1, <3>1, <3>2, <3>3
    <2>2. job' \in [Deliveries -> JobRow]
      BY <2>1, JobWritten
    <2>3. adds' \subseteq Deliveries
      BY <1>1 DEF LateAdd, Stall, ForgetJob, TypeInv, TypeOK
    <2> QED
      BY <1>1, <2>2, <2>3
      DEF LateAdd, Stall, ForgetJob, TypeInv, TypeOK, RowInv, ClaimInv, RunInv,
          Running
  <1>2. ASSUME NEW w \in Workers, NEW e \in Events, StartJob(w, e)
        PROVE  TypeInv'
    <2> DEFINE d == << e, w[2] >>
               r == [pc |-> "started", event |-> e]
    <2>1. d \in Deliveries /\ job[d].state = "waiting" /\ w[1] \in Instances
      BY <1>2, WorkerAssumption DEF StartJob
    <2>2. Taken(job[d], w[1]) \in JobRow
      BY <2>1, TakenIsSound DEF TypeInv, TypeOK
    <2>3. job' = [job EXCEPT ![d] = Taken(job[d], w[1])]
      BY <1>2 DEF StartJob
    <2>4. /\ r \in WorkerState /\ run' = [run EXCEPT ![w] = r]
          /\ << r.event, w[2] >> \in Deliveries
      BY <1>2, <2>1 DEF WorkerState, StartJob
    <2> HIDE DEF d, r
    <2>5. job' \in [Deliveries -> JobRow]
      BY <2>1, <2>2, <2>3, JobWritten
    <2>6. run' \in [Workers -> WorkerState] /\ RunInv'
      BY <2>4, RunWritten
    <2> QED
      BY <1>2, <2>5, <2>6 DEF StartJob, TypeInv, TypeOK, RowInv, ClaimInv
  <1> QED
    BY <1>1, <1>2

LEMMA WorkerTypeStep ==
  ASSUME TypeInv, NEW w \in Workers,
         \/ SkipWork(w) \/ BeginWork(w) \/ CommitWork(w) \/ FailWork(w)
         \/ FinishJob(w) \/ CrashWorker(w)
  PROVE  TypeInv'
  <1>0. run[w].pc # "idle"
    BY DEF SkipWork, BeginWork, CommitWork, FailWork, FinishJob, CrashWorker
  <1>1. /\ run[w] \in [pc : {"started", "working", "finished"}, event : Events]
        /\ Running(w) \in Deliveries /\ w[1] \in Instances
    BY <1>0, RunFields
  <1>2. PICK r \in WorkerState :
          /\ run' = [run EXCEPT ![w] = r]
          /\ r.pc # "idle" => r.event = run[w].event
    <2>1. \A pc \in {"working", "finished"} :
            /\ [run[w] EXCEPT !.pc = pc] \in WorkerState
            /\ [run[w] EXCEPT !.pc = pc].event = run[w].event
      BY <1>1 DEF WorkerState
    <2>2. CASE SkipWork(w) \/ BeginWork(w) \/ CommitWork(w)
      <3>1. \E pc \in {"working", "finished"} :
              run' = [run EXCEPT ![w] = [run[w] EXCEPT !.pc = pc]]
        BY <2>2 DEF SkipWork, BeginWork, CommitWork
      <3> QED
        BY <2>1, <3>1
    <2>3. CASE FailWork(w) \/ FinishJob(w) \/ CrashWorker(w)
      <3>1. run' = [run EXCEPT ![w] = Idle]
        BY <2>3 DEF FailWork, FinishJob, CrashWorker
      <3> QED
        BY <3>1, StatesExist
    <2> QED
      BY <2>2, <2>3
  <1>3. run' \in [Workers -> WorkerState] /\ RunInv'
    BY <1>1, <1>2, RunWritten DEF Running
  <1>4. job' \in [Deliveries -> JobRow]
    <2>0. job[Running(w)] \in JobRow
      BY <1>1 DEF TypeInv, TypeOK
    <2>1. CASE FailWork(w)
      BY <1>1, <2>0, <2>1, RejectedIsSound, JobWritten DEF FailWork
    <2>2. CASE FinishJob(w)
      BY <1>1, <2>0, <2>2, CompletedIsSound, JobWritten DEF FinishJob
    <2>3. CASE UNCHANGED job
      BY <2>3 DEF TypeInv, TypeOK
    <2> QED
      BY <2>1, <2>2, <2>3 DEF SkipWork, BeginWork, CommitWork, CrashWorker
  <1>5. processed' \subseteq Deliveries /\ applied' \in [Deliveries -> Nat]
    <2>1. CASE CommitWork(w)
      BY <1>1, <2>1 DEF CommitWork, TypeInv, TypeOK
    <2>2. CASE UNCHANGED << processed, applied >>
      BY <2>2 DEF TypeInv, TypeOK
    <2> QED
      BY <2>1, <2>2 DEF SkipWork, BeginWork, FailWork, FinishJob, CrashWorker
  <1> QED
    BY <1>3, <1>4, <1>5
    DEF SkipWork, BeginWork, CommitWork, FailWork, FinishJob, CrashWorker,
        TypeInv, TypeOK, RowInv, ClaimInv

LEMMA TypeStep == TypeInv /\ [Next]_vars => TypeInv'
  <1> SUFFICES ASSUME TypeInv, [Next]_vars PROVE TypeInv'
    OBVIOUS
  <1>1. ASSUME NEW e \in Events, Record(e) PROVE TypeInv'
    <2> DEFINE r == [status |-> "PENDING", attempts |-> 0]
    <2>1. /\ r \in EventRow /\ r.attempts = 0
          /\ row' = [row EXCEPT ![e] = r]
      BY <1>1, AttemptsAssumption DEF Record, EventRow, RowStatuses
    <2> HIDE DEF r
    <2>2. row' \in [Events -> EventRow] /\ RowInv'
      <3>1. r.attempts < MaxAttempts
        BY <2>1, AttemptsAssumption
      <3> QED
        BY <2>1, <3>1, RowWritten
    <2> QED
      BY <1>1, <2>2 DEF Record, TypeInv, TypeOK, ClaimInv, RunInv, Running
  <1>2. ASSUME NEW e \in Events, BecomeReady(e) \/ BecomeStuck(e) PROVE TypeInv'
    BY <1>2 DEF BecomeReady, BecomeStuck, TypeInv, TypeOK, RowInv, ClaimInv,
                RunInv, Running
  <1>3. CASE UNCHANGED vars
    BY <1>3 DEF vars, TypeInv, TypeOK, RowInv, ClaimInv, RunInv, Running
  <1> QED
    BY <1>1, <1>2, <1>3, PublisherTypeStep, QueueTypeStep, WorkerTypeStep DEF Next

LEMMA TypeInvariance == Spec => []TypeInv
  BY TypeInit, TypeStep, PTL DEF Spec

(* Rows, batches, jobs and workers keep their types: no attempt is counted   *)
(* past its limit, whatever two publishers write over each other.            *)
THEOREM TypeCorrect == Spec => []TypeOK
  BY TypeInvariance, PTL DEF TypeInv

-----------------------------------------------------------------------------
(* Effects.  The work of a delivery is counted exactly when its marker is    *)
(* there; a transaction that may still commit works without the marker and   *)
(* alone; a worker that is through, and a job that is done, have it.         *)

AppliedInv ==
  \A d \in Deliveries : applied[d] = IF d \in processed THEN 1 ELSE 0
WorkingInv ==
  \A w \in Workers :
    run[w].pc = "working" =>
      /\ Running(w) \notin processed
      /\ \A v \in Workers :
           run[v].pc = "working" /\ Running(v) = Running(w) => v = w
FinishedInv ==
  \A w \in Workers : run[w].pc = "finished" => Running(w) \in processed
DoneInv == \A d \in Deliveries : job[d].state = "done" => d \in processed

WorkInv == AppliedInv /\ WorkingInv /\ FinishedInv /\ DoneInv

(* Only CommitWork touches markers and work, and it commits both.            *)
LEMMA CommitApplies ==
  ASSUME TypeInv, WorkInv, NEW w \in Workers, CommitWork(w)
  PROVE  /\ Running(w) \in Deliveries /\ Running(w) \notin processed
         /\ processed' = processed \union {Running(w)}
         /\ applied' = [applied EXCEPT ![Running(w)] = 1]
         /\ applied[Running(w)] = 0
  <1>1. Running(w) \in Deliveries
    BY RunFields DEF CommitWork
  <1>2. Running(w) \notin processed
    BY DEF CommitWork, WorkInv, WorkingInv
  <1>3. applied[Running(w)] = 0
    BY <1>1, <1>2 DEF WorkInv, AppliedInv
  <1> QED
    BY <1>1, <1>2, <1>3 DEF CommitWork

LEMMA EffectsElsewhere ==
  ASSUME [Next]_vars, ~ \E w \in Workers : CommitWork(w)
  PROVE  UNCHANGED << processed, applied >>
  BY DEF Next, vars, Record, ClaimBatch, StartNext, StartRelay, LeaveUnmapped,
         EnqueueNext, Enqueue, EndRelay, MarkPublished, FailRelay, EndPoll,
         AbandonBatch, LateAdd, BecomeReady, BecomeStuck, StartJob, Stall,
         ForgetJob, SkipWork, BeginWork, FailWork, FinishJob, CrashWorker

(* A worker is moved, and not into a transaction; no marker is taken away.   *)
LEMMA MoveWorker ==
  ASSUME TypeInv, WorkInv, NEW w \in Workers, NEW r,
         run' = [run EXCEPT ![w] = r], r.pc # "working",
         r.pc = "finished" => << r.event, w[2] >> \in processed',
         processed \subseteq processed',
         \A v \in Workers \ {w} :
           run[v].pc = "working" => Running(v) \notin processed'
  PROVE  WorkingInv' /\ FinishedInv'
  <1>1. \A v \in Workers : run'[v] = IF v = w THEN r ELSE run[v]
    BY DEF TypeInv, TypeOK
  <1>2. FinishedInv'
    BY <1>1 DEF WorkInv, FinishedInv, Running
  <1>3. WorkingInv'
    BY <1>1 DEF WorkInv, WorkingInv, Running
  <1> QED
    BY <1>2, <1>3

LEMMA WorkInit == Init => WorkInv
  BY DEF Init, WorkInv, AppliedInv, WorkingInv, FinishedInv, DoneInv, Idle, NoJob

LEMMA WorkStep == TypeInv /\ WorkInv /\ [Next]_vars => WorkInv'
  <1> SUFFICES ASSUME TypeInv, WorkInv, [Next]_vars PROVE WorkInv'
    OBVIOUS
  <1>1. ASSUME NEW w \in Workers, CommitWork(w) PROVE WorkInv'
    <2>1. /\ run[w].event \in Events
          /\ run[w] \in [pc : {"started", "working", "finished"}, event : Events]
      BY <1>1, RunFields DEF CommitWork
    <2> DEFINE r == [run[w] EXCEPT !.pc = "finished"]
    <2>2. r.pc = "finished" /\ r.event = run[w].event
      BY <2>1
    <2>3. run' = [run EXCEPT ![w] = r] /\ UNCHANGED job
      BY <1>1 DEF CommitWork
    <2> HIDE DEF r
    <2>4. WorkingInv' /\ FinishedInv'
      <3>1. << r.event, w[2] >> \in processed' /\ processed \subseteq processed'
        BY <1>1, <2>2, CommitApplies DEF Running
      <3>2. \A v \in Workers \ {w} :
              run[v].pc = "working" => Running(v) \notin processed'
        BY <1>1, CommitApplies DEF CommitWork, WorkInv, WorkingInv
      <3> QED
        BY <2>2, <2>3, <3>1, <3>2, MoveWorker
    <2>5. AppliedInv'
      BY <1>1, CommitApplies DEF WorkInv, AppliedInv, TypeInv, TypeOK
    <2>6. DoneInv'
      BY <1>1, <2>3, CommitApplies DEF WorkInv, DoneInv
    <2> QED
      BY <2>4, <2>5, <2>6 DEF WorkInv
  <1>2. ASSUME ~ \E w \in Workers : CommitWork(w) PROVE WorkInv'
    <2>1. UNCHANGED << processed, applied >>
      BY <1>2, EffectsElsewhere
    <2>2. AppliedInv'
      BY <2>1 DEF WorkInv, AppliedInv
    <2>3. \A v \in Workers : run[v].pc = "working" => Running(v) \notin processed'
      BY <2>1 DEF WorkInv, WorkingInv
    <2>4. ASSUME UNCHANGED run PROVE WorkingInv' /\ FinishedInv'
      BY <2>1, <2>4 DEF WorkInv, WorkingInv, FinishedInv, Running
    <2>5. ASSUME \A d \in Deliveries : job'[d].state = "done" =>
                   job[d].state = "done" \/ d \in processed
          PROVE  DoneInv'
      BY <2>1, <2>5 DEF WorkInv, DoneInv
    <2>6. ASSUME NEW d \in Deliveries, NEW j \in JobRow,
                 job' = [job EXCEPT ![d] = j],
                 j.state = "done" => job[d].state = "done" \/ d \in processed
          PROVE  DoneInv'
      BY <2>5, <2>6 DEF TypeInv
    <2>7. ASSUME NEW i \in Instances,
                 \/ ClaimBatch(i) \/ StartNext(i) \/ EnqueueNext(i)
                 \/ EndRelay(i) \/ EndPoll(i) \/ AbandonBatch(i)
          PROVE  UNCHANGED run /\ DoneInv'
      <3>1. CASE \E q \in Queues : Enqueue(i, q)
        <4> PICK q \in Queues : Enqueue(i, q)
          BY <3>1
        <4> DEFINE d == << publisher[i].claim.event, q >>
        <4>1. d \in Deliveries
          BY RelayDeliveries DEF Enqueue
        <4>2. job' = [job EXCEPT ![d] = Added(job[d])]
          BY DEF Enqueue
        <4> HIDE DEF d
        <4>3. /\ Added(job[d]) \in JobRow
              /\ Added(job[d]).state = "done" => job[d].state = "done"
          BY <4>1, AddedIsSound DEF TypeInv, TypeOK, Added, NoJob
        <4> QED
          BY <2>6, <4>1, <4>2, <4>3 DEF Enqueue
      <3>2. CASE UNCHANGED job
        BY <2>5, <2>7, <3>2
        DEF ClaimBatch, StartNext, StartRelay, LeaveUnmapped, EnqueueNext,
            Enqueue, EndRelay, MarkPublished, FailRelay, EndPoll, AbandonBatch
      <3> QED
        BY <2>7, <3>1, <3>2
        DEF ClaimBatch, StartNext, StartRelay, LeaveUnmapped, EnqueueNext,
            EndRelay, MarkPublished, FailRelay, EndPoll, AbandonBatch
    <2>8. ASSUME NEW d \in Deliveries, LateAdd(d) \/ Stall(d) \/ ForgetJob(d)
          PROVE  UNCHANGED run /\ DoneInv'
      <3>0. job[d] \in JobRow
        BY DEF TypeInv, TypeOK
      <3>1. CASE LateAdd(d)
        <4>1. /\ Added(job[d]) \in JobRow
              /\ Added(job[d]).state = "done" => job[d].state = "done"
          BY <3>0, AddedIsSound DEF Added, NoJob
        <4> QED
          BY <2>6, <3>1, <4>1 DEF LateAdd
      <3>2. CASE Stall(d)
        <4>1. Stalled(job[d]) \in JobRow /\ Stalled(job[d]).state # "done"
          BY <3>0, <3>2, StalledIsSound DEF Stall
        <4> QED
          BY <2>6, <3>2, <4>1 DEF Stall
      <3>3. CASE ForgetJob(d)
        <4>1. NoJob \in JobRow /\ NoJob.state # "done"
          BY NoJobIsSound DEF NoJob
        <4> QED
          BY <2>6, <3>3, <4>1 DEF ForgetJob
      <3> QED
        BY <2>8, <3>1, <3>2, <3>3
    <2>9. ASSUME NEW w \in Workers, NEW e \in Events, StartJob(w, e)
          PROVE  WorkingInv' /\ FinishedInv' /\ DoneInv'
      <3> DEFINE d == << e, w[2] >>
                 r == [pc |-> "started", event |-> e]
      <3>1. /\ d \in Deliveries /\ job[d].state = "waiting" /\ w[1] \in Instances
            /\ job' = [job EXCEPT ![d] = Taken(job[d], w[1])]
        BY <2>9, WorkerAssumption DEF StartJob
      <3>2. r.pc = "started" /\ run' = [run EXCEPT ![w] = r]
        BY <2>9 DEF StartJob
      <3> HIDE DEF d, r
      <3>3. /\ Taken(job[d], w[1]) \in JobRow
            /\ Taken(job[d], w[1]).state # "done"
        BY <3>1, TakenIsSound DEF TypeInv, TypeOK
      <3> QED
        BY <2>1, <2>3, <2>6, <3>1, <3>2, <3>3, MoveWorker
    <2>10. ASSUME NEW w \in Workers,
                  SkipWork(w) \/ FailWork(w) \/ FinishJob(w) \/ CrashWorker(w)
           PROVE  WorkingInv' /\ FinishedInv' /\ DoneInv'
      <3>1. /\ run[w] \in [pc : {"started", "working", "finished"}, event : Events]
            /\ Running(w) \in Deliveries /\ w[1] \in Instances
            /\ job[Running(w)] \in JobRow
        BY <2>10, RunFields
        DEF SkipWork, FailWork, FinishJob, CrashWorker, TypeInv, TypeOK
      <3>2. CASE SkipWork(w)
        <4> DEFINE r == [run[w] EXCEPT !.pc = "finished"]
        <4>1. r.pc = "finished" /\ r.event = run[w].event
          BY <3>1
        <4>2. /\ run' = [run EXCEPT ![w] = r] /\ UNCHANGED job
              /\ << r.event, w[2] >> \in processed
          BY <3>2, <4>1 DEF SkipWork, Duplicate, Running
        <4> HIDE DEF r
        <4> QED
          BY <2>1, <2>3, <2>5, <4>1, <4>2, MoveWorker
      <3>3. CASE FailWork(w) \/ FinishJob(w) \/ CrashWorker(w)
        <4>1. WorkingInv' /\ FinishedInv'
          <5>1. run' = [run EXCEPT ![w] = Idle] /\ Idle.pc = "idle"
            BY <3>3 DEF FailWork, FinishJob, CrashWorker, Idle
          <5> QED
            BY <2>1, <2>3, <5>1, MoveWorker
        <4>2. CASE FailWork(w)
          BY <2>6, <3>1, <4>1, <4>2, RejectedIsSound DEF FailWork
        <4>3. CASE FinishJob(w)
          <5>1. Running(w) \in processed
            BY <4>3 DEF FinishJob, WorkInv, FinishedInv
          <5> QED
            BY <2>6, <3>1, <4>1, <4>3, <5>1, CompletedIsSound DEF FinishJob
        <4>4. CASE CrashWorker(w)
          BY <2>5, <4>1, <4>4 DEF CrashWorker
        <4> QED
          BY <3>3, <4>2, <4>3, <4>4
      <3> QED
        BY <2>10, <3>2, <3>3
    <2>11. ASSUME NEW w \in Workers, BeginWork(w)
           PROVE  WorkingInv' /\ FinishedInv' /\ DoneInv'
      <3>1. run[w] \in [pc : {"started", "working", "finished"}, event : Events]
        BY <2>11, RunFields DEF BeginWork
      <3>2. \A v \in Workers :
              IF v = w
              THEN run'[v].pc = "working" /\ run'[v].event = run[v].event
              ELSE run'[v] = run[v]
        BY <2>11, <3>1 DEF BeginWork, TypeInv, TypeOK
      <3>3. /\ Running(w) \notin processed
            /\ \A v \in Workers : run[v].pc = "working" => Running(v) # Running(w)
        BY <2>11 DEF BeginWork, Duplicate, MarkerFree
      <3>4. WorkingInv' /\ FinishedInv'
        BY <2>1, <3>2, <3>3 DEF WorkInv, WorkingInv, FinishedInv, Running
      <3> QED
        BY <2>5, <2>11, <3>4 DEF BeginWork
    <2>12. CASE UNCHANGED << run, job >>
      BY <2>2, <2>4, <2>5, <2>12 DEF WorkInv
    <2>13. ASSUME NEW e \in Events, Record(e) \/ BecomeReady(e) \/ BecomeStuck(e)
           PROVE  UNCHANGED << run, job >>
      BY <2>13 DEF Record, BecomeReady, BecomeStuck
    <2> QED
      BY <1>2, <2>2, <2>4, <2>7, <2>8, <2>9, <2>10, <2>11, <2>12, <2>13
      DEF Next, vars, WorkInv
  <1> QED
    BY <1>1, <1>2

LEMMA WorkInvariance == Spec => [](TypeInv /\ WorkInv)
  BY TypeInit, TypeStep, WorkInit, WorkStep, PTL DEF Spec

(* A job completes only when its work is committed, exactly once.            *)
THEOREM CompletedJobsAreApplied == Spec => []CompletedMeansApplied
  <1>1. WorkInv => CompletedMeansApplied
    BY DEF WorkInv, DoneInv, AppliedInv, CompletedMeansApplied
  <1> QED
    BY <1>1, WorkInvariance, PTL

-----------------------------------------------------------------------------
(* Flow.  Only events that were recorded are claimed, sent and run; and what *)
(* a relay counts as sent is in its queue, or was there and is handled.      *)

Recorded(e) == row[e].status # "NONE"
Queued(d) == job[d].state # "none" \/ d \in processed

PublisherInv ==
  \A i \in Instances :
    /\ publisher[i].pc \in {"batch", "relay"} =>
         \A c \in publisher[i].batch : Recorded(c.event)
    /\ publisher[i].pc = "relay" =>
         /\ Recorded(publisher[i].claim.event)
         /\ \A q \in Route[publisher[i].claim.event] \ publisher[i].left :
              Queued(<< publisher[i].claim.event, q >>)
JobInv ==
  /\ \A d \in adds : Recorded(d[1])
  /\ \A d \in Deliveries : job[d].state # "none" => Recorded(d[1])
  /\ \A w \in Workers : run[w].pc # "idle" => Recorded(run[w].event)
PublishedInv ==
  \A d \in Deliveries : row[d[1]].status = "PUBLISHED" => Queued(d)

FlowInv == PublisherInv /\ JobInv /\ PublishedInv

(* The same after a step. *)
RecordedThen(e) == row'[e].status # "NONE"
QueuedThen(d) == job'[d].state # "none" \/ d \in processed'

LEMMA RecordedStays ==
  ASSUME TypeInv, [Next]_vars, NEW e \in Events, Recorded(e)
  PROVE  RecordedThen(e)
  <1>0. row \in [Events -> EventRow]
    BY DEF TypeInv, TypeOK
  <1>1. ASSUME NEW f \in Events, Record(f) PROVE RecordedThen(e)
    BY <1>0, <1>1 DEF Record, RecordedThen, Recorded
  <1>2. ASSUME NEW i \in Instances, ClaimBatch(i) PROVE RecordedThen(e)
    BY <1>0, <1>2 DEF ClaimBatch, RecordedThen, Recorded, EventRow
  <1>3. ASSUME NEW i \in Instances, NEW c \in Claim, LeaveUnmapped(i, c)
        PROVE  RecordedThen(e)
    BY <1>0, <1>3 DEF LeaveUnmapped, RecordedThen, Recorded, EventRow
  <1>4. ASSUME NEW i \in Instances, EndRelay(i) PROVE RecordedThen(e)
    BY <1>0, <1>4 DEF EndRelay, MarkPublished, FailRelay, RecordedThen, Recorded, EventRow
  <1>5. CASE UNCHANGED row
    BY <1>5 DEF RecordedThen, Recorded
  <1> QED
    BY <1>1, <1>2, <1>3, <1>4, <1>5
    DEF Next, vars, StartNext, StartRelay, EnqueueNext, Enqueue, EndPoll,
        AbandonBatch, LateAdd, BecomeReady, BecomeStuck, StartJob, Stall,
        ForgetJob, SkipWork, BeginWork, CommitWork, FailWork, FinishJob,
        CrashWorker

(* A job that exists still does, unless it was done and is forgotten. *)
LEMMA QueuedStays ==
  ASSUME TypeInv, WorkInv, [Next]_vars, NEW d \in Deliveries, Queued(d)
  PROVE  QueuedThen(d)
  <1>1. processed \subseteq processed'
    BY EffectsElsewhere DEF CommitWork
  <1>2. ASSUME NEW i \in Instances, NEW q \in Queues, Enqueue(i, q)
        PROVE  QueuedThen(d)
    BY <1>1, <1>2 DEF Enqueue, Added, NoJob, QueuedThen, Queued, TypeInv
  <1>3. ASSUME NEW f \in Deliveries, LateAdd(f) PROVE QueuedThen(d)
    BY <1>1, <1>3 DEF LateAdd, Added, NoJob, QueuedThen, Queued, TypeInv
  <1>4. ASSUME NEW f \in Deliveries, Stall(f) PROVE QueuedThen(d)
    <2>1. Stalled(job[f]).state # "none"
      BY <1>4, StalledIsSound DEF Stall, TypeInv, TypeOK
    <2> QED
      BY <1>1, <1>4, <2>1 DEF Stall, QueuedThen, Queued, TypeInv
  <1>5. ASSUME NEW f \in Deliveries, ForgetJob(f) PROVE QueuedThen(d)
    <2>1. CASE d = f
      BY <1>1, <1>5, <2>1 DEF ForgetJob, WorkInv, DoneInv, QueuedThen
    <2>2. CASE d # f
      BY <1>1, <1>5, <2>2 DEF ForgetJob, QueuedThen, Queued, TypeInv
    <2> QED
      BY <2>1, <2>2
  <1>6. ASSUME NEW w \in Workers, NEW e \in Events, StartJob(w, e)
        PROVE  QueuedThen(d)
    <2>1. Taken(job[<< e, w[2] >>], w[1]).state # "none"
      BY <1>6, TakenIsSound, WorkerAssumption DEF StartJob, TypeInv, TypeOK
    <2> QED
      BY <1>1, <1>6, <2>1 DEF StartJob, QueuedThen, Queued, TypeInv
  <1>7. ASSUME NEW w \in Workers, FailWork(w) \/ FinishJob(w) PROVE QueuedThen(d)
    <2>1. /\ Running(w) \in Deliveries /\ w[1] \in Instances
          /\ job[Running(w)] \in JobRow
      BY <1>7, RunFields DEF FailWork, FinishJob, TypeInv, TypeOK
    <2>2. /\ Rejected(job[Running(w)], w[1]).state = "none" =>
               job[Running(w)].state = "none"
          /\ Completed(job[Running(w)], w[1]).state = "none" =>
               job[Running(w)].state = "none"
      BY <2>1, RejectedIsSound, CompletedIsSound
    <2> QED
      BY <1>1, <1>7, <2>1, <2>2 DEF FailWork, FinishJob, QueuedThen, Queued, TypeInv, TypeOK
  <1>8. CASE UNCHANGED job
    BY <1>1, <1>8 DEF QueuedThen, Queued
  <1> QED
    BY <1>2, <1>3, <1>4, <1>5, <1>6, <1>7, <1>8
    DEF Next, vars, Record, ClaimBatch, StartNext, StartRelay, LeaveUnmapped,
        EnqueueNext, EndRelay, MarkPublished, FailRelay, EndPoll, AbandonBatch,
        BecomeReady, BecomeStuck, SkipWork, BeginWork, CommitWork, CrashWorker

(* What a publisher has to hold after a step. *)
Flows(p) ==
  /\ p.pc \in {"batch", "relay"} => \A c \in p.batch : RecordedThen(c.event)
  /\ p.pc = "relay" =>
       /\ RecordedThen(p.claim.event)
       /\ \A q \in Route[p.claim.event] \ p.left : QueuedThen(<< p.claim.event, q >>)

LEMMA PublisherKept ==
  ASSUME TypeInv, WorkInv, FlowInv, [Next]_vars, NEW i \in Instances
  PROVE  Flows(publisher[i])
  <1>1. CASE publisher[i].pc = "idle"
    BY <1>1 DEF Flows
  <1>2. CASE publisher[i].pc = "batch"
    <2>1. publisher[i] \in BatchState
      BY <1>2, PublisherFields
    <2> QED
      BY <1>2, <2>1, RecordedStays
      DEF Flows, FlowInv, PublisherInv, BatchState, Claim
  <1>3. CASE publisher[i].pc = "relay"
    <2>1. publisher[i] \in RelayState
      BY <1>3, PublisherFields
    <2>2. \A c \in publisher[i].batch : RecordedThen(c.event)
      BY <1>3, <2>1, RecordedStays DEF FlowInv, PublisherInv, RelayState, Claim
    <2>3. publisher[i].claim.event \in Events
      BY <2>1 DEF RelayState, Claim
    <2>4. RecordedThen(publisher[i].claim.event)
      BY <1>3, <2>3, RecordedStays DEF FlowInv, PublisherInv
    <2>5. \A q \in Route[publisher[i].claim.event] :
            << publisher[i].claim.event, q >> \in Deliveries
      BY <2>3, RouteAssumption DEF Deliveries
    <2>6. \A q \in Route[publisher[i].claim.event] \ publisher[i].left :
            QueuedThen(<< publisher[i].claim.event, q >>)
      BY <1>3, <2>5, QueuedStays DEF FlowInv, PublisherInv
    <2> QED
      BY <2>2, <2>4, <2>6 DEF Flows
  <1> QED
    BY <1>1, <1>2, <1>3, PublisherFields

LEMMA PublisherMoves ==
  ASSUME TypeInv, WorkInv, FlowInv, [Next]_vars, NEW i \in Instances, NEW p,
         publisher' = [publisher EXCEPT ![i] = p], Flows(p)
  PROVE  PublisherInv'
  <1>1. \A j \in Instances : publisher'[j] = IF j = i THEN p ELSE publisher[j]
    BY DEF TypeInv, TypeOK
  <1>2. \A j \in Instances : Flows(publisher'[j])
    BY <1>1, PublisherKept
  <1> QED
    BY <1>2 DEF PublisherInv, Flows, Recorded, RecordedThen, Queued, QueuedThen

LEMMA PublisherFlow ==
  ASSUME TypeInv, WorkInv, FlowInv, [Next]_vars
  PROVE  PublisherInv'
  <1>1. ASSUME NEW i \in Instances, ClaimBatch(i) PROVE PublisherInv'
    <2> DEFINE p == [pc |-> "batch",
                     batch |-> {[event |-> e, attempts |-> row[e].attempts] :
                                  e \in Claimable}]
    <2>1. publisher' = [publisher EXCEPT ![i] = p]
      BY <1>1 DEF ClaimBatch
    <2>2. \A e \in Claimable : e \in Events /\ Recorded(e)
      BY DEF Claimable, Recorded
    <2>3. Flows(p)
      BY <2>2, RecordedStays DEF Flows
    <2> QED
      BY <2>1, <2>3, PublisherMoves
  <1>2. ASSUME NEW i \in Instances, NEW c \in Claim, StartRelay(i, c)
        PROVE  PublisherInv'
    <2> DEFINE p == [pc |-> "relay", batch |-> publisher[i].batch \ {c},
                     claim |-> c, left |-> Route[c.event]]
    <2>1. publisher' = [publisher EXCEPT ![i] = p]
      BY <1>2 DEF StartRelay
    <2>2. \A b \in publisher[i].batch : RecordedThen(b.event)
      BY <1>2, PublisherKept DEF StartRelay, Flows
    <2>3. Flows(p)
      BY <1>2, <2>2 DEF StartRelay, Flows
    <2> QED
      BY <2>1, <2>3, PublisherMoves
  <1>3. ASSUME NEW i \in Instances, NEW c \in Claim, LeaveUnmapped(i, c)
        PROVE  PublisherInv'
    <2> DEFINE p == [pc |-> "batch", batch |-> publisher[i].batch \ {c}]
    <2>1. publisher' = [publisher EXCEPT ![i] = p]
      BY <1>3 DEF LeaveUnmapped
    <2>2. Flows(p)
      BY <1>3, PublisherKept DEF LeaveUnmapped, Flows
    <2> QED
      BY <2>1, <2>2, PublisherMoves
  <1>4. ASSUME NEW i \in Instances, NEW q \in Queues, Enqueue(i, q)
        PROVE  PublisherInv'
    <2> DEFINE d == << publisher[i].claim.event, q >>
               p == [pc |-> "relay", batch |-> publisher[i].batch,
                     claim |-> publisher[i].claim,
                     left |-> publisher[i].left \ {q}]
    <2>1. publisher' = [publisher EXCEPT ![i] = p]
      BY <1>4 DEF Enqueue
    <2>2. d \in Deliveries
      BY <1>4, RelayDeliveries DEF Enqueue
    <2>3. Added(job[d]).state # "none"
      BY <2>2, AddedIsSound DEF TypeInv, TypeOK
    <2>4. QueuedThen(d)
      BY <1>4, <2>2, <2>3 DEF Enqueue, QueuedThen, TypeInv, TypeOK
    <2>5. Flows(publisher[i]) /\ publisher[i].pc = "relay"
      BY <1>4, PublisherKept DEF Enqueue
    <2>6. Flows(p)
      BY <2>4, <2>5 DEF Flows
    <2> QED
      BY <2>1, <2>6, PublisherMoves
  <1>5. ASSUME NEW i \in Instances, EndRelay(i) PROVE PublisherInv'
    <2> DEFINE p == [pc |-> "batch", batch |-> publisher[i].batch]
    <2>1. publisher' = [publisher EXCEPT ![i] = p]
      BY <1>5 DEF EndRelay, MarkPublished, FailRelay
    <2>2. Flows(p)
      BY <1>5, PublisherKept DEF EndRelay, MarkPublished, FailRelay, Flows
    <2> QED
      BY <2>1, <2>2, PublisherMoves
  <1>6. ASSUME NEW i \in Instances, EndPoll(i) \/ AbandonBatch(i)
        PROVE  PublisherInv'
    <2>1. publisher' = [publisher EXCEPT ![i] = Idle]
      BY <1>6 DEF EndPoll, AbandonBatch
    <2>2. Flows(Idle)
      BY DEF Flows, Idle
    <2> QED
      BY <2>1, <2>2, PublisherMoves
  <1>7. CASE UNCHANGED publisher
    <2>1. \A i \in Instances : Flows(publisher'[i])
      BY <1>7, PublisherKept
    <2> QED
      BY <2>1 DEF PublisherInv, Flows, Recorded, RecordedThen, Queued, QueuedThen
  <1> QED
    BY <1>1, <1>2, <1>3, <1>4, <1>5, <1>6, <1>7
    DEF Next, vars, StartNext, EnqueueNext, Record, LateAdd, BecomeReady,
        BecomeStuck, StartJob, Stall, ForgetJob, SkipWork, BeginWork,
        CommitWork, FailWork, FinishJob, CrashWorker

LEMMA PublishedFlow ==
  ASSUME TypeInv, WorkInv, FlowInv, [Next]_vars
  PROVE  PublishedInv'
  <1> SUFFICES ASSUME NEW d \in Deliveries, row'[d[1]].status = "PUBLISHED"
               PROVE  QueuedThen(d)
    BY DEF PublishedInv, Queued, QueuedThen
  <1>0. d[1] \in Events /\ row \in [Events -> EventRow]
    BY DEF Deliveries, TypeInv, TypeOK
  <1>1. ASSUME NEW i \in Instances, MarkPublished(i),
               d[1] = publisher[i].claim.event
        PROVE  QueuedThen(d)
    <2>1. Flows(publisher[i]) /\ publisher[i].pc = "relay"
      BY <1>1, PublisherKept DEF MarkPublished
    <2>2. d[2] \in Route[publisher[i].claim.event] \ publisher[i].left
      BY <1>1 DEF MarkPublished, Confirmed, Deliveries
    <2>3. d = << publisher[i].claim.event, d[2] >>
      BY <1>1 DEF Deliveries
    <2> QED
      BY <2>1, <2>2, <2>3 DEF Flows
  <1>2. CASE row[d[1]].status = "PUBLISHED"
    BY <1>2, QueuedStays DEF FlowInv, PublishedInv
  <1>3. CASE row[d[1]].status # "PUBLISHED"
    <2>1. ASSUME NEW f \in Events, Record(f) PROVE FALSE
      BY <1>0, <1>3, <2>1 DEF Record
    <2>2. ASSUME NEW i \in Instances, ClaimBatch(i) PROVE FALSE
      BY <1>0, <1>3, <2>2 DEF ClaimBatch, EventRow
    <2>3. ASSUME NEW i \in Instances, NEW c \in Claim, LeaveUnmapped(i, c)
          PROVE  FALSE
      BY <1>0, <1>3, <2>3 DEF LeaveUnmapped, EventRow
    <2>4. ASSUME NEW i \in Instances, FailRelay(i) PROVE FALSE
      BY <1>0, <1>3, <2>4 DEF FailRelay
    <2>5. ASSUME NEW i \in Instances, MarkPublished(i)
          PROVE  d[1] = publisher[i].claim.event
      BY <1>0, <1>3, <2>5 DEF MarkPublished
    <2>6. CASE UNCHANGED row
      BY <1>3, <2>6
    <2> QED
      BY <1>1, <2>1, <2>2, <2>3, <2>4, <2>5, <2>6
      DEF Next, vars, StartNext, StartRelay, EnqueueNext, Enqueue, EndRelay,
          EndPoll, AbandonBatch, LateAdd, BecomeReady, BecomeStuck, StartJob,
          Stall, ForgetJob, SkipWork, BeginWork, CommitWork, FailWork,
          FinishJob, CrashWorker
  <1> QED
    BY <1>2, <1>3

(* An add comes from a relay of its event, a job from an add, a worker's     *)
(* event from a job.                                                         *)
LEMMA AddsFlow ==
  ASSUME TypeInv, WorkInv, FlowInv, [Next]_vars, NEW d \in adds'
  PROVE  RecordedThen(d[1])
  <1>1. CASE d \in adds
    <2>1. d[1] \in Events /\ Recorded(d[1])
      BY <1>1 DEF TypeInv, TypeOK, Deliveries, FlowInv, JobInv
    <2> QED
      BY <2>1, RecordedStays
  <1>2. CASE \E i \in Instances : publisher[i].pc = "relay" /\ d \in LateAdds(i)
    <2> PICK i \in Instances : publisher[i].pc = "relay" /\ d \in LateAdds(i)
      BY <1>2
    <2>1. d[1] = publisher[i].claim.event
      BY DEF LateAdds
    <2> QED
      BY <2>1, PublisherKept DEF Flows
  <1> QED
    BY <1>1, <1>2
    DEF Next, vars, Record, ClaimBatch, StartNext, StartRelay, LeaveUnmapped,
        EnqueueNext, Enqueue, EndRelay, MarkPublished, FailRelay, EndPoll,
        AbandonBatch, LateAdd, BecomeReady, BecomeStuck, StartJob, Stall,
        ForgetJob, SkipWork, BeginWork, CommitWork, FailWork, FinishJob,
        CrashWorker

LEMMA JobsFlow ==
  ASSUME TypeInv, WorkInv, FlowInv, [Next]_vars, NEW d \in Deliveries,
         job'[d].state # "none"
  PROVE  RecordedThen(d[1])
  <1>0. d[1] \in Events /\ job[d] \in JobRow
    BY DEF Deliveries, TypeInv, TypeOK
  <1>1. CASE job[d].state # "none"
    BY <1>0, <1>1, RecordedStays DEF FlowInv, JobInv
  <1>2. CASE job[d].state = "none"
    <2>1. ASSUME NEW i \in Instances, NEW q \in Queues, Enqueue(i, q)
          PROVE  RecordedThen(d[1])
      <3>1. d = << publisher[i].claim.event, q >>
        BY <1>2, <2>1 DEF Enqueue, TypeInv
      <3>2. Flows(publisher[i]) /\ publisher[i].pc = "relay"
        BY <2>1, PublisherKept DEF Enqueue
      <3> QED
        BY <3>1, <3>2 DEF Flows
    <2>2. ASSUME NEW f \in Deliveries, LateAdd(f) PROVE RecordedThen(d[1])
      <3>1. d = f /\ f \in adds
        BY <1>2, <2>2 DEF LateAdd, TypeInv
      <3> QED
        BY <1>0, <3>1, RecordedStays DEF FlowInv, JobInv
    <2>3. ASSUME NEW f \in Deliveries, Stall(f) \/ ForgetJob(f) PROVE FALSE
      BY <1>2, <2>3 DEF Stall, ForgetJob, NoJob, TypeInv, TypeOK
    <2>4. ASSUME NEW w \in Workers, NEW e \in Events, StartJob(w, e) PROVE FALSE
      BY <1>2, <2>4 DEF StartJob, TypeInv
    <2>5. ASSUME NEW w \in Workers, FailWork(w) \/ FinishJob(w) PROVE FALSE
      <3>1. Running(w) \in Deliveries
        BY <2>5, RunFields DEF FailWork, FinishJob
      <3> QED
        BY <1>2, <2>5, <3>1
        DEF FailWork, FinishJob, Rejected, Completed, OwnedBy, TypeInv, TypeOK
    <2>6. CASE UNCHANGED job
      BY <1>2, <2>6
    <2> QED
      BY <2>1, <2>2, <2>3, <2>4, <2>5, <2>6
      DEF Next, vars, Record, ClaimBatch, StartNext, StartRelay, LeaveUnmapped,
          EnqueueNext, EndRelay, MarkPublished, FailRelay, EndPoll,
          AbandonBatch, BecomeReady, BecomeStuck, SkipWork, BeginWork,
          CommitWork, CrashWorker
  <1> QED
    BY <1>1, <1>2

LEMMA RunsFlow ==
  ASSUME TypeInv, WorkInv, FlowInv, [Next]_vars, NEW w \in Workers,
         run'[w].pc # "idle"
  PROVE  RecordedThen(run'[w].event)
  <1>1. ASSUME run[w].pc # "idle", run'[w].event = run[w].event
        PROVE  RecordedThen(run'[w].event)
    <2>1. run[w].event \in Events /\ Recorded(run[w].event)
      BY <1>1, RunFields DEF FlowInv, JobInv
    <2> QED
      BY <1>1, <2>1, RecordedStays
  <1>2. ASSUME NEW v \in Workers, NEW e \in Events, StartJob(v, e)
        PROVE  RecordedThen(run'[w].event)
    <2>1. CASE v = w
      <3>1. run'[w].event = e
        BY <1>2, <2>1 DEF StartJob, TypeInv, TypeOK
      <3>2. Recorded(e)
        BY <1>2 DEF StartJob, FlowInv, JobInv
      <3> QED
        BY <3>1, <3>2, RecordedStays
    <2>2. CASE v # w
      BY <1>1, <1>2, <2>2 DEF StartJob, TypeInv, TypeOK
    <2> QED
      BY <2>1, <2>2
  <1>3. ASSUME NEW v \in Workers, SkipWork(v) \/ BeginWork(v) \/ CommitWork(v)
        PROVE  RecordedThen(run'[w].event)
    <2>1. run[v] \in [pc : {"started", "working", "finished"}, event : Events]
      BY <1>3, RunFields DEF SkipWork, BeginWork, CommitWork
    <2>2. run'[w].event = run[w].event /\ run[w].pc # "idle"
      BY <1>3, <2>1 DEF SkipWork, BeginWork, CommitWork, TypeInv, TypeOK
    <2> QED
      BY <1>1, <2>2
  <1>4. ASSUME NEW v \in Workers, FailWork(v) \/ FinishJob(v) \/ CrashWorker(v)
        PROVE  RecordedThen(run'[w].event)
    BY <1>1, <1>4 DEF FailWork, FinishJob, CrashWorker, Idle, TypeInv, TypeOK
  <1>5. CASE UNCHANGED run
    BY <1>1, <1>5
  <1> QED
    BY <1>2, <1>3, <1>4, <1>5
    DEF Next, vars, Record, ClaimBatch, StartNext, StartRelay, LeaveUnmapped,
        EnqueueNext, Enqueue, EndRelay, MarkPublished, FailRelay, EndPoll,
        AbandonBatch, LateAdd, BecomeReady, BecomeStuck, Stall, ForgetJob

LEMMA FlowInit == Init => FlowInv
  BY DEF Init, FlowInv, PublisherInv, JobInv, PublishedInv, Idle, NoJob, Deliveries

LEMMA FlowStep == TypeInv /\ WorkInv /\ FlowInv /\ [Next]_vars => FlowInv'
  <1> SUFFICES ASSUME TypeInv, WorkInv, FlowInv, [Next]_vars PROVE FlowInv'
    OBVIOUS
  <1>1. JobInv'
    BY AddsFlow, JobsFlow, RunsFlow DEF JobInv, Recorded, RecordedThen
  <1> QED
    BY <1>1, PublisherFlow, PublishedFlow DEF FlowInv

LEMMA FlowInvariance == Spec => [](TypeInv /\ WorkInv /\ FlowInv)
  BY TypeInit, TypeStep, WorkInit, WorkStep, FlowInit, FlowStep, PTL DEF Spec

(* A PUBLISHED event is in every queue it is mapped to, or was handled       *)
(* there, whichever publishers relayed it and failed on the way.             *)
THEOREM PublishedIsNeverLost == Spec => []NothingLost
  <1>1. TypeInv /\ WorkInv /\ FlowInv => NothingLost
    <2> SUFFICES ASSUME TypeInv, WorkInv, FlowInv, NEW d \in Deliveries,
                        row[d[1]].status = "PUBLISHED", d \notin processed
                 PROVE  job[d].state \in {"waiting", "active", "failed"}
      BY DEF NothingLost
    <2>1. job[d].state # "none"
      BY DEF FlowInv, PublishedInv, Queued
    <2>2. job[d].state # "done"
      BY DEF WorkInv, DoneInv
    <2>3. job[d] \in JobRow
      BY DEF TypeInv, TypeOK
    <2> QED
      BY <2>1, <2>2, <2>3 DEF JobRow
  <1> QED
    BY <1>1, FlowInvariance, PTL

-----------------------------------------------------------------------------
(* Refinement.  A step records one event, commits the work of one delivery,  *)
(* or changes nothing that EventDelivery sees.                               *)

RecordedEvents == {e \in Events : row[e].status # "NONE"}
DoneDeliveries == {d \in Deliveries : applied[d] > 0}

LEMMA RecordedElsewhere ==
  ASSUME TypeInv, FlowInv, [Next]_vars, ~ \E e \in Events : Record(e),
         NEW e \in Events
  PROVE  Recorded(e) <=> RecordedThen(e)
  <1>0. row \in [Events -> EventRow]
    BY DEF TypeInv, TypeOK
  <1>1. ASSUME NEW i \in Instances, ClaimBatch(i)
        PROVE  Recorded(e) <=> RecordedThen(e)
    BY <1>0, <1>1 DEF ClaimBatch, Claimable, RecordedThen, Recorded, EventRow
  <1>2. ASSUME NEW i \in Instances, NEW c \in Claim, LeaveUnmapped(i, c)
        PROVE  Recorded(e) <=> RecordedThen(e)
    <2>1. Recorded(c.event)
      BY <1>2 DEF LeaveUnmapped, FlowInv, PublisherInv
    <2> QED
      BY <1>0, <1>2, <2>1 DEF LeaveUnmapped, RecordedThen, Recorded, EventRow
  <1>3. ASSUME NEW i \in Instances, EndRelay(i)
        PROVE  Recorded(e) <=> RecordedThen(e)
    <2>1. Recorded(publisher[i].claim.event)
      BY <1>3 DEF EndRelay, MarkPublished, FailRelay, FlowInv, PublisherInv
    <2> QED
      BY <1>0, <1>3, <2>1
      DEF EndRelay, MarkPublished, FailRelay, RecordedThen, Recorded, EventRow
  <1>4. CASE UNCHANGED row
    BY <1>4 DEF RecordedThen, Recorded
  <1> QED
    BY <1>1, <1>2, <1>3, <1>4
    DEF Next, vars, StartNext, StartRelay, EnqueueNext, Enqueue, EndPoll,
        AbandonBatch, LateAdd, BecomeReady, BecomeStuck, StartJob, Stall,
        ForgetJob, SkipWork, BeginWork, CommitWork, FailWork, FinishJob,
        CrashWorker

LEMMA DeliveryInit == Init => Delivery!Init
  BY DEF Init, Delivery!Init

LEMMA DeliveryStep ==
  ASSUME TypeInv, WorkInv, FlowInv, [Next]_vars
  PROVE  [Delivery!Next]_<< RecordedEvents, DoneDeliveries >>
  <1>0. Delivery!Deliveries = Deliveries
    BY DEF Delivery!Deliveries, Deliveries
  <1>1. ASSUME NEW e \in Events, Record(e)
        PROVE  Delivery!Record(e)
    <2>1. row \in [Events -> EventRow] /\ row[e].status = "NONE"
      BY <1>1 DEF Record, TypeInv, TypeOK
    <2>2. RecordedEvents' = RecordedEvents \union {e}
      BY <1>1, <2>1 DEF Record, RecordedEvents
    <2>3. UNCHANGED DoneDeliveries
      BY <1>1 DEF Record, DoneDeliveries
    <2> QED
      BY <2>1, <2>2, <2>3, <1>0
      DEF Delivery!Record, RecordedEvents, DoneDeliveries
  <1>2. ASSUME NEW w \in Workers, CommitWork(w), NEW d \in Deliveries,
               d = Running(w)
        PROVE  Delivery!Deliver(d)
    <2>1. applied' = [applied EXCEPT ![d] = 1] /\ applied[d] = 0
      BY <1>2, CommitApplies
    <2>2. applied \in [Deliveries -> Nat]
      BY DEF TypeInv, TypeOK
    <2>3. DoneDeliveries' = DoneDeliveries \union {d}
      BY <2>1, <2>2 DEF DoneDeliveries
    <2>4. d[1] \in RecordedEvents
      <3>1. d[1] = run[w].event /\ Recorded(run[w].event)
        BY <1>2 DEF CommitWork, Running, FlowInv, JobInv
      <3> QED
        BY <3>1 DEF RecordedEvents, Recorded, Deliveries
    <2>5. UNCHANGED RecordedEvents
      BY <1>2 DEF CommitWork, RecordedEvents
    <2>6. d \notin DoneDeliveries
      BY <2>1 DEF DoneDeliveries
    <2> QED
      BY <2>3, <2>4, <2>5, <2>6
      DEF Delivery!Deliver, RecordedEvents, DoneDeliveries
  <1>3. ASSUME ~ \E e \in Events : Record(e), ~ \E w \in Workers : CommitWork(w)
        PROVE  UNCHANGED << RecordedEvents, DoneDeliveries >>
    <2>1. UNCHANGED RecordedEvents
      BY <1>3, RecordedElsewhere DEF RecordedEvents, Recorded, RecordedThen
    <2>2. UNCHANGED DoneDeliveries
      BY <1>3, EffectsElsewhere DEF DoneDeliveries
    <2> QED
      BY <2>1, <2>2
  <1>4. CASE \E e \in Events : Record(e)
    BY <1>1, <1>4 DEF Delivery!Next
  <1>5. CASE \E w \in Workers : CommitWork(w)
    <2>1. \E d \in Delivery!Deliveries : Delivery!Deliver(d)
      <3> PICK w \in Workers : CommitWork(w)
        BY <1>5
      <3> PICK d \in Deliveries : d = Running(w)
        BY CommitApplies
      <3> QED
        BY <1>0, <1>2
    <2> QED
      BY <2>1 DEF Delivery!Next
  <1> QED
    BY <1>3, <1>4, <1>5

LEMMA EffectsStay ==
  ASSUME TypeInv, WorkInv, [Next]_vars, NEW d \in Deliveries, applied[d] > 0
  PROVE  applied'[d] = applied[d]
  <1>1. ASSUME NEW w \in Workers, CommitWork(w) PROVE applied'[d] = applied[d]
    BY <1>1, CommitApplies DEF TypeInv, TypeOK
  <1> QED
    BY <1>1, EffectsElsewhere

(* The work of a consumer takes effect at most once per event, and only for  *)
(* an event whose transaction committed: Outbox implements EventDelivery.    *)
THEOREM OutboxImplementsDelivery == Spec => EffectsHappenOnce
  <1>1. TypeInv /\ WorkInv /\ FlowInv /\ [Next]_vars =>
          [Delivery!Next]_<< RecordedEvents, DoneDeliveries >>
    BY DeliveryStep
  <1>2. TypeInv /\ WorkInv /\ FlowInv /\ [Next]_vars =>
          [\A d \in Deliveries : applied[d] > 0 => applied'[d] = applied[d]]_vars
    BY EffectsStay
  <1> QED
    BY <1>1, <1>2, DeliveryInit, FlowInvariance, PTL
    DEF Spec, EffectsHappenOnce, Delivery!Spec, RecordedEvents, DoneDeliveries

=============================================================================
