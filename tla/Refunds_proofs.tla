--------------------------- MODULE Refunds_proofs ----------------------------
(***************************************************************************)
(* Proofs about Refunds, for every set of events, SellerOrders, instances, *)
(* and every bound on attempts, stalls and restarts.                       *)
(***************************************************************************)
EXTENDS Refunds, QueueJob_proofs, FiniteSetTheorems

-----------------------------------------------------------------------------
(* Type correctness *)

(* What a handler that is not idle holds. *)
LEMMA HandlerFields ==
  ASSUME TypeOK, NEW i \in Instances, run[i].pc # "idle"
  PROVE  run[i] \in Handler
  BY DEF TypeOK, Idle

LEMMA HandlerMoves ==
  ASSUME NEW h \in Handler, NEW r \in Events, NEW k \in Nat,
         NEW pc \in {"started", "opening", "charge", "settle", "escalate",
                     "finished"}
  PROVE  /\ [h EXCEPT !.pc = pc] \in Handler
         /\ [h EXCEPT !.pc = pc, !.refund = r] \in Handler
         /\ [h EXCEPT !.pc = pc, !.final = FALSE, !.gatewayRef = k] \in Handler
  BY DEF Handler

LEMMA RefundMoves ==
  ASSUME NEW row \in RefundRow, NEW k \in Nat
  PROVE  /\ [row EXCEPT !.status = "PROCESSED", !.gatewayRef = k] \in RefundRow
         /\ [row EXCEPT !.status = "FAILED"] \in RefundRow
  BY DEF RefundRow, RefundStatuses

LEMMA ThrowTypes ==
  ASSUME TypeOK, NEW i \in Instances, run[i] \in Handler, Throw(i)
  PROVE  /\ job' \in [Events -> JobRow]
         /\ run' \in [Instances -> Handler \union {Idle}]
         /\ \A e \in Events : job'[e].state = "done" => job[e].state = "done"
         /\ run' = [run EXCEPT ![i] = Idle]
  <1> DEFINE e == run[i].event
  <1>1. e \in Events
    BY DEF Handler
  <1>2. job[e] \in JobRow
    BY <1>1 DEF TypeOK
  <1>3. job' = [job EXCEPT ![e] = Rejected(job[e], i)]
    BY DEF Throw
  <1>4. Rejected(job[e], i) \in JobRow
    BY <1>2, RejectedIsSound
  <1>5. Rejected(job[e], i).state = "done" => job[e].state = "done"
    BY <1>2, RejectedIsSound
  <1> HIDE DEF e
  <1>6. job' \in [Events -> JobRow]
    BY <1>1, <1>3, <1>4 DEF TypeOK
  <1>7. \A f \in Events : job'[f].state = "done" => job[f].state = "done"
    BY <1>1, <1>3, <1>5 DEF TypeOK
  <1> QED
    BY <1>6, <1>7 DEF Throw, TypeOK

LEMMA TypeInit == Init => TypeOK
  BY NoJobIsSound, RefundAssumption
  DEF Init, TypeOK, NoRefund, RefundRow, RefundStatuses

LEMMA TypeStep == TypeOK /\ [Next]_vars => TypeOK'
  <1> SUFFICES ASSUME TypeOK, [Next]_vars PROVE TypeOK'
    OBVIOUS
  <1>1. ASSUME NEW e \in Events, Relay(e) PROVE TypeOK'
    <2>1. Added(NoJob) \in JobRow
      BY NoJobIsSound, AddedIsSound
    <2>2. job' \in [Events -> JobRow]
      BY <1>1, <2>1 DEF Relay, TypeOK
    <2> QED
      BY <1>1, <2>2 DEF Relay, TypeOK
  <1>2. ASSUME NEW i \in Instances, NEW e \in Events, StartJob(i, e)
        PROVE  TypeOK'
    <2>1. Taken(job[e], i) \in JobRow
      BY <1>2, TakenIsSound DEF StartJob, TypeOK
    <2>2. job' \in [Events -> JobRow]
      BY <1>2, <2>1 DEF StartJob, TypeOK
    <2>3. IsFinalAttempt(e) \in BOOLEAN
      BY DEF IsFinalAttempt
    <2>4. [At("started", e) EXCEPT !.final = IsFinalAttempt(e)] \in Handler
      BY <2>3 DEF At, Handler
    <2>5. run' \in [Instances -> Handler \union {Idle}]
      BY <1>2, <2>4 DEF StartJob, TypeOK
    <2> QED
      BY <1>2, <2>2, <2>5 DEF StartJob, TypeOK
  <1>3. ASSUME NEW e \in Events, Stall(e) PROVE TypeOK'
    <2>1. Stalled(job[e]) \in JobRow
      BY <1>3, StalledIsSound DEF Stall, TypeOK
    <2>2. job' \in [Events -> JobRow]
      BY <1>3, <2>1 DEF Stall, TypeOK
    <2> QED
      BY <1>3, <2>2 DEF Stall, TypeOK
  <1>4. ASSUME NEW i \in Instances, Restart(i) PROVE TypeOK'
    <2>1. restarts' \in 0 .. MaxRestarts
      BY <1>4, RefundAssumption DEF Restart, TypeOK
    <2>2. keys' \in [Instances -> [Events -> Nat]]
      BY <1>4 DEF Restart, TypeOK
    <2> QED
      BY <1>4, <2>1, <2>2 DEF Restart, TypeOK
  <1>5. ASSUME NEW i \in Instances, Handle(i) PROVE TypeOK'
    <2>0. run[i] \in Handler
      BY <1>5, HandlerFields
      DEF Handle, ReadOpened, CommitOpened, ResumeOpened, Replay, Accept,
          Decline, SettleRefund, FailRefund, FailQuery, FinishJob
    <2>a. /\ run[i].event \in Events
          /\ run[i].refund \in Events
          /\ run[i].gatewayRef \in Nat
      BY <2>0 DEF Handler
    <2>b. Return(i) => run' \in [Instances -> Handler \union {Idle}]
      <3>1. At("finished", run[i].event) \in Handler
        BY <2>a DEF At, Handler
      <3> QED
        BY <3>1 DEF Return, TypeOK
    <2>c. \A pc \in {"charge", "settle", "escalate"} :
            Continue(i, pc) => run' \in [Instances -> Handler \union {Idle}]
      BY <2>0, <2>a, HandlerMoves DEF Continue, TypeOK
    <2>1. CASE ReadOpened(i)
      <3>1. PICK r \in Events :
              run' = [run EXCEPT ![i] =
                        [run[i] EXCEPT !.pc = "opening", !.refund = r]]
        BY <2>1, <2>a DEF ReadOpened, Found, RefundsOf, Opened
      <3>2. run' \in [Instances -> Handler \union {Idle}]
        BY <2>0, <3>1, HandlerMoves DEF TypeOK
      <3> QED
        BY <2>1, <3>2 DEF ReadOpened, TypeOK
    <2>2. CASE CommitOpened(i)
      <3>1. Cardinality(Opened) \in Nat
        BY RefundAssumption, FS_Subset, FS_CardinalityType DEF Opened
      <3>2. refund' \in [Events -> RefundRow]
        <4>1. CASE UNCHANGED refund
          BY <4>1 DEF TypeOK
        <4>2. CASE run[i].refund = run[i].event
          <5>1. PICK at \in Int :
                  refund' = [refund EXCEPT ![run[i].event] =
                    [status |-> "REQUESTED", gatewayRef |-> 0, requestedAt |-> at]]
            BY <2>2, <3>1, <4>2 DEF CommitOpened
          <5>2. [status |-> "REQUESTED", gatewayRef |-> 0, requestedAt |-> at]
                  \in RefundRow
            BY DEF RefundRow, RefundStatuses
          <5> QED
            BY <5>1, <5>2 DEF TypeOK
        <4> QED
          BY <2>2, <4>1, <4>2 DEF CommitOpened
      <3> QED
        BY <2>2, <2>a, <2>c, <3>2 DEF CommitOpened, TypeOK
    <2>3. CASE ResumeOpened(i)
      <3>1. \/ \E r \in Events :
                 run' = [run EXCEPT ![i] =
                           [run[i] EXCEPT !.pc = "charge", !.refund = r]]
            \/ Return(i)
        BY <2>3 DEF ResumeOpened, Found, RefundsOf, Opened
      <3>2. ASSUME NEW r \in Events,
                   run' = [run EXCEPT ![i] =
                             [run[i] EXCEPT !.pc = "charge", !.refund = r]]
            PROVE  run' \in [Instances -> Handler \union {Idle}]
        <4>1. [run[i] EXCEPT !.pc = "charge", !.refund = r] \in Handler
          BY <2>0, HandlerMoves
        <4> QED
          BY <3>2, <4>1 DEF TypeOK
      <3>3. run' \in [Instances -> Handler \union {Idle}]
        BY <2>b, <3>1, <3>2
      <3> QED
        BY <2>3, <3>3 DEF ResumeOpened, TypeOK
    <2>4. CASE Replay(i)
      <3>1. keys[i][run[i].refund] \in Nat
        BY <2>a DEF TypeOK
      <3>2. run' \in [Instances -> Handler \union {Idle}]
        BY <2>0, <2>4, <3>1, HandlerMoves, <2>a DEF Replay, TypeOK
      <3> QED
        BY <2>4, <3>2 DEF Replay, TypeOK
    <2>5. CASE Accept(i)
      <3>1. transfers[run[i].refund] + 1 \in Nat
        BY <2>a DEF TypeOK
      <3>2. run' \in [Instances -> Handler \union {Idle}]
        BY <2>0, <2>5, <3>1, HandlerMoves, <2>a DEF Accept, TypeOK
      <3>3. /\ keys' \in [Instances -> [Events -> Nat]]
            /\ transfers' \in [Events -> Nat]
        BY <2>5, <2>a, <3>1 DEF Accept, TypeOK
      <3> QED
        BY <2>5, <3>2, <3>3 DEF Accept, TypeOK
    <2>6. CASE Decline(i)
      <3>1. CASE run[i].final
        BY <2>6, <2>c, <3>1 DEF Decline, LastDecline, TypeOK
      <3>2. CASE ~run[i].final
        <4>1. Throw(i)
          BY <2>6, <3>2 DEF Decline
        <4>2. /\ job' \in [Events -> JobRow]
              /\ run' \in [Instances -> Handler \union {Idle}]
          BY <4>1, <2>0, ThrowTypes
        <4> QED
          BY <2>6, <4>2 DEF Decline, TypeOK
      <3> QED
        BY <3>1, <3>2
    <2>7. CASE SettleRefund(i)
      <3>1. refund' \in [Events -> RefundRow]
        BY <2>7, <2>a, RefundMoves DEF SettleRefund, TypeOK
      <3> QED
        BY <2>7, <2>b, <3>1 DEF SettleRefund, TypeOK
    <2>8. CASE FailRefund(i)
      <3>1. refund' \in [Events -> RefundRow]
        BY <2>8, <2>a, RefundMoves DEF FailRefund, TypeOK
      <3> QED
        BY <2>8, <2>b, <3>1 DEF FailRefund, TypeOK
    <2>9. CASE FailQuery(i)
      <3>1. /\ job' \in [Events -> JobRow]
            /\ run' \in [Instances -> Handler \union {Idle}]
        BY <2>9, <2>0, ThrowTypes DEF FailQuery
      <3> QED
        BY <2>9, <3>1 DEF FailQuery, TypeOK
    <2>10. CASE FinishJob(i)
      <3>1. Completed(job[run[i].event], i) \in JobRow
        BY <2>a, CompletedIsSound DEF TypeOK
      <3>2. job' \in [Events -> JobRow]
        BY <2>10, <3>1, <2>a DEF FinishJob, TypeOK
      <3> QED
        BY <2>10, <3>2 DEF FinishJob, TypeOK
    <2> QED
      BY <1>5, <2>1, <2>2, <2>3, <2>4, <2>5, <2>6, <2>7, <2>8, <2>9, <2>10
      DEF Handle
  <1>6. CASE UNCHANGED vars
    BY <1>6 DEF vars, TypeOK
  <1> QED
    BY <1>1, <1>2, <1>3, <1>4, <1>5, <1>6 DEF Next

(* The rows, jobs, handlers and gateways of Refunds keep their types: no    *)
(* attempt or stall is counted past its limit.                              *)
THEOREM TypeCorrect == Spec => []TypeOK
  BY TypeInit, TypeStep, PTL DEF Spec

-----------------------------------------------------------------------------
(* Answers.  A job is done only when a refund of its SellerOrder has a       *)
(* verdict.  The induction needs what a handler found in step 1 to be still  *)
(* there in step 3, and that no one but the transaction that inserts the     *)
(* marker of an event creates the refund named after it.                     *)

Answered(e) ==
  \E r \in RefundsOf(OrderOf[e]) : refund[r].status \in Terminal

(* A refund is committed with its event's marker, and no marker without one. *)
MarkedInv ==
  /\ Opened \subseteq processed
  /\ \A e \in processed : RefundsOf(OrderOf[e]) # {}

OpeningInv ==
  \A i \in Instances :
    run[i].pc = "opening" =>
      /\ run[i].event \notin processed
      /\ \/ run[i].refund = run[i].event
         \/ run[i].refund \in RefundsOf(OrderOf[run[i].event])
      /\ \A j \in Instances :
           run[j].pc = "opening" /\ run[j].event = run[i].event => j = i

HandlerInv ==
  \A i \in Instances :
    /\ run[i].pc \in {"charge", "settle", "escalate"} =>
         run[i].refund \in RefundsOf(OrderOf[run[i].event])
    /\ run[i].pc = "finished" => Answered(run[i].event)

AnswerInv == MarkedInv /\ OpeningInv /\ HandlerInv /\ DoneMeansAnswered

(* What one step does to the rows, and the step of VerdictIsFinal. *)
RowsGrow ==
  \A r \in Events :
    /\ refund[r].status # "none" => refund'[r].status # "none"
    /\ refund[r].status \in Terminal => refund'[r] = refund[r]

LEMMA GrowthKeepsAnswers ==
  ASSUME RowsGrow
  PROVE  \A e \in Events :
           /\ RefundsOf(OrderOf[e]) \subseteq RefundsOf(OrderOf[e])'
           /\ Answered(e) => Answered(e)'
  BY DEF RowsGrow, Answered, RefundsOf, Opened

LEMMA VerdictWritten ==
  ASSUME TypeOK, NEW i \in Instances, run[i] \in Handler,
         SettleRefund(i) \/ FailRefund(i), Pending(run[i].refund)
  PROVE  \E row \in RefundRow :
           /\ refund' = [refund EXCEPT ![run[i].refund] = row]
           /\ row.status \in Terminal
  <1> DEFINE r == run[i].refund
  <1>1. r \in Events /\ refund[r] \in RefundRow
    BY DEF Handler, TypeOK
  <1>2. CASE SettleRefund(i)
    <2> DEFINE row == [refund[r] EXCEPT !.status = "PROCESSED",
                                        !.gatewayRef = run[i].gatewayRef]
    <2>1. row \in RefundRow
      BY <1>1, RefundMoves DEF Handler
    <2>2. row.status \in Terminal
      BY <1>1 DEF RefundRow, Terminal
    <2>3. refund' = [refund EXCEPT ![r] = row]
      BY <1>2 DEF SettleRefund
    <2> QED
      BY <2>1, <2>2, <2>3
  <1>3. CASE FailRefund(i)
    <2> DEFINE row == [refund[r] EXCEPT !.status = "FAILED"]
    <2>1. row \in RefundRow
      BY <1>1, RefundMoves
    <2>2. row.status \in Terminal
      BY <1>1 DEF RefundRow, Terminal
    <2>3. refund' = [refund EXCEPT ![r] = row]
      BY <1>3 DEF FailRefund
    <2> QED
      BY <2>1, <2>2, <2>3
  <1> QED
    BY <1>2, <1>3

(* No step takes a row away or touches one that has a verdict. *)
LEMMA RowsOnlyGrow ==
  ASSUME TypeOK, AnswerInv, [Next]_vars
  PROVE  RowsGrow
  <1>1. ASSUME NEW i \in Instances, CommitOpened(i) PROVE RowsGrow
    <2>1. run[i] \in Handler
      BY <1>1, HandlerFields DEF CommitOpened
    <2>2. /\ run[i].event \in Events
          /\ run[i].event \notin processed
      BY <1>1, <2>1 DEF CommitOpened, AnswerInv, OpeningInv, Handler
    <2>3. refund[run[i].event].status = "none"
      BY <2>2 DEF AnswerInv, MarkedInv, Opened
    <2> QED
      BY <1>1, <2>2, <2>3 DEF CommitOpened, RowsGrow, Terminal, TypeOK
  <1>2. ASSUME NEW i \in Instances, SettleRefund(i) \/ FailRefund(i)
        PROVE  RowsGrow
    <2>1. run[i] \in Handler
      BY <1>2, HandlerFields DEF SettleRefund, FailRefund
    <2> DEFINE r == run[i].refund
    <2>2. r \in Events /\ refund[r] \in RefundRow
      BY <2>1 DEF Handler, TypeOK
    <2>3. CASE ~Pending(r)
      <3>1. UNCHANGED refund
        BY <1>2, <2>3 DEF SettleRefund, FailRefund
      <3> QED
        BY <3>1 DEF RowsGrow
    <2>4. CASE Pending(r)
      <3>1. PICK row \in RefundRow :
              /\ refund' = [refund EXCEPT ![r] = row]
              /\ row.status \in Terminal
        BY <1>2, <2>1, <2>4, VerdictWritten
      <3> HIDE DEF r
      <3>2. refund[r].status \notin Terminal
        BY <2>4 DEF Pending, Terminal
      <3> QED
        BY <2>2, <3>1, <3>2 DEF RowsGrow, Terminal, TypeOK
    <2> QED
      BY <2>3, <2>4
  <1>3. CASE UNCHANGED refund
    BY <1>3 DEF RowsGrow
  <1>4. \/ \E i \in Instances :
             CommitOpened(i) \/ SettleRefund(i) \/ FailRefund(i)
        \/ UNCHANGED refund
    BY DEF Next, vars, Handle, Relay, StartJob, Stall, Restart, ReadOpened,
           ResumeOpened, Replay, Accept, Decline, FailQuery, FinishJob
  <1> QED
    BY <1>1, <1>2, <1>3, <1>4

(* What a handler has to hold after a step, the rows being what they are then. *)
Later(s) == {r \in Events : refund'[r].status # "none" /\ OrderOf[r] = s}
Fits(h) ==
  /\ h.pc \in {"charge", "settle", "escalate"} =>
       h.refund \in Later(OrderOf[h.event])
  /\ h.pc = "finished" =>
       \E r \in Later(OrderOf[h.event]) : refund'[r].status \in Terminal

LEMMA LaterHolds ==
  ASSUME RowsGrow, NEW e \in Events
  PROVE  /\ RefundsOf(OrderOf[e]) \subseteq Later(OrderOf[e])
         /\ Answered(e) =>
              \E r \in Later(OrderOf[e]) : refund'[r].status \in Terminal
  BY DEF RowsGrow, Later, RefundsOf, Opened, Answered

(* A step of handler i that does not begin to open a refund. *)
LEMMA MoveHandler ==
  ASSUME TypeOK, AnswerInv, RowsGrow, NEW i \in Instances, NEW h,
         run' = [run EXCEPT ![i] = h], h.pc # "opening", Fits(h),
         \A j \in Instances :
           j # i /\ run[j].pc = "opening" => run[j].event \notin processed'
  PROVE  OpeningInv' /\ HandlerInv'
  <1>1. \A j \in Instances : run'[j] = IF j = i THEN h ELSE run[j]
    BY DEF TypeOK
  <1>2. ASSUME NEW j \in Instances, j # i, run[j].pc # "idle" PROVE Fits(run[j])
    <2>1. run[j].event \in Events
      BY <1>2, HandlerFields DEF Handler
    <2> QED
      BY <2>1, LaterHolds DEF Fits, AnswerInv, HandlerInv
  <1>3. \A j \in Instances : run'[j].pc # "idle" => Fits(run'[j])
    BY <1>1, <1>2
  <1>4. HandlerInv'
    BY <1>3 DEF HandlerInv, Fits, Later, Answered, RefundsOf, Opened
  <1>5. ASSUME NEW j \in Instances, run'[j].pc = "opening"
        PROVE  /\ j # i /\ run'[j] = run[j]
               /\ run[j].event \notin processed'
               /\ run[j].refund = run[j].event
                    \/ run[j].refund \in Later(OrderOf[run[j].event])
    <2>1. j # i /\ run'[j] = run[j]
      BY <1>1, <1>5
    <2>2. run[j].event \in Events
      BY <1>5, <2>1, HandlerFields DEF Handler
    <2> QED
      BY <1>5, <2>1, <2>2, LaterHolds DEF AnswerInv, OpeningInv
  <1>6. OpeningInv'
    BY <1>5 DEF AnswerInv, OpeningInv, Later, RefundsOf, Opened
  <1> QED
    BY <1>4, <1>6

LEMMA DoneStep ==
  ASSUME RowsGrow, DoneMeansAnswered,
         \A e \in Events :
           job'[e].state = "done" => job[e].state = "done" \/ Answered(e)
  PROVE  DoneMeansAnswered'
  BY GrowthKeepsAnswers DEF DoneMeansAnswered, Answered

(* A handler that returns, goes idle or throws leaves rows and markers alone. *)
LEMMA UntouchedRows ==
  ASSUME TypeOK, AnswerInv, UNCHANGED << processed, refund >>
  PROVE  /\ RowsGrow
         /\ MarkedInv'
         /\ \A j \in Instances :
              run[j].pc = "opening" => run[j].event \notin processed'
         /\ \A e \in Events : RefundsOf(OrderOf[e]) = Later(OrderOf[e])
  BY DEF RowsGrow, AnswerInv, MarkedInv, OpeningInv, Opened, RefundsOf, Later

LEMMA GoIdle ==
  ASSUME TypeOK, AnswerInv, NEW i \in Instances,
         run' = [run EXCEPT ![i] = Idle], UNCHANGED << processed, refund >>
  PROVE  MarkedInv' /\ OpeningInv' /\ HandlerInv'
  <1>1. Idle.pc = "idle"
    BY DEF Idle
  <1>2. Fits(Idle)
    BY <1>1 DEF Fits
  <1>3. /\ RowsGrow
        /\ MarkedInv'
        /\ \A j \in Instances :
             j # i /\ run[j].pc = "opening" => run[j].event \notin processed'
    BY UntouchedRows
  <1> QED
    BY <1>1, <1>2, <1>3, MoveHandler

LEMMA AnswerInit == Init => AnswerInv
  BY DEF Init, AnswerInv, MarkedInv, OpeningInv, HandlerInv, DoneMeansAnswered,
         Opened, NoRefund, Idle, NoJob

LEMMA AnswerStep == TypeOK /\ AnswerInv /\ [Next]_vars => AnswerInv'
  <1> SUFFICES ASSUME TypeOK, AnswerInv, [Next]_vars PROVE AnswerInv'
    OBVIOUS
  <1> USE RowsOnlyGrow
  <1>d. DoneMeansAnswered
    BY DEF AnswerInv
  <1>1. ASSUME NEW e \in Events, Relay(e) \/ Stall(e) PROVE AnswerInv'
    <2>1. UNCHANGED << processed, refund, run >>
      BY <1>1 DEF Relay, Stall
    <2>2. MarkedInv' /\ OpeningInv' /\ HandlerInv'
      BY <2>1 DEF AnswerInv, MarkedInv, OpeningInv, HandlerInv, Answered,
                  RefundsOf, Opened
    <2>3. \A f \in Events : job'[f].state = "done" => job[f].state = "done"
      <3>1. CASE Relay(e)
        <4>1. Added(NoJob).state = "waiting"
          BY DEF Added, Fresh, NoJob
        <4> QED
          BY <3>1, <4>1 DEF Relay, TypeOK
      <3>2. CASE Stall(e)
        <4>1. Stalled(job[e]).state # "done"
          BY <3>2, StalledIsSound DEF Stall, TypeOK
        <4> QED
          BY <3>2, <4>1 DEF Stall, TypeOK
      <3> QED
        BY <1>1, <3>1, <3>2
    <2> QED
      BY <1>d, <2>2, <2>3, DoneStep DEF AnswerInv
  <1>2. ASSUME NEW i \in Instances, NEW e \in Events, StartJob(i, e)
        PROVE  AnswerInv'
    <2> DEFINE h == [At("started", e) EXCEPT !.final = IsFinalAttempt(e)]
    <2>1. /\ run' = [run EXCEPT ![i] = h]
          /\ h.pc = "started"
      BY <1>2 DEF StartJob, At
    <2> HIDE DEF h
    <2>a. Fits(h)
      BY <2>1 DEF Fits
    <2>2. MarkedInv' /\ OpeningInv' /\ HandlerInv'
      <3>1. UNCHANGED << processed, refund >>
        BY <1>2 DEF StartJob
      <3>2. /\ RowsGrow
            /\ MarkedInv'
            /\ \A j \in Instances :
                 j # i /\ run[j].pc = "opening" => run[j].event \notin processed'
        BY <3>1, UntouchedRows
      <3> QED
        BY <2>1, <2>a, <3>2, MoveHandler
    <2>3. \A f \in Events : job'[f].state = "done" => job[f].state = "done"
      <3>1. Taken(job[e], i).state # "done"
        BY <1>2, TakenIsSound DEF StartJob, TypeOK
      <3> QED
        BY <1>2, <3>1 DEF StartJob, TypeOK
    <2> QED
      BY <1>d, <2>2, <2>3, DoneStep DEF AnswerInv
  <1>3. ASSUME NEW i \in Instances, Restart(i) PROVE AnswerInv'
    <2>1. MarkedInv' /\ OpeningInv' /\ HandlerInv'
      BY <1>3, GoIdle DEF Restart
    <2> QED
      BY <1>3, <1>d, <2>1, DoneStep DEF AnswerInv, Restart
  <1>4. ASSUME NEW i \in Instances, Handle(i) PROVE AnswerInv'
    <2>0. run[i] \in Handler
      BY <1>4, HandlerFields
      DEF Handle, ReadOpened, CommitOpened, ResumeOpened, Replay, Accept,
          Decline, SettleRefund, FailRefund, FailQuery, FinishJob
    <2>a. run[i].event \in Events /\ run[i].refund \in Events
      BY <2>0 DEF Handler
    <2>b. ASSUME Throw(i), UNCHANGED << processed, refund >> PROVE AnswerInv'
      <3>1. /\ run' = [run EXCEPT ![i] = Idle]
            /\ \A e \in Events : job'[e].state = "done" => job[e].state = "done"
        BY <2>0, <2>b, ThrowTypes
      <3>2. MarkedInv' /\ OpeningInv' /\ HandlerInv'
        BY <2>b, <3>1, GoIdle
      <3> QED
        BY <1>d, <3>1, <3>2, DoneStep DEF AnswerInv
    <2>1. CASE ReadOpened(i)
      <3> DEFINE e == run[i].event
      <3>1. PICK r \in Events :
              /\ run' = [run EXCEPT ![i] =
                           [run[i] EXCEPT !.pc = "opening", !.refund = r]]
              /\ r = e \/ r \in RefundsOf(OrderOf[e])
        BY <2>1, <2>a DEF ReadOpened, Found, RefundsOf, Opened
      <3>2. \A j \in Instances :
              IF j = i
              THEN /\ run'[j].pc = "opening"
                   /\ run'[j].event = e
                   /\ run'[j].refund = r
              ELSE run'[j] = run[j]
        BY <2>0, <3>1 DEF TypeOK, Handler
      <3>3. UNCHANGED << processed, refund, job >>
        BY <2>1 DEF ReadOpened
      <3>4. /\ e \notin processed
            /\ \A j \in Instances : run[j].pc = "opening" => run[j].event # e
        BY <2>1 DEF ReadOpened, MarkerFree
      <3> HIDE DEF e
      <3>5. OpeningInv'
        BY <3>1, <3>2, <3>3, <3>4
        DEF AnswerInv, OpeningInv, RefundsOf, Opened
      <3>6. HandlerInv'
        BY <3>2, <3>3 DEF AnswerInv, HandlerInv, RefundsOf, Opened, Answered
      <3>7. MarkedInv' /\ DoneMeansAnswered'
        BY <1>d, <3>3, UntouchedRows, DoneStep
      <3> QED
        BY <3>5, <3>6, <3>7 DEF AnswerInv
    <2>2. CASE CommitOpened(i)
      <3> DEFINE e == run[i].event
      <3>1. /\ e \in Events /\ e \notin processed
            /\ run[i].refund = e \/ run[i].refund \in RefundsOf(OrderOf[e])
            /\ \A j \in Instances :
                 j # i /\ run[j].pc = "opening" => run[j].event \notin processed'
        BY <2>2, <2>a DEF CommitOpened, AnswerInv, OpeningInv
      <3>2. run[i].refund = e => refund'[e].status = "REQUESTED"
        BY <2>2, <3>1 DEF CommitOpened, TypeOK
      <3>3. run[i].refund \in Later(OrderOf[e])
        BY <3>1, <3>2, LaterHolds DEF Later
      <3>4. OpeningInv' /\ HandlerInv'
        <4>1. [run[i] EXCEPT !.pc = "charge"].event = e
          BY <2>0 DEF Handler
        <4>2. [run[i] EXCEPT !.pc = "charge"].refund = run[i].refund
          BY <2>0 DEF Handler
        <4>3. [run[i] EXCEPT !.pc = "charge"].pc = "charge"
          BY <2>0 DEF Handler
        <4>4. Fits([run[i] EXCEPT !.pc = "charge"])
          BY <3>3, <4>1, <4>2, <4>3 DEF Fits
        <4>5. run' = [run EXCEPT ![i] = [run[i] EXCEPT !.pc = "charge"]]
          BY <2>2 DEF CommitOpened, Continue
        <4> QED
          BY <3>1, <4>3, <4>4, <4>5, MoveHandler
      <3>5. MarkedInv'
        <4>1. processed' = processed \union {e}
          BY <2>2 DEF CommitOpened
        <4>2. Opened' \subseteq Opened \union {e}
          BY <2>2, <3>1 DEF CommitOpened, Opened, TypeOK
        <4>3. Later(OrderOf[e]) # {}
          BY <3>3
        <4>4. \A f \in processed : Later(OrderOf[f]) # {}
          BY LaterHolds DEF AnswerInv, MarkedInv, TypeOK
        <4>5. \A f \in processed' : Later(OrderOf[f]) # {}
          BY <4>1, <4>3, <4>4
        <4>6. Opened' \subseteq processed'
          BY <4>1, <4>2 DEF AnswerInv, MarkedInv
        <4> QED
          BY <4>5, <4>6 DEF MarkedInv, Later, RefundsOf, Opened
      <3>6. DoneMeansAnswered'
        BY <2>2, <1>d, DoneStep DEF CommitOpened
      <3> QED
        BY <3>4, <3>5, <3>6 DEF AnswerInv
    <2>c. ASSUME Return(i), Answered(run[i].event) \/
                   \E r \in Later(OrderOf[run[i].event]) :
                     refund'[r].status \in Terminal,
                 UNCHANGED processed, MarkedInv', UNCHANGED job
          PROVE  AnswerInv'
      <3> DEFINE h == At("finished", run[i].event)
      <3>1. h.pc = "finished" /\ h.event = run[i].event
        BY DEF At
      <3>2. run' = [run EXCEPT ![i] = h]
        BY <2>c DEF Return
      <3> HIDE DEF h
      <3>3. Fits(h)
        BY <2>a, <2>c, <3>1, LaterHolds DEF Fits
      <3>4. \A j \in Instances :
              j # i /\ run[j].pc = "opening" => run[j].event \notin processed'
        BY <2>c DEF AnswerInv, OpeningInv
      <3>5. OpeningInv' /\ HandlerInv'
        BY <3>1, <3>2, <3>3, <3>4, MoveHandler
      <3> QED
        BY <1>d, <2>c, <3>5, DoneStep DEF AnswerInv
    <2>d. ASSUME NEW h \in Handler, run' = [run EXCEPT ![i] = h],
                 h.pc \in {"charge", "settle", "escalate"},
                 h.event = run[i].event,
                 h.refund \in RefundsOf(OrderOf[run[i].event]),
                 UNCHANGED << processed, refund, job >>
          PROVE  AnswerInv'
      <3>1. Fits(h)
        BY <2>a, <2>d, LaterHolds DEF Fits
      <3>2. /\ MarkedInv'
            /\ \A j \in Instances :
                 j # i /\ run[j].pc = "opening" => run[j].event \notin processed'
        BY <2>d, UntouchedRows
      <3>3. OpeningInv' /\ HandlerInv'
        BY <2>d, <3>1, <3>2, MoveHandler
      <3> QED
        BY <1>d, <2>d, <3>2, <3>3, DoneStep DEF AnswerInv
    <2>3. CASE ResumeOpened(i)
      <3> DEFINE s == OrderOf[run[i].event]
      <3>1. UNCHANGED << processed, refund, job >>
        BY <2>3 DEF ResumeOpened
      <3>2. ASSUME NEW r \in Found(s), Resumable(r),
                   run' = [run EXCEPT ![i] =
                             [run[i] EXCEPT !.pc = "charge", !.refund = r]]
            PROVE  AnswerInv'
        <4> DEFINE h == [run[i] EXCEPT !.pc = "charge", !.refund = r]
        <4>1. r \in Events /\ r \in RefundsOf(s)
          BY DEF Found, RefundsOf, Opened
        <4>2. /\ h \in Handler /\ h.pc = "charge" /\ h.refund = r
              /\ h.event = run[i].event
          BY <2>0, <4>1 DEF Handler
        <4>3. run' = [run EXCEPT ![i] = h]
          BY <3>2
        <4> HIDE DEF h
        <4> QED
          BY <2>d, <3>1, <4>1, <4>2, <4>3
      <3>3. ASSUME Return(i), RefundsOf(s) = {} \/ \E r \in Found(s) : ~Resumable(r)
            PROVE  AnswerInv'
        <4>1. RefundsOf(s) # {}
          BY <2>3 DEF ResumeOpened, AnswerInv, MarkedInv
        <4>2. PICK r \in Found(s) : ~Resumable(r)
          BY <3>3, <4>1
        <4>3. r \in RefundsOf(s) /\ refund[r].status \in Terminal
          BY <4>2
             DEF Found, RefundsOf, Opened, Resumable, Terminal, TypeOK, RefundRow, RefundStatuses
        <4>4. Answered(run[i].event)
          BY <4>3 DEF Answered
        <4>5. MarkedInv'
          BY <3>1, UntouchedRows
        <4> QED
          BY <2>c, <3>1, <3>3, <4>4, <4>5
      <3> QED
        BY <2>3, <3>2, <3>3 DEF ResumeOpened
    <2>4. CASE Replay(i) \/ Accept(i)
      <3> DEFINE r == run[i].refund
                 k == IF Known(i) THEN keys[i][r] ELSE transfers[r] + 1
      <3>1. run' = [run EXCEPT ![i] =
              [run[i] EXCEPT !.pc = "settle", !.final = FALSE, !.gatewayRef = k]]
        BY <2>4 DEF Replay, Accept
      <3>a. k \in Nat
        BY <2>a DEF TypeOK
      <3> HIDE DEF k, r
      <3> DEFINE h == [run[i] EXCEPT !.pc = "settle", !.final = FALSE,
                                     !.gatewayRef = k]
      <3>2. /\ h \in Handler /\ h.pc = "settle" /\ h.refund = run[i].refund
            /\ h.event = run[i].event
        BY <2>0, <3>a DEF Handler
      <3>3. run[i].refund \in RefundsOf(OrderOf[run[i].event])
        BY <2>4 DEF Replay, Accept, AnswerInv, HandlerInv
      <3>4. run' = [run EXCEPT ![i] = h]
        BY <3>1
      <3> HIDE DEF h
      <3> QED
        BY <2>4, <2>d, <3>2, <3>3, <3>4 DEF Replay, Accept
    <2>5. CASE Decline(i)
      <3>1. CASE run[i].final
        <4> DEFINE h == [run[i] EXCEPT !.pc = "escalate"]
        <4>1. /\ h \in Handler /\ h.pc = "escalate" /\ h.refund = run[i].refund
              /\ h.event = run[i].event
          BY <2>0 DEF Handler
        <4>2. run' = [run EXCEPT ![i] = h] /\ UNCHANGED job
          BY <2>5, <3>1 DEF Decline, Continue, LastDecline
        <4>3. run[i].refund \in RefundsOf(OrderOf[run[i].event])
          BY <2>5 DEF Decline, AnswerInv, HandlerInv
        <4> HIDE DEF h
        <4> QED
          BY <2>5, <2>d, <4>1, <4>2, <4>3 DEF Decline
      <3>2. CASE ~run[i].final
        BY <2>5, <2>b, <3>2 DEF Decline
      <3> QED
        BY <3>1, <3>2
    <2>6. CASE SettleRefund(i) \/ FailRefund(i)
      <3> DEFINE r == run[i].refund
      <3>1. r \in RefundsOf(OrderOf[run[i].event])
        BY <2>6 DEF SettleRefund, FailRefund, AnswerInv, HandlerInv
      <3>2. refund'[r].status \in Terminal
        <4>1. refund[r] \in RefundRow /\ refund[r].status # "none"
          BY <2>a, <3>1 DEF TypeOK, RefundsOf, Opened
        <4>2. CASE ~Pending(r)
          BY <2>6, <4>1, <4>2
          DEF SettleRefund, FailRefund, Pending, Terminal, RefundRow,
              RefundStatuses
        <4>3. CASE Pending(r)
          BY <2>0, <2>6, <2>a, <4>3, VerdictWritten DEF TypeOK
        <4> QED
          BY <4>2, <4>3
      <3>3. r \in Later(OrderOf[run[i].event])
        BY <2>a, <3>1, LaterHolds
      <3>4. /\ Return(i)
            /\ UNCHANGED << processed, job >>
        BY <2>6 DEF SettleRefund, FailRefund
      <3>5. Opened' = Opened
        BY <2>6, <2>a, <3>1 DEF SettleRefund, FailRefund, Opened, RefundsOf,
                          TypeOK, RefundRow
      <3>6. MarkedInv'
        BY <3>4, <3>5 DEF AnswerInv, MarkedInv, RefundsOf
      <3> QED
        BY <2>c, <3>2, <3>3, <3>4, <3>6
    <2>7. CASE FailQuery(i)
      BY <2>7, <2>b DEF FailQuery
    <2>8. CASE FinishJob(i)
      <3>1. MarkedInv' /\ OpeningInv' /\ HandlerInv'
        BY <2>8, GoIdle DEF FinishJob
      <3>2. Answered(run[i].event)
        BY <2>8 DEF FinishJob, AnswerInv, HandlerInv
      <3>3. \A e \in Events :
              job'[e].state = "done" => job[e].state = "done" \/ Answered(e)
        BY <2>8, <2>a, <3>2 DEF FinishJob, TypeOK
      <3> QED
        BY <1>d, <3>1, <3>3, DoneStep DEF AnswerInv
    <2> QED
      BY <1>4, <2>1, <2>2, <2>3, <2>4, <2>5, <2>6, <2>7, <2>8 DEF Handle
  <1>5. CASE UNCHANGED vars
    BY <1>5, <1>d, DoneStep, UntouchedRows
    DEF vars, AnswerInv, OpeningInv, HandlerInv, Answered, RefundsOf, Opened
  <1> QED
    BY <1>1, <1>2, <1>3, <1>4, <1>5 DEF Next

LEMMA AnswerInvariance == Spec => [](TypeOK /\ AnswerInv)
  BY TypeInit, TypeStep, AnswerInit, AnswerStep, PTL DEF Spec

(* A job of the saga completes only when a refund of its SellerOrder is      *)
(* settled or escalated.                                                     *)
THEOREM DoneJobsAreAnswered == Spec => []DoneMeansAnswered
  BY AnswerInvariance, PTL DEF AnswerInv

(* A settled or escalated refund is never written again. *)
THEOREM VerdictsStay == Spec => VerdictIsFinal
  <1>1. TypeOK /\ AnswerInv /\ [Next]_vars =>
          [\A r \in Events :
             refund[r].status \in Terminal => refund'[r] = refund[r]]_vars
    BY RowsOnlyGrow DEF RowsGrow
  <1> QED
    BY <1>1, AnswerInvariance, PTL DEF Spec, VerdictIsFinal

-----------------------------------------------------------------------------
(* Money.  A key that a gateway holds, and a reference that a handler holds, *)
(* are transfers that were made.                                             *)

KeysInv == \A i \in Instances, r \in Events : keys[i][r] <= transfers[r]
ReferenceInv ==
  \A i \in Instances :
    run[i].pc = "settle" => run[i].gatewayRef \in 1 .. transfers[run[i].refund]
MoneyInv == KeysInv /\ ReferenceInv /\ ProcessedMeansPaid

LEMMA MoneyInit == Init => MoneyInv
  BY DEF Init, MoneyInv, KeysInv, ReferenceInv, ProcessedMeansPaid, Idle,
         NoRefund

(* Steps that move no money, name no transfer and settle nothing. *)
LEMMA MoneyKept ==
  ASSUME TypeOK, MoneyInv, NEW i \in Instances, UNCHANGED << transfers, keys >>,
         \A j \in Instances \ {i} : run'[j] = run[j],
         run'[i].pc # "settle",
         \A r \in Events : refund'[r].status = "PROCESSED" =>
           refund'[r].gatewayRef = refund[r].gatewayRef
             /\ refund[r].status = "PROCESSED"
  PROVE  MoneyInv'
  BY DEF MoneyInv, KeysInv, ReferenceInv, ProcessedMeansPaid

LEMMA MoneyStep == TypeOK /\ MoneyInv /\ [Next]_vars => MoneyInv'
  <1> SUFFICES ASSUME TypeOK, MoneyInv, [Next]_vars PROVE MoneyInv'
    OBVIOUS
  <1>1. ASSUME NEW e \in Events, Relay(e) \/ Stall(e) PROVE MoneyInv'
    BY <1>1 DEF Relay, Stall, MoneyInv, KeysInv, ReferenceInv, ProcessedMeansPaid
  <1>2. ASSUME NEW i \in Instances, NEW e \in Events, StartJob(i, e)
        PROVE  MoneyInv'
    <2>1. run'[i].pc = "started"
      BY <1>2 DEF StartJob, At, TypeOK
    <2> QED
      BY <1>2, <2>1, MoneyKept DEF StartJob, TypeOK
  <1>3. ASSUME NEW i \in Instances, Restart(i) PROVE MoneyInv'
    <2>1. \A j \in Instances :
            run'[j] = IF j = i THEN Idle ELSE run[j]
      BY <1>3 DEF Restart, TypeOK
    <2>2. ReferenceInv' /\ ProcessedMeansPaid'
      BY <1>3, <2>1
      DEF Restart, Idle, MoneyInv, ReferenceInv, ProcessedMeansPaid
    <2>3. \A j \in Instances, r \in Events :
            keys'[j][r] = IF j = i THEN 0 ELSE keys[j][r]
      BY <1>3 DEF Restart, TypeOK
    <2>4. KeysInv'
      BY <1>3, <2>3 DEF Restart, MoneyInv, KeysInv, TypeOK
    <2> QED
      BY <2>2, <2>4 DEF MoneyInv
  <1>4. ASSUME NEW i \in Instances, Handle(i) PROVE MoneyInv'
    <2>0. run[i] \in Handler
      BY <1>4, HandlerFields
      DEF Handle, ReadOpened, CommitOpened, ResumeOpened, Replay, Accept,
          Decline, SettleRefund, FailRefund, FailQuery, FinishJob
    <2>a. run[i].event \in Events /\ run[i].refund \in Events
      BY <2>0 DEF Handler
    <2>b. Return(i) \/ run' = [run EXCEPT ![i] = Idle] =>
            /\ run'[i].pc # "settle"
            /\ \A j \in Instances \ {i} : run'[j] = run[j]
      BY DEF Return, At, Idle, TypeOK
    <2>1. CASE ReadOpened(i) \/ ResumeOpened(i)
      <3>1. \/ \E pc \in {"opening", "charge"} : \E r \in Events :
                 run' = [run EXCEPT ![i] = [run[i] EXCEPT !.pc = pc, !.refund = r]]
            \/ Return(i)
        BY <2>1, <2>a DEF ReadOpened, ResumeOpened, Found, RefundsOf, Opened
      <3>2. /\ run'[i].pc # "settle"
            /\ \A j \in Instances \ {i} : run'[j] = run[j]
        BY <2>0, <2>b, <3>1 DEF TypeOK, Handler
      <3> QED
        BY <2>1, <3>2, MoneyKept DEF ReadOpened, ResumeOpened
    <2>2. CASE CommitOpened(i)
      <3>1. /\ run'[i].pc # "settle"
            /\ \A j \in Instances \ {i} : run'[j] = run[j]
        BY <2>0, <2>2 DEF CommitOpened, Continue, TypeOK, Handler
      <3>2. \A r \in Events : refund'[r].status = "PROCESSED" => refund'[r] = refund[r]
        BY <2>2, <2>a DEF CommitOpened, TypeOK
      <3> QED
        BY <2>2, <3>1, <3>2, MoneyKept DEF CommitOpened
    <2>3. CASE Replay(i)
      <3> DEFINE r == run[i].refund
      <3>1. keys[i][r] \in 1 .. transfers[r]
        BY <2>3, <2>a DEF Replay, Known, MoneyInv, KeysInv, TypeOK
      <3>2. \A j \in Instances :
              IF j = i
              THEN run'[j].gatewayRef = keys[i][r] /\ run'[j].refund = r
              ELSE run'[j] = run[j]
        BY <2>0, <2>3 DEF Replay, TypeOK, Handler
      <3> QED
        BY <2>3, <3>1, <3>2
        DEF Replay, MoneyInv, KeysInv, ReferenceInv, ProcessedMeansPaid
    <2>4. CASE Accept(i)
      <3> DEFINE r == run[i].refund
                 ref == transfers[r] + 1
      <3>1. ref \in Nat /\ ref \in 1 .. ref
        BY <2>a DEF TypeOK
      <3>2. \A s \in Events : transfers'[s] = IF s = r THEN ref ELSE transfers[s]
        BY <2>4, <2>a DEF Accept, TypeOK
      <3>3. \A s \in Events : transfers[s] \in Nat /\ transfers[s] <= transfers'[s]
        BY <3>2 DEF TypeOK
      <3>4. \A j \in Instances :
              IF j = i
              THEN run'[j].gatewayRef = ref /\ run'[j].refund = r
              ELSE run'[j] = run[j]
        BY <2>0, <2>4 DEF Accept, TypeOK, Handler
      <3>5. \A j \in Instances, s \in Events :
              keys'[j][s] = IF j = i /\ s = r THEN ref ELSE keys[j][s]
        BY <2>4, <2>a DEF Accept, TypeOK
      <3>6. \A j \in Instances, s \in Events : keys[j][s] \in Nat
        BY DEF TypeOK
      <3> HIDE DEF ref
      <3>7. KeysInv'
        BY <3>1, <3>2, <3>3, <3>5, <3>6 DEF MoneyInv, KeysInv
      <3>8. ReferenceInv'
        <4>1. ASSUME NEW j \in Instances, j # i, run[j].pc = "settle"
              PROVE  run[j].gatewayRef \in 1 .. transfers'[run[j].refund]
          <5>1. run[j].refund \in Events /\ run[j].gatewayRef \in Nat
            BY <4>1, HandlerFields DEF Handler
          <5>2. transfers'[run[j].refund] \in Nat
            BY <3>1, <3>2, <3>3, <5>1
          <5> QED
            BY <4>1, <5>1, <5>2, <3>3 DEF MoneyInv, ReferenceInv
        <4> QED
          BY <2>a, <3>1, <3>2, <3>4, <4>1 DEF ReferenceInv
      <3>9. ProcessedMeansPaid'
        <4>1. UNCHANGED refund
          BY <2>4 DEF Accept
        <4>2. \A s \in Events : refund[s].gatewayRef \in Nat
          BY DEF TypeOK, RefundRow
        <4>3. \A s \in Events : transfers'[s] \in Nat
          BY <3>1, <3>2, <3>3
        <4> QED
          BY <3>3, <4>1, <4>2, <4>3 DEF MoneyInv, ProcessedMeansPaid
      <3> QED
        BY <3>7, <3>8, <3>9 DEF MoneyInv
    <2>5. CASE Decline(i)
      <3>1. /\ run'[i].pc # "settle"
            /\ \A j \in Instances \ {i} : run'[j] = run[j]
        BY <2>0, <2>5
        DEF Decline, Continue, LastDecline, Throw, Idle, TypeOK, Handler
      <3> QED
        BY <2>5, <3>1, MoneyKept DEF Decline
    <2>6. CASE SettleRefund(i)
      <3> DEFINE r == run[i].refund
      <3>1. run[i].gatewayRef \in 1 .. transfers[r]
        BY <2>6 DEF SettleRefund, MoneyInv, ReferenceInv
      <3>2. \A s \in Events :
              refund'[s].status = "PROCESSED" =>
                \/ refund'[s] = refund[s]
                \/ s = r /\ refund'[s].gatewayRef = run[i].gatewayRef
        <4>1. refund[r] \in RefundRow
          BY <2>a DEF TypeOK
        <4> QED
          BY <2>6, <2>a, <4>1 DEF SettleRefund, TypeOK, RefundRow
      <3>3. UNCHANGED transfers
        BY <2>6 DEF SettleRefund
      <3>4. ProcessedMeansPaid'
        BY <3>1, <3>2, <3>3 DEF MoneyInv, ProcessedMeansPaid
      <3>5. KeysInv' /\ ReferenceInv'
        BY <2>6, <2>b DEF SettleRefund, MoneyInv, KeysInv, ReferenceInv
      <3> QED
        BY <3>4, <3>5 DEF MoneyInv
    <2>7. CASE FailRefund(i)
      <3>1. \A s \in Events :
              refund'[s].status = "PROCESSED" => refund'[s] = refund[s]
        <4>1. refund[run[i].refund] \in RefundRow
          BY <2>a DEF TypeOK
        <4> QED
          BY <2>7, <2>a, <4>1 DEF FailRefund, TypeOK, RefundRow
      <3> QED
        BY <2>7, <2>b, <3>1, MoneyKept DEF FailRefund
    <2>8. CASE FailQuery(i)
      BY <2>8, <2>b, MoneyKept DEF FailQuery, Throw
    <2>9. CASE FinishJob(i)
      BY <2>9, <2>b, MoneyKept DEF FinishJob
    <2> QED
      BY <1>4, <2>1, <2>2, <2>3, <2>4, <2>5, <2>6, <2>7, <2>8, <2>9 DEF Handle
  <1>5. CASE UNCHANGED vars
    BY <1>5 DEF vars, MoneyInv, KeysInv, ReferenceInv, ProcessedMeansPaid
  <1> QED
    BY <1>1, <1>2, <1>3, <1>4, <1>5 DEF Next

(* A PROCESSED refund names a transfer that was made for it. *)
THEOREM ProcessedRefundsArePaid == Spec => []ProcessedMeansPaid
  <1>1. MoneyInv => ProcessedMeansPaid
    BY DEF MoneyInv
  <1> QED
    BY <1>1, TypeInit, TypeStep, MoneyInit, MoneyStep, PTL DEF Spec

-----------------------------------------------------------------------------
(* Counting transfers.  A transfer is remembered by the gateway that made it *)
(* until its process restarts, and a gateway makes none that it remembers.   *)

Keepers(r) == {i \in Instances : keys[i][r] # 0}
CountInv ==
  \A r \in Events : transfers[r] <= Cardinality(Keepers(r)) + restarts

LEMMA KeepersFinite ==
  ASSUME NEW r \in Events
  PROVE  /\ IsFiniteSet(Keepers(r)) /\ Cardinality(Keepers(r)) \in Nat
         /\ Cardinality(Keepers(r)) <= Cardinality(Instances)
         /\ Cardinality(Instances) \in Nat
  BY RefundAssumption, FS_Subset, FS_CardinalityType DEF Keepers

LEMMA CountInit == Init => CountInv
  <1> SUFFICES ASSUME Init, NEW r \in Events
               PROVE  transfers[r] <= Cardinality(Keepers(r)) + restarts
    BY DEF CountInv
  <1> QED
    BY KeepersFinite DEF Init

LEMMA CountStep == TypeOK /\ CountInv /\ [Next]_vars => CountInv'
  <1> SUFFICES ASSUME TypeOK, CountInv, [Next]_vars, NEW r \in Events
               PROVE  transfers'[r] <= Cardinality(Keepers(r)') + restarts'
    BY DEF CountInv
  <1>0. /\ transfers[r] <= Cardinality(Keepers(r)) + restarts
        /\ transfers[r] \in Nat /\ restarts \in Nat
    BY RefundAssumption DEF CountInv, TypeOK
  <1>1. ASSUME NEW i \in Instances, Restart(i)
        PROVE  transfers'[r] <= Cardinality(Keepers(r)') + restarts'
    <2>1. Keepers(r)' = Keepers(r) \ {i}
      BY <1>1 DEF Restart, Keepers, TypeOK
    <2>2. /\ Cardinality(Keepers(r) \ {i}) \in Nat
          /\ Cardinality(Keepers(r)) <= Cardinality(Keepers(r) \ {i}) + 1
      <3>1. CASE i \in Keepers(r)
        BY <3>1, KeepersFinite, FS_RemoveElement, FS_Subset, FS_CardinalityType
      <3>2. CASE i \notin Keepers(r)
        <4>1. Keepers(r) \ {i} = Keepers(r)
          BY <3>2
        <4> QED
          BY <4>1, KeepersFinite
      <3> QED
        BY <3>1, <3>2
    <2> QED
      BY <1>0, <1>1, <2>1, <2>2, KeepersFinite DEF Restart
  <1>2. ASSUME NEW i \in Instances, Accept(i)
        PROVE  transfers'[r] <= Cardinality(Keepers(r)') + restarts'
    <2>1. run[i].refund \in Events /\ transfers[run[i].refund] \in Nat
      BY <1>2, HandlerFields DEF Accept, Handler, TypeOK
    <2>2. CASE r = run[i].refund
      <3>1. i \notin Keepers(r)
        BY <1>2, <2>2 DEF Accept, Known, Keepers
      <3>2. Keepers(r)' = Keepers(r) \union {i}
        BY <1>2, <2>1, <2>2 DEF Accept, Keepers, TypeOK
      <3>3. Cardinality(Keepers(r)') = Cardinality(Keepers(r)) + 1
        BY <3>1, <3>2, KeepersFinite, FS_AddElement
      <3>4. transfers'[r] = transfers[r] + 1 /\ restarts' = restarts
        BY <1>2, <2>1, <2>2 DEF Accept, TypeOK
      <3> QED
        BY <1>0, <3>3, <3>4, KeepersFinite
    <2>3. CASE r # run[i].refund
      <3>1. Keepers(r)' = Keepers(r)
        BY <1>2, <2>1, <2>3 DEF Accept, Keepers, TypeOK
      <3>2. transfers'[r] = transfers[r] /\ restarts' = restarts
        BY <1>2, <2>1, <2>3 DEF Accept, TypeOK
      <3> QED
        BY <1>0, <3>1, <3>2
    <2> QED
      BY <2>2, <2>3
  <1>3. CASE UNCHANGED << keys, transfers, restarts >>
    BY <1>0, <1>3 DEF Keepers
  <1>4. \/ \E i \in Instances : Restart(i) \/ Accept(i)
        \/ UNCHANGED << keys, transfers, restarts >>
    BY DEF Next, vars, Handle, Relay, StartJob, Stall, ReadOpened, CommitOpened,
           ResumeOpened, Replay, Decline, SettleRefund, FailRefund, FailQuery,
           FinishJob
  <1> QED
    BY <1>1, <1>2, <1>3, <1>4

(* The money of a refund moves at most once per process that ever ran: the   *)
(* key stops every replay within one.                                        *)
THEOREM MoneyMovesOncePerProcess == Spec => []OneTransferPerProcess
  <1>1. TypeOK /\ CountInv => OneTransferPerProcess
    <2> SUFFICES ASSUME TypeOK, CountInv, NEW r \in Events
                 PROVE  transfers[r] <= Cardinality(Instances) + restarts
      BY DEF OneTransferPerProcess
    <2>1. transfers[r] \in Nat /\ restarts \in Nat
      BY RefundAssumption DEF TypeOK
    <2> QED
      BY <2>1, KeepersFinite DEF CountInv
  <1> QED
    BY <1>1, TypeInit, TypeStep, CountInit, CountStep, PTL DEF Spec

=============================================================================
