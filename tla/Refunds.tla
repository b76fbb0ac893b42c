------------------------------ MODULE Refunds -------------------------------
(***************************************************************************)
(* The refund saga (RefundConsumer): a SellerOrderStatusChanged(CANCELLED) *)
(* event opens a Refund, the payment gateway moves the money outside of    *)
(* any transaction, and the Refund is settled or escalated.                *)
(*                                                                         *)
(* Every instance has one worker on the payments queue and its own         *)
(* MockPaymentGatewayService, whose keys live and die with the process.    *)
(* An event is relayed more than once (see Outbox), and one SellerOrder    *)
(* may have more than one CANCELLED event (see the run orders_ledger).     *)
(*                                                                         *)
(* A refund is named after the event that opened it.                       *)
(***************************************************************************)
EXTENDS QueueJob, FiniteSets

CONSTANTS
  Events,       \* CANCELLED events
  SellerOrders,
  OrderOf,      \* OrderOf[e]: the SellerOrder that e says is cancelled
  Repeated,     \* the events relayed again after their job was forgotten
  MaxRestarts   \* bound on the restarts of instances

ASSUME RefundAssumption ==
  /\ OrderOf \in [Events -> SellerOrders]
  /\ Repeated \subseteq Events
  /\ MaxRestarts \in Nat
  /\ IsFiniteSet(Events)
  /\ IsFiniteSet(Instances)

VARIABLES
  job,        \* job[e]: the job of e in the payments queue
  processed,  \* the events with a ProcessedEvent row of this consumer
  refund,     \* refund[r]: the Refund row
  run,        \* run[i]: the handler that instance i runs
  keys,       \* keys[i][r]: processedKeys of i's gateway, 0: no such key
  transfers,  \* transfers[r]: how often money was moved for r
  restarts

vars == << job, processed, refund, run, keys, transfers, restarts >>

-----------------------------------------------------------------------------
(* Types *)

RefundStatuses == {"none", "REQUESTED", "PROCESSED", "FAILED"}
Terminal == {"PROCESSED", "FAILED"}

(* gatewayRef k is the k-th transfer made for the refund, 0 is NULL. *)
RefundRow == [status : RefundStatuses, requestedAt : Int, gatewayRef : Nat]
NoRefund == [status |-> "none", requestedAt |-> 0, gatewayRef |-> 0]

Handler ==
  [pc : {"started", "opening", "charge", "settle", "escalate", "finished"},
   event : Events, refund : Events, final : BOOLEAN, gatewayRef : Nat]
Idle == [pc |-> "idle"]

TypeOK ==
  /\ job \in [Events -> JobRow]
  /\ processed \in SUBSET Events
  /\ refund \in [Events -> RefundRow]
  /\ run \in [Instances -> Handler \union {Idle}]
  /\ keys \in [Instances -> [Events -> Nat]]
  /\ transfers \in [Events -> Nat]
  /\ restarts \in 0 .. MaxRestarts

-----------------------------------------------------------------------------
(* Helpers *)

Opened == {r \in Events : refund[r].status # "none"}
RefundsOf(s) == {r \in Opened : OrderOf[r] = s}

(* findRefundForSellerOrder: the latest one, if any. *)
Found(s) ==
  {r \in RefundsOf(s) :
     \A other \in RefundsOf(s) :
       refund[other].requestedAt <= refund[r].requestedAt}

(* The insert of the marker waits for an open transaction that has          *)
(* inserted the same one.                                                   *)
MarkerFree(e) ==
  \A i \in Instances : run[i].pc = "opening" => run[i].event # e

(* A handler at pc; what it holds of earlier steps is cleared when it ends. *)
At(pc, e) ==
  [pc |-> pc, event |-> e, refund |-> e, final |-> FALSE, gatewayRef |-> 0]
Continue(i, pc) == run' = [run EXCEPT ![i] = [@ EXCEPT !.pc = pc]]
Return(i) == run' = [run EXCEPT ![i] = At("finished", @.event)]
Throw(i) ==
  /\ job' = [job EXCEPT ![run[i].event] = Rejected(@, i)]
  /\ run' = [run EXCEPT ![i] = Idle]

-----------------------------------------------------------------------------
(* The queue *)

(* The outbox relays e for the first time, or again after the completed     *)
(* job was forgotten.                                                       *)
Relay(e) ==
  /\ \/ job[e].state = "none"
     \/ job[e].state = "done" /\ e \in Repeated
  /\ job' = [job EXCEPT ![e] = Added(NoJob)]
  /\ UNCHANGED << processed, refund, run, keys, transfers, restarts >>

IsFinalAttempt(e) == job[e].tries + 1 >= JobAttempts

(* handleEvent is called; it reads the attempts of the job it was given. *)
StartJob(i, e) ==
  /\ run[i].pc = "idle"
  /\ job[e].state = "waiting"
  /\ job' = [job EXCEPT ![e] = Taken(@, i)]
  /\ run' = [run EXCEPT ![i] =
       [At("started", e) EXCEPT !.final = IsFinalAttempt(e)]]
  /\ UNCHANGED << processed, refund, keys, transfers, restarts >>

Stall(e) ==
  /\ job[e].state = "active"
  /\ job' = [job EXCEPT ![e] = Stalled(@)]
  /\ UNCHANGED << processed, refund, run, keys, transfers, restarts >>

FinishJob(i) ==
  /\ run[i].pc = "finished"
  /\ job' = [job EXCEPT ![run[i].event] = Completed(@, i)]
  /\ run' = [run EXCEPT ![i] = Idle]
  /\ UNCHANGED << processed, refund, keys, transfers, restarts >>

(* The process dies, and the gateway's keys with it; transactions roll back.*)
Restart(i) ==
  /\ restarts < MaxRestarts
  /\ restarts' = restarts + 1
  /\ run' = [run EXCEPT ![i] = Idle]
  /\ keys' = [keys EXCEPT ![i] = [r \in Events |-> 0]]
  /\ UNCHANGED << job, processed, refund, transfers >>

-----------------------------------------------------------------------------
(* Step 1: open the refund *)

(* The marker is inserted and openCancellationRefund looks for a refund.    *)
ReadOpened(i) ==
  LET e == run[i].event
      existing == RefundsOf(OrderOf[e]) IN
  /\ run[i].pc = "started"
  /\ MarkerFree(e)
  /\ e \notin processed
  /\ \E r \in IF existing = {} THEN {e} ELSE Found(OrderOf[e]) :
       run' = [run EXCEPT ![i] = [@ EXCEPT !.pc = "opening", !.refund = r]]
  /\ UNCHANGED << job, processed, refund, keys, transfers, restarts >>

(* createSystemRefund, unless one was found; marker and refund commit.  The *)
(* refunds of one SellerOrder are opened at the same time, and their times  *)
(* come in any order: only the latest is ever looked for, so the new one is *)
(* put after or before all the others.                                      *)
CommitOpened(i) ==
  LET e == run[i].event
      others == Cardinality(Opened) IN
  /\ run[i].pc = "opening"
  /\ processed' = processed \union {e}
  /\ IF run[i].refund = e
     THEN \E at \in {others, -others} :
            refund' = [refund EXCEPT ![e] =
              [status |-> "REQUESTED", gatewayRef |-> 0, requestedAt |-> at]]
     ELSE UNCHANGED refund
  /\ Continue(i, "charge")
  /\ UNCHANGED << job, keys, transfers, restarts >>

(* Whether a redelivery goes on with the refund it finds. *)
Resumable_Never(r) == FALSE
Resumable(r) == refund[r].status = "REQUESTED"

(* The marker is there already: 'skipped'. *)
ResumeOpened(i) ==
  LET s == OrderOf[run[i].event] IN
  /\ run[i].pc = "started"
  /\ run[i].event \in processed
  /\ \/ \E r \in Found(s) :
          /\ Resumable(r)
          /\ run' = [run EXCEPT ![i] = [@ EXCEPT !.pc = "charge", !.refund = r]]
     \/ /\ \/ RefundsOf(s) = {}
           \/ \E r \in Found(s) : ~Resumable(r)
        /\ Return(i)
  /\ UNCHANGED << job, processed, refund, keys, transfers, restarts >>

-----------------------------------------------------------------------------
(* Step 2: the gateway, outside any transaction.  The worker runs one job   *)
(* at a time, so nothing else touches its gateway's keys meanwhile.         *)

(* Whether this process has moved the money: the key is the refund's id. *)
Known_KeyIgnored(i) == FALSE
Known(i) == keys[i][run[i].refund] # 0

(* The key is known: the first reference is returned. *)
Replay(i) ==
  /\ run[i].pc = "charge"
  /\ Known(i)
  /\ run' = [run EXCEPT ![i] =
       [@ EXCEPT !.pc = "settle", !.final = FALSE,
                 !.gatewayRef = keys[i][run[i].refund]]]
  /\ UNCHANGED << job, processed, refund, keys, transfers, restarts >>

Accept(i) ==
  LET r == run[i].refund
      ref == transfers[r] + 1 IN
  /\ run[i].pc = "charge"
  /\ ~Known(i)
  /\ transfers' = [transfers EXCEPT ![r] = ref]
  /\ keys' = [keys EXCEPT ![i] = [@ EXCEPT ![r] = ref]]
  /\ run' = [run EXCEPT ![i] =
       [@ EXCEPT !.pc = "settle", !.final = FALSE, !.gatewayRef = ref]]
  /\ UNCHANGED << job, processed, refund, restarts >>

(* PaymentGatewayError: rethrown to BullMQ, or escalated by the last        *)
(* attempt.                                                                 *)
LastDecline_Settles == "settle"
LastDecline == "escalate"
Decline(i) ==
  /\ run[i].pc = "charge"
  /\ ~Known(i)
  /\ IF run[i].final
     THEN Continue(i, LastDecline) /\ UNCHANGED job
     ELSE Throw(i)
  /\ UNCHANGED << processed, refund, keys, transfers, restarts >>

-----------------------------------------------------------------------------
(* Step 3: settle or escalate; each commits the event that announces it.    *)

(* transitionRefundStatusIfCurrent with REQUESTED. *)
Pending_Unchecked(r) == TRUE
Pending(r) == refund[r].status = "REQUESTED"

SettleRefund(i) ==
  LET r == run[i].refund IN
  /\ run[i].pc = "settle"
  /\ refund' = IF Pending(r)
               THEN [refund EXCEPT ![r] =
                       [@ EXCEPT !.status = "PROCESSED",
                                 !.gatewayRef = run[i].gatewayRef]]
               ELSE refund
  /\ Return(i)
  /\ UNCHANGED << job, processed, keys, transfers, restarts >>

FailRefund(i) ==
  LET r == run[i].refund IN
  /\ run[i].pc = "escalate"
  /\ refund' = IF Pending(r)
               THEN [refund EXCEPT ![r] = [@ EXCEPT !.status = "FAILED"]]
               ELSE refund
  /\ Return(i)
  /\ UNCHANGED << job, processed, keys, transfers, restarts >>

(* PostgreSQL fails a read or a transaction of the handler: rethrown. *)
FailQuery(i) ==
  /\ run[i].pc \in {"started", "opening", "settle", "escalate"}
  /\ Throw(i)
  /\ UNCHANGED << processed, refund, keys, transfers, restarts >>

-----------------------------------------------------------------------------
(* The specification *)

Init ==
  /\ job = [e \in Events |-> NoJob]
  /\ processed = {}
  /\ refund = [r \in Events |-> NoRefund]
  /\ run = [i \in Instances |-> Idle]
  /\ keys = [i \in Instances |-> [r \in Events |-> 0]]
  /\ transfers = [r \in Events |-> 0]
  /\ restarts = 0

Handle(i) ==
  \/ ReadOpened(i)
  \/ CommitOpened(i)
  \/ ResumeOpened(i)
  \/ Replay(i)
  \/ Accept(i)
  \/ Decline(i)
  \/ SettleRefund(i)
  \/ FailRefund(i)
  \/ FailQuery(i)
  \/ FinishJob(i)

Next ==
  \/ \E e \in Events : Relay(e)
  \/ \E i \in Instances, e \in Events : StartJob(i, e)
  \/ \E e \in Events : Stall(e)
  \/ \E i \in Instances : Restart(i)
  \/ \E i \in Instances : Handle(i)

Spec == Init /\ [][Next]_vars

-----------------------------------------------------------------------------
(* Properties *)

(* A refund that was settled or escalated, and announced as such, stays as  *)
(* it is, whatever stalled or duplicate handlers still do with it.          *)
VerdictIsFinal ==
  [][\A r \in Events :
       refund[r].status \in Terminal => refund'[r] = refund[r]]_vars

(* A PROCESSED refund names a transfer that the gateway made for it: the    *)
(* buyer is never told of money that did not move.                          *)
ProcessedMeansPaid ==
  \A r \in Events :
    refund[r].status = "PROCESSED" => refund[r].gatewayRef \in 1 .. transfers[r]

(* A process moves the money of a refund at most once, through retries,     *)
(* stalls and a second CANCELLED event ("replaying a refund with the same   *)
(* key must not move money twice").                                         *)
OneTransferPerProcess ==
  \A r \in Events : transfers[r] <= Cardinality(Instances) + restarts

(* A job completes only when a refund of its SellerOrder is settled or      *)
(* escalated: a crash, a stall or an error between any two steps leaves it  *)
(* to the redelivery, which goes on from the state of the Refund row.       *)
DoneMeansAnswered ==
  \A e \in Events :
    job[e].state = "done" =>
      \E r \in RefundsOf(OrderOf[e]) : refund[r].status \in Terminal

(* FAILED says that the money is still owed to the buyer (the comment on    *)
(* RefundStatus).  Not so: the last attempt may be declined by a gateway    *)
(* that has forgotten the transfer an earlier attempt made.                 *)
FailedMeansOwed ==
  \A r \in Events : refund[r].status = "FAILED" => transfers[r] = 0

=============================================================================
