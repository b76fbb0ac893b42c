------------------------------ MODULE QueueJob ------------------------------
(***************************************************************************)
(* One BullMQ job as QueueService.enqueueDomainEvent configures it: what   *)
(* adding, taking, stalling, failing and completing make of it.  A worker  *)
(* that no longer owns the job may run on; what it reports is ignored.     *)
(***************************************************************************)
EXTENDS Integers

CONSTANTS
  Instances,    \* instances of the application
  Nobody,
  JobAttempts,  \* attempts of a job, 5 in the code
  MaxStalls     \* BullMQ's maxStalledCount, 1 by default

ASSUME JobAssumption ==
  /\ Nobody \notin Instances
  /\ JobAttempts \in Nat \ {0}
  /\ MaxStalls \in Nat

JobRow == [state : {"none", "waiting", "active", "done", "failed"},
           owner : Instances \union {Nobody},
           tries : 0 .. JobAttempts - 1, stalls : 0 .. MaxStalls]

NoJob == [state |-> "none", owner |-> Nobody, tries |-> 0, stalls |-> 0]

(* A job that waits for the first time, or is through: of one that is, only *)
(* the id is looked at again.                                               *)
Fresh(state) == [NoJob EXCEPT !.state = state]

(* queue.add with jobId = the event's id: a no-op while a job of that id    *)
(* exists, completed and failed ones included.                              *)
Added(j) == IF j.state = "none" THEN Fresh("waiting") ELSE j

Taken(j, i) == [j EXCEPT !.state = "active", !.owner = i]
OwnedBy(j, i) == j.state = "active" /\ j.owner = i

(* The lock was not renewed in time: the worker died, or lives and runs on. *)
Stalled(j) ==
  IF j.stalls < MaxStalls
  THEN [j EXCEPT !.state = "waiting", !.owner = Nobody, !.stalls = @ + 1]
  ELSE Fresh("failed")

Spent(j) == j.tries + 1 >= JobAttempts

(* The handler threw: retried after a backoff, or kept as failed. *)
Rejected(j, i) ==
  IF ~OwnedBy(j, i) THEN j
  ELSE IF Spent(j) THEN Fresh("failed")
  ELSE [j EXCEPT !.state = "waiting", !.owner = Nobody, !.tries = @ + 1]

Completed(j, i) == IF OwnedBy(j, i) THEN Fresh("done") ELSE j

=============================================================================
