--------------------------- MODULE QueueJob_proofs ---------------------------
(* Lemmas about the jobs of QueueJob, used by the proofs of their users.    *)
(* JobRow lets a job that may still run have attempts and stalls left: no   *)
(* step takes a counter past its range.                                     *)
EXTENDS QueueJob, TLAPS

LEMMA FreshIsSound ==
  ASSUME NEW state \in {"none", "waiting", "active", "done", "failed"}
  PROVE  Fresh(state) \in JobRow /\ Fresh(state).state = state
  BY JobAssumption DEF JobRow, NoJob, Fresh

LEMMA NoJobIsSound == NoJob \in JobRow
  BY JobAssumption DEF JobRow, NoJob

LEMMA AddedIsSound ==
  ASSUME NEW j \in JobRow
  PROVE  /\ Added(j) \in JobRow
         /\ j.state # "none" => Added(j) = j
         /\ j.state = "none" => Added(j).state = "waiting"
  BY FreshIsSound DEF Added

LEMMA TakenIsSound ==
  ASSUME NEW j \in JobRow, j.state = "waiting", NEW i \in Instances
  PROVE  Taken(j, i) \in JobRow /\ Taken(j, i).state = "active"
  BY JobAssumption DEF JobRow, Taken

LEMMA StalledIsSound ==
  ASSUME NEW j \in JobRow, j.state = "active"
  PROVE  Stalled(j) \in JobRow /\ Stalled(j).state \in {"waiting", "failed"}
  <1>1. CASE j.stalls < MaxStalls
    <2>1. j.stalls + 1 \in 0 .. MaxStalls
      BY <1>1, JobAssumption DEF JobRow
    <2>2. Stalled(j) = [j EXCEPT !.state = "waiting", !.owner = Nobody,
                                 !.stalls = j.stalls + 1]
      BY <1>1 DEF Stalled
    <2> QED
      BY <2>1, <2>2, JobAssumption DEF JobRow
  <1>2. CASE ~(j.stalls < MaxStalls)
    BY <1>2, FreshIsSound DEF Stalled
  <1> QED
    BY <1>1, <1>2

LEMMA RejectedIsSound ==
  ASSUME NEW j \in JobRow, NEW i \in Instances
  PROVE  /\ Rejected(j, i) \in JobRow
         /\ \/ Rejected(j, i) = j
            \/ j.state = "active" /\ Rejected(j, i).state \in {"waiting", "failed"}
  <1>1. CASE ~OwnedBy(j, i)
    BY <1>1 DEF Rejected
  <1>2. CASE OwnedBy(j, i) /\ Spent(j)
    BY <1>2, FreshIsSound DEF Rejected, OwnedBy
  <1>3. CASE OwnedBy(j, i) /\ ~Spent(j)
    <2>1. j.tries + 1 \in 0 .. JobAttempts - 1
      BY <1>3, JobAssumption DEF JobRow, Spent
    <2>2. Rejected(j, i) = [j EXCEPT !.state = "waiting", !.owner = Nobody,
                                     !.tries = j.tries + 1]
      BY <1>3 DEF Rejected
    <2> QED
      BY <1>3, <2>1, <2>2, JobAssumption DEF JobRow, OwnedBy
  <1> QED
    BY <1>1, <1>2, <1>3

LEMMA CompletedIsSound ==
  ASSUME NEW j \in JobRow, NEW i \in Instances
  PROVE  /\ Completed(j, i) \in JobRow
         /\ Completed(j, i) = j \/ Completed(j, i).state = "done"
  BY FreshIsSound DEF Completed

=============================================================================
