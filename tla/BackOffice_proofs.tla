-------------------------- MODULE BackOffice_proofs --------------------------
(***************************************************************************)
(* Proofs about what administrators work with.                             *)
(*                                                                         *)
(* AfterSale, for any number of requests, lines, disputes and admins: what *)
(* holds of the rows rests on what a request between its read and its      *)
(* write still knows: that the SellerOrder it found COMPLETED has been     *)
(* that, whatever its status is by now, and that the dispute it found is   *)
(* still a row.                                                            *)
(*                                                                         *)
(* Reports, for any number of sellers and baskets and any length of a day: *)
(* that the books of a day that is over stay closed rests on what the log  *)
(* may grow by, a change stamped no earlier than its transaction began;    *)
(* that a report adds up, on sums being additive over disjoint sets of     *)
(* entries, on the days of a period being such sets, and on the ranking    *)
(* leaving no seller out.                                                  *)
(***************************************************************************)
EXTENDS AfterSale, Reports, SequenceTheorems, FiniteSetTheorems, TLAPS

-----------------------------------------------------------------------------
(* What a request under way may rely on *)

Reviewers(r) == request[r].pc \in {"completed", "unreviewed"}
Deciders(r) == request[r].pc \in {"ruling", "replying"}

ReadsHold ==
  /\ order = "COMPLETED" => completed
  /\ \A r \in Requests : Reviewers(r) => completed
  /\ \A r \in Requests : Deciders(r) => request[r].dispute \in DOMAIN disputes

Inv == TypeOK /\ ReviewsAreEarned /\ ReadsHold

-----------------------------------------------------------------------------
(* A dispute that is written over stays one dispute among as many (resolve, *)
(* addComment).                                                             *)
LEMMA WrittenDispute ==
  ASSUME disputes \in Seq(DisputeRow), NEW d \in DOMAIN disputes, NEW row \in DisputeRow
  PROVE  /\ [disputes EXCEPT ![d] = row] \in Seq(DisputeRow)
         /\ Len([disputes EXCEPT ![d] = row]) = Len(disputes)
         /\ DOMAIN [disputes EXCEPT ![d] = row] = DOMAIN disputes
         /\ [disputes EXCEPT ![d] = row][d] = row
         /\ \A e \in DOMAIN disputes \ {d} : [disputes EXCEPT ![d] = row][e] = disputes[e]
  <1>1. d \in 1 .. Len(disputes)
    OBVIOUS
  <1> QED
    BY <1>1, ExceptSeq

(* The ids of the disputes are numbers up to the bound. *)
LEMMA DisputeIds ==
  ASSUME TypeOK
  PROVE  /\ DOMAIN disputes = 1 .. Len(disputes)
         /\ DOMAIN disputes \subseteq 1 .. MaxDisputes
         /\ \A d \in DOMAIN disputes : disputes[d] \in DisputeRow
  BY BoundAssumption DEF TypeOK

(* What a request holds follows from where it stands. *)
LEMMA RequestShapes ==
  ASSUME TypeOK, NEW r \in Requests
  PROVE  /\ request[r].pc \in {"idle", "completed", "unreviewed", "clear", "ruling", "replying"}
         /\ Reviewers(r) => request[r].item \in Items
         /\ request[r].pc = "clear" => request[r].scope \in Scopes /\ request[r].user \in Raisers
         /\ Deciders(r) => request[r].dispute \in 1 .. MaxDisputes
                           /\ request[r].seen \in DisputeStatuses
         /\ request[r].pc = "ruling" => request[r].admin \in Admins
  <1>1. request[r] \in RequestState
    BY DEF TypeOK
  <1> QED
    BY <1>1 DEF RequestState, Idle, Reviewers, Deciders

(* A request that goes on leaves every other request where it stands. *)
LEMMA Going ==
  ASSUME TypeOK, NEW r \in Requests, NEW state \in RequestState, Goes(r, state)
  PROVE  /\ request' \in [Requests -> RequestState]
         /\ request'[r] = state
         /\ \A s \in Requests \ {r} : request'[s] = request[s]
  BY DEF TypeOK, Goes

-----------------------------------------------------------------------------
(* Type correctness *)

LEMMA InitInv == Init => Inv
  <1> SUFFICES ASSUME Init PROVE Inv
    OBVIOUS
  <1>1. Idle \in RequestState /\ Idle.pc = "idle"
    BY DEF RequestState, Idle
  <1>2. TypeOK
    <2>1. disputes \in Seq(DisputeRow) /\ Len(disputes) <= MaxDisputes
      BY BoundAssumption DEF Init
    <2>2. request \in [Requests -> RequestState]
      BY <1>1 DEF Init
    <2> QED
      BY <2>1, <2>2 DEF Init, TypeOK, OrderStatuses
  <1>3. ReviewsAreEarned
    BY DEF Init, ReviewsAreEarned
  <1>4. \A r \in Requests : request[r].pc = "idle"
    BY <1>1 DEF Init
  <1>5. ReadsHold
    BY <1>4 DEF Init, ReadsHold, Reviewers, Deciders
  <1> QED
    BY <1>2, <1>3, <1>5 DEF Inv

(* Nothing a request does takes it out of its states, and no row out of its *)
(* columns.                                                                 *)
LEMMA TypeStep == Inv /\ [Next]_vars => TypeOK'
  <1> SUFFICES ASSUME Inv, [Next]_vars PROVE TypeOK'
    OBVIOUS
  <1> USE DEF Inv
  <1>idle. Idle \in RequestState
    BY DEF RequestState
  <1>ends. ASSUME NEW r \in Requests, Ends(r) PROVE request' \in [Requests -> RequestState]
    BY <1>ends, <1>idle, Going DEF Ends
  <1>1. CASE MoveOrder
    BY <1>1 DEF MoveOrder, TypeOK, OrderStatuses
  <1>2. ASSUME NEW r \in Requests, NEW i \in Items, FindPurchase(r, i) PROVE TypeOK'
    <2>1. [pc |-> "completed", item |-> i] \in RequestState
      BY DEF RequestState
    <2> QED
      BY <1>2, <2>1, Going DEF FindPurchase, TypeOK
  <1>3. ASSUME NEW r \in Requests, FindReview(r) PROVE TypeOK'
    <2>1. request[r].item \in Items
      BY <1>3, RequestShapes DEF FindReview, Reviewers
    <2>2. [pc |-> "unreviewed", item |-> request[r].item] \in RequestState
      BY <2>1 DEF RequestState
    <2>3. request' \in [Requests -> RequestState]
      BY <1>3, <1>ends, <2>2, Going DEF FindReview
    <2> QED
      BY <1>3, <2>3 DEF FindReview, TypeOK
  <1>4. ASSUME NEW r \in Requests, CreateReview(r) PROVE TypeOK'
    <2>1. request[r].item \in Items
      BY <1>4, RequestShapes DEF CreateReview, Reviewers
    <2>2. reviews' \subseteq Items /\ announced' \subseteq Items
      BY <1>4, <2>1 DEF CreateReview, TypeOK
    <2> QED
      BY <1>4, <1>ends, <2>2 DEF CreateReview, TypeOK
  <1>5. ASSUME NEW r \in Requests, NEW user \in Raisers, NEW scope \in Scopes,
               FindActive(r, user, scope)
        PROVE  TypeOK'
    <2>1. [pc |-> "clear", scope |-> scope, user |-> user] \in RequestState
      BY DEF RequestState
    <2> QED
      BY <1>5, <2>1, Going DEF FindActive, TypeOK
  <1>6. ASSUME NEW r \in Requests, CreateDispute(r) PROVE TypeOK'
    <2> DEFINE row == [scope |-> request[r].scope, raisedBy |-> request[r].user,
                       status |-> "OPEN", resolvedBy |-> Nobody, comments |-> 0]
    <2>1. request[r].scope \in Scopes /\ request[r].user \in Raisers
      BY <1>6, RequestShapes DEF CreateDispute
    <2>2. row \in DisputeRow
      BY <2>1, BoundAssumption DEF DisputeRow, DisputeStatuses
    <2>3. disputes' = Append(disputes, row)
      BY <1>6 DEF CreateDispute
    <2> HIDE DEF row
    <2>4. disputes' \in Seq(DisputeRow) /\ Len(disputes') <= MaxDisputes
      BY <1>6, <2>2, <2>3, AppendProperties, BoundAssumption DEF CreateDispute, TypeOK
    <2> QED
      BY <1>6, <1>ends, <2>4 DEF CreateDispute, TypeOK
  <1>7. ASSUME NEW r \in Requests, NEW admin \in Admins, NEW d \in DOMAIN disputes,
               FindDispute(r, admin, d)
        PROVE  TypeOK'
    <2>1. d \in 1 .. MaxDisputes /\ disputes[d].status \in DisputeStatuses
      BY DisputeIds DEF DisputeRow
    <2>2. [pc |-> "ruling", dispute |-> d, seen |-> disputes[d].status, admin |-> admin]
            \in RequestState
      BY <2>1 DEF RequestState
    <2> QED
      BY <1>7, <2>2, Going DEF FindDispute, TypeOK
  <1>8. ASSUME NEW r \in Requests, NEW status \in DisputeStatuses, Resolve(r, status)
        PROVE  TypeOK'
    <2> DEFINE d == request[r].dispute
               row == WithRuling(disputes[d], status, request[r].admin)
    <2>1. d \in DOMAIN disputes /\ request[r].admin \in Admins
      BY <1>8, RequestShapes DEF Resolve, ReadsHold, Deciders
    <2>2. disputes[d] \in DisputeRow
      BY <2>1, DisputeIds
    <2>3. row \in DisputeRow
      BY <2>1, <2>2 DEF WithRuling, DisputeRow
    <2>4. disputes' = [disputes EXCEPT ![d] = row]
      BY <1>8, <2>1 DEF Resolve
    <2> HIDE DEF d, row
    <2>5. disputes' \in Seq(DisputeRow) /\ Len(disputes') = Len(disputes)
      BY <2>1, <2>3, <2>4, WrittenDispute DEF TypeOK
    <2> QED
      BY <1>8, <1>ends, <2>5 DEF Resolve, TypeOK
  <1>9. ASSUME NEW r \in Requests, NEW user \in Users, NEW d \in DOMAIN disputes,
               OpenThread(r, user, d)
        PROVE  TypeOK'
    <2>1. d \in 1 .. MaxDisputes /\ disputes[d].status \in DisputeStatuses
      BY DisputeIds DEF DisputeRow
    <2>2. [pc |-> "replying", dispute |-> d, seen |-> disputes[d].status] \in RequestState
      BY <2>1 DEF RequestState
    <2> QED
      BY <1>9, <2>2, Going DEF OpenThread, TypeOK
  <1>10. ASSUME NEW r \in Requests, AddComment(r) PROVE TypeOK'
    <2> DEFINE d == request[r].dispute
               row == [disputes[d] EXCEPT !.comments = @ + 1]
    <2>1. d \in DOMAIN disputes
      BY <1>10 DEF AddComment, ReadsHold, Deciders
    <2>2. disputes[d] \in DisputeRow /\ disputes[d].comments < MaxComments
      BY <1>10, <2>1, DisputeIds DEF AddComment
    <2>3. row \in DisputeRow
      BY <2>2, BoundAssumption DEF DisputeRow
    <2>4. disputes' = [disputes EXCEPT ![d] = row]
      BY <1>10, <2>1 DEF AddComment
    <2> HIDE DEF d, row
    <2>5. disputes' \in Seq(DisputeRow) /\ Len(disputes') = Len(disputes)
      BY <2>1, <2>3, <2>4, WrittenDispute DEF TypeOK
    <2> QED
      BY <1>10, <1>ends, <2>5 DEF AddComment, TypeOK
  <1>11. ASSUME NEW r \in Requests, Fail(r) PROVE TypeOK'
    BY <1>11, <1>ends DEF Fail, TypeOK
  <1>12. CASE UNCHANGED vars
    BY <1>12 DEF vars, TypeOK
  <1> QED
    BY <1>1, <1>2, <1>3, <1>4, <1>5, <1>6, <1>7, <1>8, <1>9, <1>10, <1>11, <1>12
    DEF Next, Reviewing, Disputing

-----------------------------------------------------------------------------
(* What was read keeps holding *)

(* Disputes are added and written over, never removed. *)
LEMMA DisputesStay ==
  ASSUME Inv, [Next]_vars
  PROVE  DOMAIN disputes \subseteq DOMAIN disputes'
  <1> USE DEF Inv
  <1>1. ASSUME NEW r \in Requests, CreateDispute(r)
        PROVE  DOMAIN disputes \subseteq DOMAIN disputes'
    BY <1>1 DEF CreateDispute, TypeOK
  <1>2. ASSUME NEW r \in Requests, NEW status \in DisputeStatuses, Resolve(r, status)
        PROVE  DOMAIN disputes \subseteq DOMAIN disputes'
    BY <1>2 DEF Resolve
  <1>3. ASSUME NEW r \in Requests, AddComment(r)
        PROVE  DOMAIN disputes \subseteq DOMAIN disputes'
    BY <1>3 DEF AddComment
  <1> QED
    BY <1>1, <1>2, <1>3
    DEF Next, Reviewing, Disputing, MoveOrder, FindPurchase, FindReview, CreateReview,
        FindActive, FindDispute, OpenThread, Fail, vars

(* History does not change. *)
LEMMA CompletedStays ==
  ASSUME [Next]_vars, completed
  PROVE  completed'
  BY DEF Next, Reviewing, Disputing, MoveOrder, FindPurchase, FindReview, CreateReview,
         FindActive, CreateDispute, FindDispute, Resolve, OpenThread, AddComment, Fail, vars

(* What COMPLETES the SellerOrder is recorded. *)
LEMMA CompletionIsRecorded ==
  ASSUME Inv, [Next]_vars
  PROVE  order' = "COMPLETED" => completed'
  BY DEF Inv, ReadsHold, Next, Reviewing, Disputing, MoveOrder, FindPurchase, FindReview,
         CreateReview, FindActive, CreateDispute, FindDispute, Resolve, OpenThread,
         AddComment, Fail, vars

(* A step of one request leaves what the others rely on. *)
LEMMA ReadsStep == Inv /\ [Next]_vars => ReadsHold'
  <1> SUFFICES ASSUME Inv, [Next]_vars PROVE ReadsHold'
    OBVIOUS
  <1> USE DEF Inv
  <1>stay. DOMAIN disputes \subseteq DOMAIN disputes'
    BY DisputesStay
  <1>idle. Idle \in RequestState /\ Idle.pc = "idle"
    BY DEF RequestState, Idle
  <1>same. ASSUME request' = request PROVE ReadsHold'
    BY <1>same, <1>stay, CompletedStays, CompletionIsRecorded
    DEF ReadsHold, Reviewers, Deciders
  <1>goes. ASSUME NEW r \in Requests, NEW state \in RequestState, Goes(r, state),
                  state.pc \in {"completed", "unreviewed"} => completed,
                  state.pc \in {"ruling", "replying"} => state.dispute \in DOMAIN disputes
           PROVE  ReadsHold'
    <2>1. /\ request'[r] = state
          /\ \A s \in Requests \ {r} : request'[s] = request[s]
      BY <1>goes, Going
    <2>2. ASSUME NEW s \in Requests PROVE Reviewers(s)' => completed'
      BY <1>goes, <2>1, CompletedStays DEF ReadsHold, Reviewers
    <2>3. ASSUME NEW s \in Requests, Deciders(s)'
          PROVE  request'[s].dispute \in DOMAIN disputes'
      BY <1>goes, <1>stay, <2>1, <2>3 DEF ReadsHold, Deciders
    <2> QED
      BY <2>2, <2>3, CompletionIsRecorded DEF ReadsHold
  <1>ends. ASSUME NEW r \in Requests, Ends(r) PROVE ReadsHold'
    BY <1>ends, <1>idle, <1>goes DEF Ends
  <1>1. ASSUME NEW r \in Requests, NEW i \in Items, FindPurchase(r, i) PROVE ReadsHold'
    <2>1. [pc |-> "completed", item |-> i] \in RequestState
      BY DEF RequestState
    <2> QED
      BY <1>1, <1>goes, <2>1 DEF FindPurchase, Reviewable, ReadsHold
  <1>2. ASSUME NEW r \in Requests, FindReview(r) PROVE ReadsHold'
    <2>1. request[r].item \in Items /\ completed
      BY <1>2, RequestShapes DEF FindReview, Reviewers, ReadsHold
    <2>2. [pc |-> "unreviewed", item |-> request[r].item] \in RequestState
      BY <2>1 DEF RequestState
    <2> QED
      BY <1>2, <1>ends, <1>goes, <2>1, <2>2 DEF FindReview
  <1>3. ASSUME NEW r \in Requests, NEW user \in Raisers, NEW scope \in Scopes,
               FindActive(r, user, scope)
        PROVE  ReadsHold'
    <2>1. [pc |-> "clear", scope |-> scope, user |-> user] \in RequestState
      BY DEF RequestState
    <2> QED
      BY <1>3, <1>goes, <2>1 DEF FindActive
  <1>4. ASSUME NEW r \in Requests, NEW admin \in Admins, NEW d \in DOMAIN disputes,
               FindDispute(r, admin, d)
        PROVE  ReadsHold'
    <2>1. d \in 1 .. MaxDisputes /\ disputes[d].status \in DisputeStatuses
      BY DisputeIds DEF DisputeRow
    <2>3. [pc |-> "ruling", dispute |-> d, seen |-> disputes[d].status, admin |-> admin]
            \in RequestState
      BY <2>1 DEF RequestState
    <2> QED
      BY <1>4, <1>goes, <2>3 DEF FindDispute
  <1>5. ASSUME NEW r \in Requests, NEW user \in Users, NEW d \in DOMAIN disputes,
               OpenThread(r, user, d)
        PROVE  ReadsHold'
    <2>1. d \in 1 .. MaxDisputes /\ disputes[d].status \in DisputeStatuses
      BY DisputeIds DEF DisputeRow
    <2>3. [pc |-> "replying", dispute |-> d, seen |-> disputes[d].status] \in RequestState
      BY <2>1 DEF RequestState
    <2> QED
      BY <1>5, <1>goes, <2>3 DEF OpenThread
  <1>6. ASSUME NEW r \in Requests,
               \/ CreateReview(r) \/ CreateDispute(r) \/ AddComment(r) \/ Fail(r)
               \/ \E status \in DisputeStatuses : Resolve(r, status)
        PROVE  ReadsHold'
    BY <1>6, <1>ends DEF CreateReview, CreateDispute, AddComment, Fail, Resolve
  <1>7. CASE MoveOrder \/ UNCHANGED vars
    BY <1>7, <1>same DEF MoveOrder, vars
  <1> QED
    BY <1>1, <1>2, <1>3, <1>4, <1>5, <1>6, <1>7 DEF Next, Reviewing, Disputing

(* A review is written by a request that found the SellerOrder COMPLETED,   *)
(* together with its outbox row.                                            *)
LEMMA EarnedStep == Inv /\ [Next]_vars => ReviewsAreEarned'
  <1> SUFFICES ASSUME Inv, [Next]_vars PROVE ReviewsAreEarned'
    OBVIOUS
  <1> USE DEF Inv
  <1>1. ASSUME NEW r \in Requests, CreateReview(r) PROVE ReviewsAreEarned'
    <2>1. completed /\ completed' = completed
      BY <1>1 DEF CreateReview, ReadsHold, Reviewers
    <2>2. announced' = reviews'
      BY <1>1 DEF CreateReview, ReviewsAreEarned
    <2> QED
      BY <2>1, <2>2 DEF ReviewsAreEarned
  <1>2. ASSUME UNCHANGED << reviews, announced >> PROVE ReviewsAreEarned'
    BY <1>2, CompletedStays DEF ReviewsAreEarned
  <1> QED
    BY <1>1, <1>2
    DEF Next, Reviewing, Disputing, MoveOrder, FindPurchase, FindReview, FindActive,
        CreateDispute, FindDispute, Resolve, OpenThread, AddComment, Fail, vars

(* What a request relies on holds in every state it can find itself in.   *)
THEOREM Invariance == Spec => []Inv
  <1>1. Inv /\ [Next]_vars => Inv'
    BY TypeStep, ReadsStep, EarnedStep DEF Inv
  <1> QED
    BY InitInv, <1>1, PTL DEF Spec

-----------------------------------------------------------------------------
(* Theorems *)

(* Every row and every request keeps to its columns and states.            *)
THEOREM TypeCorrect == Spec => []TypeOK
  BY Invariance, PTL DEF Inv

(* No review of a purchase that was never received, and none that the      *)
(* search index does not hear of, for any number of concurrent requests    *)
(* and moves of the SellerOrder between them (ReviewsService.create).      *)
THEOREM EveryReviewIsEarned == Spec => []ReviewsAreEarned
  BY Invariance, PTL DEF Inv

-----------------------------------------------------------------------------
(* Reports: types of the business and of the report                        *)

LEMMA Appended ==
  ASSUME ReportsTypeOK, NEW change \in Changes, Commit(change)
  PROVE  /\ log' \in Seq(Changes) /\ Len(log') = Len(log) + 1 /\ Len(log') <= MaxCommits
         /\ Len(log) \in Nat /\ DOMAIN log = 1 .. Len(log)
         /\ \A i \in 1 .. Len(log) : log'[i] = log[i]
         /\ log'[Len(log) + 1] = change
  <1>1. log \in Seq(Changes) /\ Len(log) \in Nat /\ Len(log) < MaxCommits
    BY DEF ReportsTypeOK, Commit
  <1>2. log' = Append(log, change)
    BY DEF Commit
  <1>3. /\ log' \in Seq(Changes) /\ Len(log') = Len(log) + 1
        /\ \A i \in 1 .. Len(log) : log'[i] = log[i]
        /\ log'[Len(log) + 1] = change
    BY <1>1, <1>2, AppendProperties
  <1> QED
    BY <1>1, <1>3, TimeAssumption

(* The change a transaction commits, stamped by one of its statements. *)
LEMMA SaleCommitted ==
  ASSUME ReportsTypeOK, NEW o \in Baskets, CommitSale(o)
  PROVE  /\ open[o] \in [op : {"sale"}, shops : SUBSET Shops, at : Instants]
         /\ open' = [open EXCEPT ![o] = None] /\ UNCHANGED << clock, report >>
         /\ \E change \in Changes : /\ Commit(change) /\ change.op = "sale"
                                    /\ change.at \in Instants /\ open[o].at <= change.at
  <1>1. open[o] \in [op : {"sale"}, shops : SUBSET Shops, at : Instants]
    BY DEF CommitSale, ReportsTypeOK, None
  <1>2. PICK at \in Stamps(o) :
          Commit([op |-> "sale", basket |-> o, shops |-> open[o].shops,
                  placedAt |-> open[o].at, at |-> at])
    BY DEF CommitSale
  <1> DEFINE new == [op |-> "sale", basket |-> o, shops |-> open[o].shops,
                     placedAt |-> open[o].at, at |-> at]
  <1>3. at \in Instants /\ open[o].at <= at
    BY <1>1, <1>2, TimeAssumption DEF Stamps, ReportsTypeOK, Instants
  <1>4. new \in Changes /\ new.op = "sale" /\ new.at = at
    BY <1>1, <1>3 DEF Changes
  <1>5. Commit(new)
    BY <1>2
  <1> HIDE DEF new
  <1> QED
    BY <1>1, <1>3, <1>4, <1>5 DEF CommitSale

LEMMA CancelCommitted ==
  ASSUME ReportsTypeOK, NEW o \in Baskets, CommitCancel(o)
  PROVE  /\ open[o] \in [op : {"cancel"}, shop : Shops, at : Instants]
         /\ open' = [open EXCEPT ![o] = None] /\ UNCHANGED << clock, report >>
         /\ \E change \in Changes : /\ Commit(change) /\ change.op = "cancel"
                                    /\ change.at \in Instants /\ open[o].at <= change.at
  <1>1. open[o] \in [op : {"cancel"}, shop : Shops, at : Instants]
    BY DEF CommitCancel, ReportsTypeOK, None
  <1>2. PICK at \in ReversalStamps(o) :
          Commit([op |-> "cancel", so |-> << o, open[o].shop >>, at |-> at])
    BY DEF CommitCancel
  <1> DEFINE new == [op |-> "cancel", so |-> << o, open[o].shop >>, at |-> at]
  <1>3. at \in Instants /\ open[o].at <= at
    BY <1>1, <1>2, TimeAssumption DEF ReversalStamps, Stamps, ReportsTypeOK, Instants
  <1>4. new \in Changes /\ new.op = "cancel" /\ new.at = at
    BY <1>1, <1>3 DEF Changes, SellerOrderIds
  <1>5. Commit(new)
    BY <1>2
  <1> HIDE DEF new
  <1> QED
    BY <1>1, <1>3, <1>4, <1>5 DEF CommitCancel

LEMMA SessionStarted ==
  ASSUME ReportsTypeOK, NEW o \in Baskets, StartSession(o)
  PROVE  \E change \in Changes : Commit(change) /\ change.op = "cart"
  <1> DEFINE new == [op |-> "cart", basket |-> o, at |-> clock]
  <1>1. new \in Changes /\ new.op = "cart"
    BY DEF Changes, ReportsTypeOK
  <1>2. Commit(new)
    BY DEF StartSession
  <1> HIDE DEF new
  <1> QED
    BY <1>1, <1>2

LEMMA OrderCompleted ==
  ASSUME ReportsTypeOK, NEW o \in Baskets, NEW h \in Shops, CompleteSellerOrder(o, h)
  PROVE  \E change \in Changes : Commit(change) /\ change.op = "complete"
  <1> DEFINE new == [op |-> "complete", so |-> << o, h >>]
  <1>1. new \in Changes /\ new.op = "complete"
    BY DEF Changes, SellerOrderIds
  <1>2. Commit(new)
    BY DEF CompleteSellerOrder
  <1> HIDE DEF new
  <1> QED
    BY <1>1, <1>2

OpenState ==
  {None} \union [op : {"sale"}, shops : SUBSET Shops, at : Instants]
         \union [op : {"cancel"}, shop : Shops, at : Instants]

ReportOK ==
  \/ report = NoReport
  \/ /\ DOMAIN report = {"pc", "seller", "seen", "period"}
     /\ report.pc = "reading" /\ report.period \in Periods
     /\ report.seller \in Shops \union {Missing}
     /\ DOMAIN report.seen \subseteq FiguresFor(report.seller)
     /\ \A part \in DOMAIN report.seen : report.seen[part] \in 0 .. Len(log)

LEMMA ReportStays ==
  ASSUME ReportsTypeOK, UNCHANGED report, Len(log') \in Nat, Len(log) <= Len(log')
  PROVE  ReportOK'
  <1>1. Len(log) \in Nat
    BY DEF ReportsTypeOK
  <1> QED
    BY <1>1 DEF ReportsTypeOK, ReportOK

LEMMA TradeTypes ==
  ASSUME ReportsTypeOK, Trade
  PROVE  ReportsTypeOK'
  <1> USE DEF OpenState
  <1>1. /\ open \in [Baskets -> OpenState] /\ clock \in Instants
        /\ log \in Seq(Changes) /\ Len(log) \in Nat /\ Len(log) <= MaxCommits
    BY DEF ReportsTypeOK
  <1>2. ASSUME open' \in [Baskets -> OpenState], UNCHANGED report, clock' \in Instants,
               log' \in Seq(Changes), Len(log) <= Len(log'), Len(log') <= MaxCommits
        PROVE  ReportsTypeOK'
    <2>1. Len(log') \in Nat
      BY <1>2
    <2>2. ReportOK'
      BY <1>2, <2>1, ReportStays
    <2> QED
      BY <1>2, <2>2 DEF ReportsTypeOK, ReportOK
  <1>3. \A o \in Baskets : [open EXCEPT ![o] = None] \in [Baskets -> OpenState]
    BY <1>1
  <1>4. ASSUME NEW change \in Changes, Commit(change)
        PROVE  /\ log' \in Seq(Changes) /\ Len(log) <= Len(log') /\ Len(log') <= MaxCommits
    BY <1>1, <1>4, Appended
  <1>5. CASE Tick
    <2>1. clock' \in Instants
      BY <1>1, <1>5, TimeAssumption DEF Tick, Instants
    <2> QED
      BY <1>1, <1>2, <1>5, <2>1 DEF Tick
  <1>6. ASSUME NEW o \in Baskets, StartSession(o)
        PROVE  ReportsTypeOK'
    <2>1. UNCHANGED << clock, open, report >>
      BY <1>6 DEF StartSession
    <2>2. log' \in Seq(Changes) /\ Len(log) <= Len(log') /\ Len(log') <= MaxCommits
      BY <1>4, <1>6, SessionStarted
    <2> QED
      BY <1>1, <1>2, <2>1, <2>2
  <1>7. ASSUME NEW o \in Baskets, CommitSale(o)
        PROVE  ReportsTypeOK'
    <2>1. open' \in [Baskets -> OpenState] /\ UNCHANGED << clock, report >>
      BY <1>3, <1>7, SaleCommitted
    <2>2. log' \in Seq(Changes) /\ Len(log) <= Len(log') /\ Len(log') <= MaxCommits
      BY <1>4, <1>7, SaleCommitted
    <2> QED
      BY <1>1, <1>2, <2>1, <2>2
  <1>8. ASSUME NEW o \in Baskets, CommitCancel(o)
        PROVE  ReportsTypeOK'
    <2>1. open' \in [Baskets -> OpenState] /\ UNCHANGED << clock, report >>
      BY <1>3, <1>8, CancelCommitted
    <2>2. log' \in Seq(Changes) /\ Len(log) <= Len(log') /\ Len(log') <= MaxCommits
      BY <1>4, <1>8, CancelCommitted
    <2> QED
      BY <1>1, <1>2, <2>1, <2>2
  <1>9. ASSUME NEW o \in Baskets, RollBack(o)
        PROVE  ReportsTypeOK'
    <2>1. open' \in [Baskets -> OpenState] /\ UNCHANGED << clock, log, report >>
      BY <1>3, <1>9 DEF RollBack
    <2> QED
      BY <1>1, <1>2, <2>1
  <1>10. ASSUME NEW o \in Baskets, NEW shops \in SUBSET Shops, BeginSale(o, shops)
         PROVE  ReportsTypeOK'
    <2> DEFINE new == [op |-> "sale", shops |-> shops, at |-> clock]
    <2>1. new \in OpenState /\ open' = [open EXCEPT ![o] = new]
      BY <1>1, <1>10 DEF BeginSale
    <2> HIDE DEF new
    <2>2. open' \in [Baskets -> OpenState] /\ UNCHANGED << clock, log, report >>
      BY <1>1, <1>10, <2>1 DEF BeginSale
    <2> QED
      BY <1>1, <1>2, <2>2
  <1>11. ASSUME NEW o \in Baskets, NEW h \in Shops, BeginCancel(o, h)
         PROVE  ReportsTypeOK'
    <2> DEFINE new == [op |-> "cancel", shop |-> h, at |-> clock]
    <2>1. new \in OpenState /\ open' = [open EXCEPT ![o] = new]
      BY <1>1, <1>11 DEF BeginCancel
    <2> HIDE DEF new
    <2>2. open' \in [Baskets -> OpenState] /\ UNCHANGED << clock, log, report >>
      BY <1>1, <1>11, <2>1 DEF BeginCancel
    <2> QED
      BY <1>1, <1>2, <2>2
  <1>12. ASSUME NEW o \in Baskets, NEW h \in Shops, CompleteSellerOrder(o, h)
         PROVE  ReportsTypeOK'
    <2>1. UNCHANGED << clock, open, report >>
      BY <1>12 DEF CompleteSellerOrder
    <2>2. log' \in Seq(Changes) /\ Len(log) <= Len(log') /\ Len(log') <= MaxCommits
      BY <1>4, <1>12, OrderCompleted
    <2> QED
      BY <1>1, <1>2, <2>1, <2>2
  <1> QED
    BY <1>5, <1>6, <1>7, <1>8, <1>9, <1>10, <1>11, <1>12 DEF Trade

(* A day is a number of instants, so a period has integers for its ends. *)
LEMMA ResolvedPeriod ==
  ASSUME NEW from \in Instants \union {Missing}, NEW to \in Instants \union {Missing},
         NEW now \in Instants
  PROVE  ResolvePeriod(from, to, now) \in Periods
  <1>1. \A t \in Instants : StartOfDay(t) \in Int
    BY TimeAssumption DEF Instants, StartOfDay
  <1> DEFINE last == IF to = Missing THEN now ELSE to
  <1>2. last \in Instants
    OBVIOUS
  <1> HIDE DEF last
  <1> DEFINE end == StartOfDay(last) + DayLength
  <1>3. end \in Int
    BY <1>1, <1>2, TimeAssumption
  <1> HIDE DEF end
  <1> DEFINE start == IF from = Missing THEN end - DefaultDays * DayLength
                      ELSE StartOfDay(from)
  <1>4. start \in Int
    <2>1. DefaultDays * DayLength \in Int
      BY TimeAssumption
    <2> QED
      BY <1>1, <1>3, <2>1
  <1> HIDE DEF start
  <1>5. BadRequest \in Periods /\ [from |-> start, to |-> end] \in Periods
    BY <1>3, <1>4 DEF BadRequest, Periods
  <1>6. ResolvePeriod(from, to, now) \in {BadRequest, [from |-> start, to |-> end]}
    BY DEF ResolvePeriod, start, end, last
  <1> QED
    BY <1>5, <1>6

LEMMA CompileTypes ==
  ASSUME ReportsTypeOK, Compile
  PROVE  ReportsTypeOK'
  <1>1. UNCHANGED << clock, log, open >>
    BY DEF Compile, GetPlatformReport, ExportDataset, GetSellerReport, CompileReport, Read, Answer
  <1>2. ReportOK' => ReportsTypeOK'
    BY <1>1 DEF ReportsTypeOK, ReportOK
  <1>3. ASSUME NEW seller \in Shops \union {Missing}, NEW from \in Instants \union {Missing},
               NEW to \in Instants \union {Missing}, CompileReport(seller, from, to)
        PROVE  ReportOK'
    <2>1. ResolvePeriod(from, to, clock) \in Periods
      BY ResolvedPeriod DEF ReportsTypeOK
    <2>2. /\ DOMAIN report' = {"pc", "seller", "seen", "period"}
          /\ report'.pc = "reading" /\ report'.seller = seller /\ report'.seen = << >>
          /\ report'.period = ResolvePeriod(from, to, clock)
      BY <1>3 DEF CompileReport
    <2>3. DOMAIN report'.seen = {}
      BY <2>2
    <2> QED
      BY <2>1, <2>2, <2>3 DEF ReportOK
  <1>4. ASSUME NEW part \in Figures, Read(part)
        PROVE  ReportOK'
    <2> DEFINE seen == [q \in DOMAIN report.seen \union {part} |->
                          IF q = part THEN Len(log) ELSE report.seen[q]]
    <2>1. /\ report.pc = "reading" /\ part \in FiguresFor(report.seller)
          /\ report' = [report EXCEPT !.seen = seen]
      BY <1>4 DEF Read, Now
    <2>2. /\ DOMAIN report = {"pc", "seller", "seen", "period"}
          /\ report.period \in Periods /\ report.seller \in Shops \union {Missing}
          /\ DOMAIN report.seen \subseteq FiguresFor(report.seller)
          /\ \A q \in DOMAIN report.seen : report.seen[q] \in 0 .. Len(log)
      BY <2>1 DEF ReportsTypeOK, NoReport
    <2>3. /\ DOMAIN seen \subseteq FiguresFor(report.seller)
          /\ \A q \in DOMAIN seen : seen[q] \in 0 .. Len(log)
      BY <2>1, <2>2 DEF ReportsTypeOK
    <2> HIDE DEF seen
    <2>4. /\ DOMAIN report' = DOMAIN report
          /\ report'.pc = report.pc /\ report'.period = report.period
          /\ report'.seller = report.seller /\ report'.seen = seen
      BY <2>1, <2>2
    <2> QED
      BY <1>1, <2>1, <2>2, <2>3, <2>4 DEF ReportOK
  <1>5. CASE Answer
    <2>1. report' = NoReport
      BY <1>5 DEF Answer
    <2> QED
      BY <1>2, <2>1 DEF ReportOK
  <1> QED
    BY <1>2, <1>3, <1>4, <1>5 DEF Compile, GetPlatformReport, ExportDataset, GetSellerReport

(* The clock, the log and the transactions under way are of their types,    *)
(* and a report reads only figures it may show, each at a state there was   *)
(* (AnalyticsService.getPlatformReport, getSellerReport).                   *)
THEOREM ReportTypes == ReportsSpec => []ReportsTypeOK
  <1>1. ReportsInit => ReportsTypeOK
    BY TimeAssumption DEF ReportsInit, ReportsTypeOK, Instants
  <1>2. ReportsTypeOK /\ [ReportsNext]_reportVars => ReportsTypeOK'
    <2>1. ReportsTypeOK /\ UNCHANGED reportVars => ReportsTypeOK'
      BY DEF reportVars, ReportsTypeOK
    <2> QED
      BY <2>1, TradeTypes, CompileTypes DEF ReportsNext
  <1> QED
    BY <1>1, <1>2, PTL DEF ReportsSpec

-----------------------------------------------------------------------------
(* Reports: what a commit does to the entries of a day                     *)

MadeBySale(s) ==
  {[type |-> type, so |-> << s.basket, h >>, at |-> s.at] :
     type \in {"SALE", "COMMISSION"}, h \in s.shops}
MadeByCancel(c) ==
  {[type |-> type, so |-> c.so, at |-> c.at] : type \in {"REFUND", "ADJUSTMENT"}}

EntriesFrom(sales, cancels) ==
  (UNION {{[type |-> type, so |-> << s.basket, h >>, at |-> s.at] :
             type \in {"SALE", "COMMISSION"}, h \in s.shops} : s \in sales})
  \union {[type |-> type, so |-> c.so, at |-> c.at] :
            type \in {"REFUND", "ADJUSTMENT"}, c \in cancels}

LEMMA EntryMade ==
  ASSUME NEW sales, NEW cancels, NEW e
  PROVE  e \in EntriesFrom(sales, cancels) <=>
           \/ \E s \in sales : e \in MadeBySale(s)
           \/ \E c \in cancels : e \in MadeByCancel(c)
  <1> DEFINE made == UNION {{[type |-> type, so |-> << s.basket, h >>, at |-> s.at] :
                               type \in {"SALE", "COMMISSION"}, h \in s.shops} : s \in sales}
             reversed == {[type |-> type, so |-> c.so, at |-> c.at] :
                            type \in {"REFUND", "ADJUSTMENT"}, c \in cancels}
  <1>1. e \in made <=> \E s \in sales : e \in MadeBySale(s)
    BY DEF MadeBySale
  <1>2. e \in reversed <=> \E c \in cancels : e \in MadeByCancel(c)
    BY DEF MadeByCancel
  <1>3. EntriesFrom(sales, cancels) = made \union reversed
    BY DEF EntriesFrom
  <1> HIDE DEF made, reversed
  <1> QED
    BY <1>1, <1>2, <1>3

LEMMA EntryStamp ==
  ASSUME NEW x, NEW e, e \in MadeBySale(x) \/ e \in MadeByCancel(x)
  PROVE  e.at = x.at
  BY DEF MadeBySale, MadeByCancel

LEMMA EntriesAppended ==
  ASSUME ReportsTypeOK, NEW change \in Changes, Commit(change)
  PROVE  /\ Entries(Now) \subseteq Entries(Now)'
         /\ \A e \in Entries(Now)' \ Entries(Now) :
              change.op \in {"sale", "cancel"} /\ e.at = change.at
  <1>1. /\ Len(log') = Len(log) + 1 /\ Len(log) \in Nat
        /\ \A i \in 1 .. Len(log) : log'[i] = log[i]
        /\ log'[Len(log) + 1] = change
    BY Appended
  <1>2. ASSUME NEW op
        PROVE  /\ Committed(Now, op) \subseteq Committed(Now, op)'
               /\ \A c \in Committed(Now, op)' \ Committed(Now, op) : c = change /\ change.op = op
    BY <1>1 DEF Committed, Now
  <1>3. \A e : e \in Entries(Now)' <=>
          \/ \E s \in Committed(Now, "sale")' : e \in MadeBySale(s)
          \/ \E c \in Committed(Now, "cancel")' : e \in MadeByCancel(c)
    <2>1. Entries(Now)' = EntriesFrom(Committed(Now, "sale")', Committed(Now, "cancel")')
      BY DEF Entries, EntriesFrom
    <2> QED
      BY <2>1, EntryMade
  <1>4. \A e : e \in Entries(Now) <=>
          \/ \E s \in Committed(Now, "sale") : e \in MadeBySale(s)
          \/ \E c \in Committed(Now, "cancel") : e \in MadeByCancel(c)
    <2>1. Entries(Now) = EntriesFrom(Committed(Now, "sale"), Committed(Now, "cancel"))
      BY DEF Entries, EntriesFrom
    <2> QED
      BY <2>1, EntryMade
  <1>5. Entries(Now) \subseteq Entries(Now)'
    BY <1>2, <1>3, <1>4
  <1>6. ASSUME NEW e \in Entries(Now)', e \notin Entries(Now)
        PROVE  change.op \in {"sale", "cancel"} /\ e.at = change.at
    <2>1. \/ change.op = "sale" /\ e \in MadeBySale(change)
          \/ change.op = "cancel" /\ e \in MadeByCancel(change)
      BY <1>2, <1>3, <1>6, <1>4
    <2> QED
      BY <2>1, EntryStamp
  <1> QED
    BY <1>5, <1>6

(* A change stamped outside a day leaves what the day earned as it is. *)
LEMMA EarnedStays ==
  ASSUME ReportsTypeOK, NEW d \in Instants, NEW change \in Changes, Commit(change),
         change.op \in {"sale", "cancel"} => ~Within(change.at, Day(d))
  PROVE  EarnedOn(d)' = EarnedOn(d)
  <1>1. EntriesIn(Now, Day(d), Shops)' = EntriesIn(Now, Day(d), Shops)
    BY EntriesAppended DEF EntriesIn
  <1>2. EarnedOn(d)' = FoldRevenue(EntriesIn(Now, Day(d), Shops)')
    BY DEF EarnedOn, LedgerTotals
  <1>3. EarnedOn(d) = FoldRevenue(EntriesIn(Now, Day(d), Shops))
    BY DEF EarnedOn, LedgerTotals
  <1> QED
    BY <1>1, <1>2, <1>3

LEMMA DayEnd ==
  ASSUME NEW d \in Instants, NEW t \in Instants
  PROVE  /\ Within(t, Day(d)) => t < Day(d).to
         /\ Day(d).to \in Int
  BY TimeAssumption DEF Within, Day, Instants

(* What a day that is over earned changes only by a transaction that made   *)
(* its entries before the end of the day and had not committed yet          *)
(* (LedgerEntry.createdAt, OrdersService.checkout,                          *)
(* restoreStockAndReverseLedger).                                           *)
THEOREM ClosedBooks == ReportsSpec => ClosedPeriodsStay
  <1>1. ReportsTypeOK /\ [ReportsNext]_reportVars =>
          [\A d \in {x \in Instants : x % DayLength = 0} :
             log' # log /\ Day(d).to <= clock /\ EarnedOn(d)' # EarnedOn(d) =>
               \E o \in Baskets :
                 open[o] # None /\ open'[o] = None /\ open[o].at < Day(d).to]_reportVars
    <2> SUFFICES ASSUME ReportsTypeOK, [ReportsNext]_reportVars,
                        NEW d \in Instants, log' # log, EarnedOn(d)' # EarnedOn(d)
                 PROVE  \E o \in Baskets : /\ open[o] # None /\ open'[o] = None
                                           /\ open[o].at < Day(d).to
      OBVIOUS
    <2>1. Trade
      BY DEF ReportsNext, reportVars, Compile, GetPlatformReport, ExportDataset,
              GetSellerReport, CompileReport, Read, Answer
    <2>2. ASSUME NEW o \in Baskets, CommitSale(o) \/ CommitCancel(o)
          PROVE  open[o] # None /\ open'[o] = None /\ open[o].at < Day(d).to
      <3>1. /\ open[o].op # "none" /\ open[o].at \in Instants
            /\ open' = [open EXCEPT ![o] = None]
        BY <2>2, SaleCommitted, CancelCommitted
      <3>2. PICK change \in Changes :
              Commit(change) /\ change.at \in Instants /\ open[o].at <= change.at
        BY <2>2, SaleCommitted, CancelCommitted
      <3>3. Within(change.at, Day(d))
        BY <3>2, EarnedStays
      <3>4. open[o].at < Day(d).to
        BY <3>1, <3>2, <3>3, DayEnd DEF Instants
      <3> QED
        BY <3>1, <3>4 DEF None, ReportsTypeOK
    <2>3. ASSUME NEW o \in Baskets, StartSession(o)
          PROVE  FALSE
      BY <2>3, SessionStarted, EarnedStays
    <2>4. ASSUME NEW o \in Baskets, NEW h \in Shops, CompleteSellerOrder(o, h)
          PROVE  FALSE
      BY <2>4, OrderCompleted, EarnedStays
    <2>5. \E o \in Baskets : \/ StartSession(o) \/ CommitSale(o) \/ CommitCancel(o)
                             \/ \E h \in Shops : CompleteSellerOrder(o, h)
      BY <2>1 DEF Trade, Tick, RollBack, BeginSale, BeginCancel
    <2> QED
      BY <2>2, <2>3, <2>4, <2>5
  <1> QED
    BY <1>1, ReportTypes, PTL DEF ReportsSpec, ClosedPeriodsStay

-----------------------------------------------------------------------------
(* Sums.  A fold over a finite set obeys its equation, and every property   *)
(* of it goes by a smallest set that lacks it.                              *)

(* Of some subsets of a finite set one has no other below it. *)
LEMMA SmallestSet ==
  ASSUME NEW S, IsFiniteSet(S), NEW B, B \subseteq SUBSET S, B # {}
  PROVE  \E U \in B : \A V \in B : V \subseteq U => V = U
  <1>1. B \subseteq FiniteSubsetsOf(S)
    BY FS_FiniteSubsetsOfFinite
  <1>2. IsWellFoundedOn(StrictSubsetOrdering(S), FiniteSubsetsOf(S))
    BY FS_StrictSubsetOrderingWellFounded
  <1>3. PICK U \in B : \A V \in B : << V, U >> \notin StrictSubsetOrdering(S)
    BY <1>1, <1>2, WFMin
  <1>4. ASSUME NEW V \in B, V \subseteq U, V # U
        PROVE  << V, U >> \in StrictSubsetOrdering(S)
    <2>1. V \in SUBSET S /\ U \in SUBSET S
      OBVIOUS
    <2> QED
      BY <1>4, <2>1 DEF StrictSubsetOrdering
  <1>5. \A V \in B : V \subseteq U => V = U
    BY <1>3, <1>4
  <1> QED
    BY <1>5

Pick(s) == CHOOSE x \in s : TRUE
Step(f, g, s) == IF s = {} THEN 0 ELSE f[Pick(s)] + g[s \ {Pick(s)}]
Solves(f, g, S) == g = [s \in SUBSET S |-> Step(f, g, s)]
Solution(f, S) == CHOOSE g : Solves(f, g, S)

LEMMA SumIsSolution ==
  ASSUME NEW f, NEW S
  PROVE  SumFunctionOnSet(f, S) = Solution(f, S)[S]
  BY DEF SumFunctionOnSet, FoldFunctionOnSet, MapThenFoldSet, Solution, Solves, Step, Pick

LEMMA PickIsIn == ASSUME NEW s, s # {} PROVE Pick(s) \in s
  BY DEF Pick

(* Two solutions agree where both are defined. *)
LEMMA SolutionsAgree ==
  ASSUME NEW f, NEW S, IsFiniteSet(S), NEW T, T \subseteq S,
         NEW g, Solves(f, g, S), NEW h, Solves(f, h, T)
  PROVE  g[T] = h[T]
  <1> DEFINE B == {s \in SUBSET T : g[s] # h[s]}
  <1> SUFFICES ASSUME B # {} PROVE FALSE
    OBVIOUS
  <1>1. B \subseteq SUBSET S
    OBVIOUS
  <1>2. PICK U \in B : \A V \in B : V \subseteq U => V = U
    <2> HIDE DEF B
    <2> QED BY <1>1, SmallestSet
  <1>3. g[U] = Step(f, g, U) /\ h[U] = Step(f, h, U)
    BY DEF Solves
  <1>4. U # {}
    BY <1>3 DEF Step
  <1>5. Pick(U) \in U
    BY <1>4, PickIsIn
  <1>6. U \ {Pick(U)} \notin B
    BY <1>2, <1>5
  <1>7. g[U \ {Pick(U)}] = h[U \ {Pick(U)}]
    BY <1>6
  <1> QED
    BY <1>3, <1>4, <1>7 DEF Step

LEMMA SolutionExists ==
  ASSUME NEW f, NEW S, IsFiniteSet(S)
  PROVE  Solves(f, Solution(f, S), S)
  <1> DEFINE B == {U \in SUBSET S : ~Solves(f, Solution(f, U), U)}
  <1> SUFFICES ASSUME B # {} PROVE FALSE
    OBVIOUS
  <1>1. PICK U \in B : \A V \in B : V \subseteq U => V = U
    <2>1. B \subseteq SUBSET S
      OBVIOUS
    <2> HIDE DEF B
    <2> QED BY <2>1, SmallestSet
  <1>2. \A V \in SUBSET U : V # U => Solves(f, Solution(f, V), V) /\ IsFiniteSet(V)
    BY <1>1, FS_Subset
  <1> DEFINE below == [s \in SUBSET U |-> Solution(f, s)[s]]
             g == [s \in SUBSET U |-> IF s = U THEN Step(f, below, s) ELSE below[s]]
  <1>3. ASSUME NEW s \in SUBSET U, s # {}
        PROVE  s \ {Pick(s)} \in SUBSET U /\ s \ {Pick(s)} # U /\ s \ {Pick(s)} # s
               /\ Pick(s) \in s
    BY <1>3, PickIsIn
  <1>4. ASSUME NEW s \in SUBSET U PROVE g[s] = Step(f, g, s)
    <2>1. CASE s = {}
      <3>1. CASE s = U
        BY <2>1, <3>1 DEF Step
      <3>2. CASE s # U
        <4>1. Solution(f, s) = [t \in SUBSET s |-> Step(f, Solution(f, s), t)]
          BY <1>2, <3>2 DEF Solves
        <4>2. Solution(f, s)[s] = Step(f, Solution(f, s), s)
          <5> HIDE DEF g, below
          <5> QED BY <4>1
        <4> QED
          BY <2>1, <3>2, <4>2 DEF Step
      <3> QED
        BY <3>1, <3>2
    <2>2. CASE s # {}
      <3> DEFINE r == s \ {Pick(s)}
      <3>1. r \in SUBSET U /\ r # U /\ r # s /\ r \subseteq s /\ Pick(s) \in s
        BY <1>3, <2>2
      <3>2. g[r] = Solution(f, r)[r]
        BY <3>1
      <3>3. CASE s = U
        <4>1. below[r] = Solution(f, r)[r]
          BY <3>1
        <4>2. Step(f, below, s) = Step(f, g, s)
          <5> HIDE DEF g, below
          <5> QED BY <2>2, <3>2, <4>1 DEF Step
        <4>3. g[s] = Step(f, below, s)
          BY <3>3
        <4> QED
          BY <4>2, <4>3
      <3>4. CASE s # U
        <4>1. Solves(f, Solution(f, s), s) /\ Solves(f, Solution(f, r), r) /\ IsFiniteSet(s)
          BY <1>2, <3>1, <3>4
        <4>2. Solution(f, s)[r] = Solution(f, r)[r]
          <5> HIDE DEF g, r
          <5> QED BY <3>1, <4>1, SolutionsAgree
        <4>3. Solution(f, s)[s] = Step(f, Solution(f, s), s)
          <5> HIDE DEF g
          <5> QED BY <4>1 DEF Solves
        <4>4. Step(f, Solution(f, s), s) = Step(f, g, s)
          <5> HIDE DEF g, below
          <5> QED BY <2>2, <3>2, <4>2 DEF Step
        <4>5. g[s] = Solution(f, s)[s]
          BY <3>4
        <4> QED
          BY <4>3, <4>4, <4>5
      <3> QED
        BY <3>3, <3>4
    <2> QED
      BY <2>1, <2>2
  <1>5. Solves(f, g, U)
    <2>1. DOMAIN g = SUBSET U /\ g = [s \in SUBSET U |-> g[s]]
      OBVIOUS
    <2> HIDE DEF g
    <2> QED
      BY <1>4, <2>1 DEF Solves
  <1>6. Solves(f, Solution(f, U), U)
    <2> HIDE DEF g
    <2> QED BY <1>5 DEF Solution
  <1> QED
    BY <1>6

(* The equation of the fold. *)
LEMMA SumPicked ==
  ASSUME NEW f, NEW S, IsFiniteSet(S), S # {}
  PROVE  SumFunctionOnSet(f, S) = f[Pick(S)] + SumFunctionOnSet(f, S \ {Pick(S)})
  <1> DEFINE r == S \ {Pick(S)}
  <1>1. IsFiniteSet(r) /\ r \subseteq S
    BY FS_Subset
  <1>2. Solves(f, Solution(f, S), S) /\ Solves(f, Solution(f, r), r)
    BY <1>1, SolutionExists
  <1>3. Solution(f, S)[r] = Solution(f, r)[r]
    <2> DEFINE g == Solution(f, S)
               h == Solution(f, r)
    <2>2. Solves(f, g, S) /\ Solves(f, h, r)
      BY <1>2
    <2> HIDE DEF r, g, h
    <2>1. g[r] = h[r]
      BY <1>1, <2>2, SolutionsAgree
    <2> QED
      BY <2>1 DEF g, h
  <1>4. Solution(f, S)[S] = Step(f, Solution(f, S), S)
    BY <1>2 DEF Solves
  <1> QED
    BY <1>3, <1>4, SumIsSolution DEF Step

LEMMA SumEmpty == \A f : SumFunctionOnSet(f, {}) = 0
  <1> TAKE f
  <1>1. Solves(f, Solution(f, {}), {})
    BY SolutionExists, FS_EmptySet
  <1>2. Solution(f, {})[{}] = Step(f, Solution(f, {}), {})
    BY <1>1 DEF Solves
  <1> QED
    BY <1>2, SumIsSolution DEF Step

Whole(f, S) == \A x \in S : f[x] \in Int

(* A sum of integers is one. *)
LEMMA SumType ==
  ASSUME NEW f, NEW S, IsFiniteSet(S), Whole(f, S)
  PROVE  SumFunctionOnSet(f, S) \in Int
  <1> DEFINE B == {U \in SUBSET S : SumFunctionOnSet(f, U) \notin Int}
  <1> SUFFICES ASSUME B # {} PROVE FALSE
    OBVIOUS
  <1>1. PICK U \in B : \A V \in B : V \subseteq U => V = U
    <2>1. B \subseteq SUBSET S
      OBVIOUS
    <2> HIDE DEF B
    <2> QED BY <2>1, SmallestSet
  <1>2. U # {}
    BY SumEmpty
  <1> DEFINE r == U \ {Pick(U)}
  <1>3. Pick(U) \in U
    BY <1>2, PickIsIn
  <1>4. SumFunctionOnSet(f, r) \in Int
    BY <1>1, <1>3
  <1>5. SumFunctionOnSet(f, U) = f[Pick(U)] + SumFunctionOnSet(f, r)
    BY <1>1, <1>2, SumPicked, FS_Subset
  <1>6. f[Pick(U)] \in Int
    BY <1>3 DEF Whole
  <1> HIDE DEF r
  <1>7. SumFunctionOnSet(f, U) \in Int
    BY <1>4, <1>5, <1>6
  <1> QED
    BY <1>7

(* A sum depends on the summands alone. *)
LEMMA SumAgrees ==
  ASSUME NEW S, IsFiniteSet(S), NEW f, NEW g, \A x \in S : f[x] = g[x]
  PROVE  SumFunctionOnSet(f, S) = SumFunctionOnSet(g, S)
  <1> DEFINE B == {U \in SUBSET S : SumFunctionOnSet(f, U) # SumFunctionOnSet(g, U)}
  <1> SUFFICES ASSUME B # {} PROVE FALSE
    OBVIOUS
  <1>1. PICK U \in B : \A V \in B : V \subseteq U => V = U
    <2>1. B \subseteq SUBSET S
      OBVIOUS
    <2> HIDE DEF B
    <2> QED BY <2>1, SmallestSet
  <1>2. U # {}
    BY SumEmpty
  <1> DEFINE r == U \ {Pick(U)}
  <1>3. Pick(U) \in U
    BY <1>2, PickIsIn
  <1>4. SumFunctionOnSet(f, r) = SumFunctionOnSet(g, r)
    BY <1>1, <1>3
  <1>5. IsFiniteSet(U)
    BY FS_Subset
  <1>6. SumFunctionOnSet(f, U) = f[Pick(U)] + SumFunctionOnSet(f, r)
    BY <1>2, <1>5, SumPicked
  <1>7. SumFunctionOnSet(g, U) = g[Pick(U)] + SumFunctionOnSet(g, r)
    BY <1>2, <1>5, SumPicked
  <1> QED
    BY <1>3, <1>4, <1>6, <1>7

(* Any summand may be taken out first. *)
LEMMA SumRemove ==
  ASSUME NEW f, NEW S, IsFiniteSet(S), Whole(f, S), NEW x \in S
  PROVE  SumFunctionOnSet(f, S) = f[x] + SumFunctionOnSet(f, S \ {x})
  <1> DEFINE Good(U) == \A y \in U : SumFunctionOnSet(f, U) = f[y] + SumFunctionOnSet(f, U \ {y})
             B == {U \in SUBSET S : ~Good(U)}
  <1> SUFFICES ASSUME B # {} PROVE FALSE
    OBVIOUS
  <1>1. PICK U \in B : \A V \in B : V \subseteq U => V = U
    <2>1. B \subseteq SUBSET S
      OBVIOUS
    <2> HIDE DEF B
    <2> QED BY <2>1, SmallestSet
  <1>2. PICK y \in U : SumFunctionOnSet(f, U) # f[y] + SumFunctionOnSet(f, U \ {y})
    OBVIOUS
  <1> DEFINE p == Pick(U)
             r == U \ {p}
             v == U \ {y}
             q == r \ {y}
  <1>3. p \in U /\ IsFiniteSet(U) /\ U \subseteq S
    BY PickIsIn, FS_Subset
  <1>4. SumFunctionOnSet(f, U) = f[p] + SumFunctionOnSet(f, r)
    BY <1>3, SumPicked
  <1>5. p # y
    BY <1>2, <1>4
  <1>6. Good(r) /\ Good(v)
    <2>1. r \in SUBSET S /\ r \subseteq U /\ r # U /\ v \in SUBSET S /\ v \subseteq U /\ v # U
      BY <1>3
    <2> HIDE DEF Good, r, v
    <2> QED
      BY <1>1, <2>1
  <1>7. SumFunctionOnSet(f, r) = f[y] + SumFunctionOnSet(f, q)
    BY <1>5, <1>6
  <1>8. SumFunctionOnSet(f, v) = f[p] + SumFunctionOnSet(f, q)
    <2>1. p \in v /\ v \ {p} = q
      BY <1>3, <1>5
    <2> QED
      BY <1>6, <2>1
  <1>9. SumFunctionOnSet(f, q) \in Int
    <2>1. IsFiniteSet(q) /\ q \subseteq S
      BY <1>3, FS_Subset
    <2> QED
      BY <2>1, SumType DEF Whole
  <1>10. f[p] \in Int /\ f[y] \in Int
    BY <1>3 DEF Whole
  <1> HIDE DEF p, q, r, v
  <1>11. SumFunctionOnSet(f, U) = f[y] + SumFunctionOnSet(f, v)
    BY <1>4, <1>7, <1>8, <1>9, <1>10
  <1> QED
    BY <1>2, <1>11 DEF v

(* Two sets without a common element. *)
LEMMA SumDisjoint ==
  ASSUME NEW f, NEW S, IsFiniteSet(S), NEW T, IsFiniteSet(T), S \cap T = {}, Whole(f, S \union T)
  PROVE  SumFunctionOnSet(f, S \union T) = SumFunctionOnSet(f, S) + SumFunctionOnSet(f, T)
  <1> DEFINE Good(U) ==
        SumFunctionOnSet(f, S \union U) = SumFunctionOnSet(f, S) + SumFunctionOnSet(f, U)
             B == {U \in SUBSET T : ~Good(U)}
  <1> SUFFICES ASSUME B # {} PROVE FALSE
    OBVIOUS
  <1>1. PICK U \in B : \A V \in B : V \subseteq U => V = U
    <2>1. B \subseteq SUBSET T
      OBVIOUS
    <2> HIDE DEF B
    <2> QED BY <2>1, SmallestSet
  <1>2. Whole(f, S) /\ SumFunctionOnSet(f, S) \in Int
    BY SumType DEF Whole
  <1>3. CASE U = {}
    <2>1. SumFunctionOnSet(f, S \union {}) = SumFunctionOnSet(f, S)
      OBVIOUS
    <2>2. Good({})
      BY <1>2, <2>1, SumEmpty
    <2> QED
      BY <1>1, <1>3, <2>2
  <1>4. CASE U # {}
    <2> PICK x \in U : TRUE
      BY <1>4
    <2> DEFINE r == U \ {x}
    <2>1. U \subseteq T /\ IsFiniteSet(U) /\ IsFiniteSet(S \union U) /\ IsFiniteSet(r)
      BY <1>1, FS_Subset, FS_Union
    <2>2. Whole(f, U) /\ Whole(f, S \union U) /\ Whole(f, r) /\ f[x] \in Int
      BY <2>1 DEF Whole
    <2>3. Good(r)
      <3>1. r \in SUBSET T /\ r \subseteq U /\ r # U
        BY <2>1
      <3> HIDE DEF Good, r
      <3> QED
        BY <1>1, <3>1
    <2>4. SumFunctionOnSet(f, U) = f[x] + SumFunctionOnSet(f, r)
      BY <2>1, <2>2, SumRemove
    <2>5. (S \union U) \ {x} = S \union r
      BY <2>1
    <2>6. SumFunctionOnSet(f, S \union U) = f[x] + SumFunctionOnSet(f, S \union r)
      <3>1. x \in S \union U
        OBVIOUS
      <3>2. SumFunctionOnSet(f, S \union U) = f[x] + SumFunctionOnSet(f, (S \union U) \ {x})
        BY <2>1, <2>2, <3>1, SumRemove
      <3> QED
        BY <2>5, <3>2
    <2>7. SumFunctionOnSet(f, r) \in Int
      BY <2>1, <2>2, SumType
    <2> HIDE DEF r
    <2>8. Good(U)
      BY <1>2, <2>2, <2>3, <2>4, <2>6, <2>7
    <2> QED
      BY <1>1, <2>8
  <1> QED
    BY <1>3, <1>4

(* A quantity that adds up over disjoint sets adds up over the cells of a    *)
(* partition.                                                               *)
Additive(F, E) ==
  /\ \A A \in SUBSET E : F[A] \in Int
  /\ F[{}] = 0
  /\ \A A, C \in SUBSET E : A \cap C = {} => F[A \union C] = F[A] + F[C]
Apart(cell, D) == \A d, e \in D : d # e => cell[d] \cap cell[e] = {}
Together(cell, D) == UNION {cell[d] : d \in D}

LEMMA SumOverCells ==
  ASSUME NEW E, NEW F, Additive(F, E), NEW D, IsFiniteSet(D),
         NEW cell \in [D -> SUBSET E], Apart(cell, D), NEW f, \A d \in D : f[d] = F[cell[d]]
  PROVE  SumFunctionOnSet(f, D) = F[Together(cell, D)]
  <1> DEFINE Cells(S) == Together(cell, S)
             Good(S) == SumFunctionOnSet(f, S) = F[Cells(S)]
             B == {S \in SUBSET D : ~Good(S)}
  <1> SUFFICES ASSUME B # {} PROVE FALSE
    OBVIOUS
  <1>1. PICK U \in B : \A V \in B : V \subseteq U => V = U
    <2>1. B \subseteq SUBSET D
      OBVIOUS
    <2> HIDE DEF B
    <2> QED BY <2>1, SmallestSet
  <1>2. CASE U = {}
    <2>1. Cells({}) = {}
      BY DEF Together
    <2>2. Good({})
      BY <2>1, SumEmpty DEF Additive
    <2> QED
      BY <1>1, <1>2, <2>2
  <1>3. CASE U # {}
    <2> PICK x \in U : TRUE
      BY <1>3
    <2> DEFINE r == U \ {x}
    <2>1. U \subseteq D /\ IsFiniteSet(U)
      BY <1>1, FS_Subset
    <2>2. Whole(f, U)
      BY <2>1 DEF Whole, Additive
    <2>3. Good(r)
      <3>1. r \in SUBSET D /\ r \subseteq U /\ r # U
        BY <2>1
      <3> HIDE DEF Good, r
      <3> QED
        BY <1>1, <3>1
    <2>4. SumFunctionOnSet(f, U) = f[x] + SumFunctionOnSet(f, r)
      BY <2>1, <2>2, SumRemove
    <2>5. Cells(U) = cell[x] \union Cells(r)
      BY DEF Together
    <2>6. cell[x] \in SUBSET E /\ Cells(r) \in SUBSET E
      BY <2>1 DEF Together
    <2>7. cell[x] \cap Cells(r) = {}
      BY <2>1 DEF Apart, Together
    <2>8. F[Cells(U)] = F[cell[x]] + F[Cells(r)]
      <3> DEFINE A == cell[x]
                 C == Cells(r)
      <3>1. A \in SUBSET E /\ C \in SUBSET E /\ A \cap C = {} /\ Cells(U) = A \union C
        BY <2>5, <2>6, <2>7
      <3> HIDE DEF A, C, Cells
      <3>2. F[A \union C] = F[A] + F[C]
        BY <3>1 DEF Additive
      <3>3. F[Cells(U)] = F[A] + F[C]
        BY <3>1, <3>2
      <3> QED
        BY <3>3 DEF A, C
    <2>9. Good(U)
      BY <2>1, <2>3, <2>4, <2>8
    <2> QED
      BY <1>1, <2>9
  <1> QED
    BY <1>2, <1>3

-----------------------------------------------------------------------------
(* Reports: the entries of a period                                        *)

LEMMA FiniteImage ==
  ASSUME NEW S, IsFiniteSet(S), NEW f
  PROVE  IsFiniteSet({f[x] : x \in S})
  <1> DEFINE T == {f[x] : x \in S}
             g == [x \in S |-> f[x]]
  <1>1. g \in Surjection(S, T)
    BY DEF Surjection
  <1> QED
    BY <1>1, FS_Surjection

Types == {"SALE", "COMMISSION", "REFUND", "ADJUSTMENT"}

LEMMA CommittedRows ==
  ASSUME log \in Seq(Changes), NEW n \in 0 .. Len(log), NEW op
  PROVE  /\ IsFiniteSet(Committed(n, op))
         /\ Committed(n, op) \subseteq Changes
         /\ \A c \in Committed(n, op) : c.op = op
  <1>1. IsFiniteSet({j \in 1 .. n : log[j].op = op})
    <2>1. IsFiniteSet(1 .. n)
      BY FS_Interval
    <2> QED
      BY <2>1, FS_Subset
  <1>2. IsFiniteSet(Committed(n, op))
    BY <1>1, FiniteImage DEF Committed
  <1>3. \A i \in 1 .. n : log[i] \in Changes
    OBVIOUS
  <1> QED
    BY <1>2, <1>3 DEF Committed

LEMMA SaleRow ==
  ASSUME NEW s \in Changes, s.op = "sale"
  PROVE  s.basket \in Baskets /\ s.shops \in SUBSET Shops /\ s.placedAt \in Instants
         /\ s.at \in Instants
  BY DEF Changes

LEMMA CancelRow ==
  ASSUME NEW c \in Changes, c.op = "cancel"
  PROVE  c.so \in SellerOrderIds /\ c.at \in Instants
  BY DEF Changes

LEMMA CompleteRow ==
  ASSUME NEW c \in Changes, c.op = "complete"
  PROVE  c.so \in SellerOrderIds
  BY DEF Changes

LEMMA EntryTypes ==
  ASSUME log \in Seq(Changes), NEW n \in 0 .. Len(log), NEW e \in Entries(n)
  PROVE  /\ e.type \in Types /\ e.so \in SellerOrderIds /\ e.so[2] \in Shops
         /\ e.at \in Instants /\ Amount(e) \in Int
  <1>1. \/ \E s \in Committed(n, "sale") : e \in MadeBySale(s)
        \/ \E c \in Committed(n, "cancel") : e \in MadeByCancel(c)
    <2>1. Entries(n) = EntriesFrom(Committed(n, "sale"), Committed(n, "cancel"))
      BY DEF Entries, EntriesFrom
    <2> QED
      BY <2>1, EntryMade
  <1>2. /\ e.type \in Types /\ e.so \in SellerOrderIds /\ e.at \in Instants
    <2>1. ASSUME NEW s \in Committed(n, "sale"), e \in MadeBySale(s)
          PROVE  e.type \in Types /\ e.so \in SellerOrderIds /\ e.at \in Instants
      <3>1. s.basket \in Baskets /\ s.shops \in SUBSET Shops /\ s.at \in Instants
        BY CommittedRows, SaleRow
      <3> QED
        BY <2>1, <3>1 DEF MadeBySale, Types, SellerOrderIds
    <2>2. ASSUME NEW c \in Committed(n, "cancel"), e \in MadeByCancel(c)
          PROVE  e.type \in Types /\ e.so \in SellerOrderIds /\ e.at \in Instants
      <3>1. c.so \in SellerOrderIds /\ c.at \in Instants
        BY CommittedRows, CancelRow
      <3> QED
        BY <2>2, <3>1 DEF MadeByCancel, Types
    <2> QED
      BY <1>1, <2>1, <2>2
  <1>3. e.so[2] \in Shops
    BY <1>2 DEF SellerOrderIds
  <1>4. Gross[e.so] \in Int /\ Fee[e.so] \in Int
    <2>1. \A so \in SellerOrderIds : Gross[so] \in Int /\ Fee[so] \in Int
      BY ShopAssumption DEF SellerOrderIds
    <2> QED
      BY <1>2, <2>1
  <1>5. Amount(e) \in Int
    BY <1>2, <1>4 DEF Amount, Types
  <1> QED
    BY <1>2, <1>3, <1>5

LEMMA EntriesFinite ==
  ASSUME log \in Seq(Changes), NEW n \in 0 .. Len(log)
  PROVE  IsFiniteSet(Entries(n))
  <1> DEFINE sales == Committed(n, "sale")
             cancels == Committed(n, "cancel")
             ofSale == [x \in Types \X (sales \X Shops) |->
                          [type |-> x[1], so |-> << x[2][1].basket, x[2][2] >>, at |-> x[2][1].at]]
             ofCancel == [x \in Types \X cancels |->
                            [type |-> x[1], so |-> x[2].so, at |-> x[2].at]]
  <1>1. IsFiniteSet(sales) /\ IsFiniteSet(cancels)
    BY CommittedRows
  <1>2. IsFiniteSet(Types)
    <2>1. Types = ((({} \union {"SALE"}) \union {"COMMISSION"}) \union {"REFUND"})
                    \union {"ADJUSTMENT"}
      BY DEF Types
    <2> QED
      BY <2>1, FS_EmptySet, FS_AddElement
  <1>3. IsFiniteSet(Types \X (sales \X Shops)) /\ IsFiniteSet(Types \X cancels)
    BY <1>1, <1>2, ShopAssumption, FS_Product
  <1> DEFINE A == {ofSale[x] : x \in Types \X (sales \X Shops)}
             B == {ofCancel[x] : x \in Types \X cancels}
  <1>4. IsFiniteSet(A) /\ IsFiniteSet(B)
    <2> HIDE DEF ofSale, ofCancel, sales, cancels
    <2> QED
      BY <1>3, FiniteImage
  <1>5. ASSUME NEW s \in sales, NEW e \in MadeBySale(s)
        PROVE  e \in A
    <2>1. s.shops \subseteq Shops
      BY CommittedRows, SaleRow
    <2>2. PICK type \in Types, h \in Shops :
            e = [type |-> type, so |-> << s.basket, h >>, at |-> s.at]
      BY <1>5, <2>1 DEF MadeBySale, Types
    <2>3. << type, << s, h >> >> \in Types \X (sales \X Shops)
      OBVIOUS
    <2>4. ofSale[<< type, << s, h >> >>] = e
      BY <2>2, <2>3
    <2> QED
      BY <2>3, <2>4
  <1>6. ASSUME NEW c \in cancels, NEW e \in MadeByCancel(c)
        PROVE  e \in B
    <2>1. PICK type \in Types : e = [type |-> type, so |-> c.so, at |-> c.at]
      BY <1>6 DEF MadeByCancel, Types
    <2>2. << type, c >> \in Types \X cancels
      OBVIOUS
    <2>3. ofCancel[<< type, c >>] = e
      BY <2>1, <2>2
    <2> QED
      BY <2>2, <2>3
  <1> HIDE DEF A, B
  <1>7. Entries(n) \subseteq A \union B
    <2>1. Entries(n) = EntriesFrom(sales, cancels)
      BY DEF Entries, EntriesFrom
    <2> QED
      BY <1>5, <1>6, <2>1, EntryMade
  <1> QED
    BY <1>4, <1>7, FS_Union, FS_Subset

-----------------------------------------------------------------------------
(* Reports: revenue adds up over disjoint sets of entries                  *)

EntryAmounts(n) == [e \in Entries(n) |-> Amount(e)]
OfType(A, type) == {e \in A : e.type = type}

LEMMA SumOfEntries ==
  ASSUME log \in Seq(Changes), NEW n \in 0 .. Len(log), NEW A \in SUBSET Entries(n), NEW type
  PROVE  /\ SumOf(A, type) = SumFunctionOnSet(EntryAmounts(n), OfType(A, type))
         /\ IsFiniteSet(OfType(A, type)) /\ Whole(EntryAmounts(n), OfType(A, type))
         /\ SumOf(A, type) \in Int
  <1> DEFINE T == OfType(A, type)
             f == [e \in T |-> Amount(e)]
  <1>1. T \subseteq Entries(n) /\ IsFiniteSet(T)
    BY EntriesFinite, FS_Subset DEF OfType
  <1>2. \A e \in T : f[e] = EntryAmounts(n)[e]
    BY <1>1 DEF EntryAmounts
  <1>3. SumOf(A, type) = SumFunctionOnSet(f, T)
    <2>1. SumOf(A, type) = SumFunction(f)
      BY DEF SumOf, OfType
    <2>2. DOMAIN f = T
      OBVIOUS
    <2> HIDE DEF f, T
    <2> QED
      BY <2>1, <2>2 DEF SumFunction
  <1>4. Whole(EntryAmounts(n), T)
    BY <1>1, EntryTypes DEF Whole, EntryAmounts
  <1> HIDE DEF f, T
  <1>5. SumOf(A, type) = SumFunctionOnSet(EntryAmounts(n), T)
    BY <1>1, <1>2, <1>3, SumAgrees
  <1> QED
    BY <1>1, <1>4, <1>5, SumType DEF T

LEMMA SumOfAdds ==
  ASSUME log \in Seq(Changes), NEW n \in 0 .. Len(log), NEW A \in SUBSET Entries(n),
         NEW C \in SUBSET Entries(n), A \cap C = {}, NEW type
  PROVE  SumOf(A \union C, type) = SumOf(A, type) + SumOf(C, type)
  <1>1. OfType(A \union C, type) = OfType(A, type) \union OfType(C, type)
    BY DEF OfType
  <1>2. OfType(A, type) \cap OfType(C, type) = {}
    BY DEF OfType
  <1>3. A \union C \in SUBSET Entries(n)
    OBVIOUS
  <1>4. Whole(EntryAmounts(n), OfType(A, type) \union OfType(C, type))
    BY <1>1, <1>3, SumOfEntries
  <1>5. SumFunctionOnSet(EntryAmounts(n), OfType(A, type) \union OfType(C, type)) =
          SumFunctionOnSet(EntryAmounts(n), OfType(A, type))
            + SumFunctionOnSet(EntryAmounts(n), OfType(C, type))
    BY <1>2, <1>4, SumOfEntries, SumDisjoint
  <1>6. SumOf(A, type) = SumFunctionOnSet(EntryAmounts(n), OfType(A, type))
    BY SumOfEntries
  <1>7. SumOf(C, type) = SumFunctionOnSet(EntryAmounts(n), OfType(C, type))
    BY SumOfEntries
  <1>8. SumOf(A \union C, type) = SumFunctionOnSet(EntryAmounts(n), OfType(A \union C, type))
    BY <1>3, SumOfEntries
  <1> QED
    BY <1>1, <1>5, <1>6, <1>7, <1>8

LEMMA SumOfNone == \A type : SumOf({}, type) = 0
  <1> TAKE type
  <1> DEFINE T == {e \in {} : e.type = type}
             f == [e \in T |-> Amount(e)]
  <1>1. T = {} /\ DOMAIN f = T
    OBVIOUS
  <1>2. SumOf({}, type) = SumFunction(f)
    BY DEF SumOf
  <1> HIDE DEF f, T
  <1> QED
    BY <1>1, <1>2, SumEmpty DEF SumFunction

LEMMA RevenueFields ==
  ASSUME NEW A
  PROVE  /\ DOMAIN FoldRevenue(A) = DOMAIN Nothing
         /\ FoldRevenue(A) = [f \in DOMAIN Nothing |-> FoldRevenue(A)[f]]
         /\ DOMAIN Nothing = {"netSales", "platformCommission", "sellerNet"}
         /\ FoldRevenue(A)["netSales"] = SumOf(A, "SALE") + SumOf(A, "REFUND")
         /\ FoldRevenue(A)["platformCommission"] =
              -(SumOf(A, "COMMISSION") + SumOf(A, "ADJUSTMENT"))
         /\ FoldRevenue(A)["sellerNet"] =
              FoldRevenue(A)["netSales"] - FoldRevenue(A)["platformCommission"]
  BY DEF FoldRevenue, Nothing

LEMMA RevenueAdds ==
  ASSUME log \in Seq(Changes), NEW n \in 0 .. Len(log), NEW f \in DOMAIN Nothing
  PROVE  /\ \A A \in SUBSET Entries(n) : FoldRevenue(A)[f] \in Int
         /\ FoldRevenue({})[f] = 0
         /\ \A A, C \in SUBSET Entries(n) : A \cap C = {} =>
              FoldRevenue(A \union C)[f] = FoldRevenue(A)[f] + FoldRevenue(C)[f]
  <1>1. f \in {"netSales", "platformCommission", "sellerNet"}
    BY RevenueFields
  <1>2. ASSUME NEW A \in SUBSET Entries(n)
        PROVE  FoldRevenue(A)[f] \in Int
    <2>1. \A type : SumOf(A, type) \in Int
      BY SumOfEntries
    <2> QED
      BY <1>1, <2>1, RevenueFields
  <1>3. FoldRevenue({})[f] = 0
    BY <1>1, RevenueFields, SumOfNone
  <1>4. ASSUME NEW A \in SUBSET Entries(n), NEW C \in SUBSET Entries(n), A \cap C = {}
        PROVE  FoldRevenue(A \union C)[f] = FoldRevenue(A)[f] + FoldRevenue(C)[f]
    <2>1. \A type : /\ SumOf(A, type) \in Int /\ SumOf(C, type) \in Int
                    /\ SumOf(A \union C, type) = SumOf(A, type) + SumOf(C, type)
      BY <1>4, SumOfEntries, SumOfAdds
    <2> DEFINE X == A \union C
    <2>3. \A type \in Types : /\ SumOf(A, type) \in Int /\ SumOf(C, type) \in Int
                             /\ SumOf(X, type) = SumOf(A, type) + SumOf(C, type)
      BY <2>1
    <2> HIDE DEF X
    <2>4. /\ FoldRevenue(A)["netSales"] = SumOf(A, "SALE") + SumOf(A, "REFUND")
          /\ FoldRevenue(C)["netSales"] = SumOf(C, "SALE") + SumOf(C, "REFUND")
          /\ FoldRevenue(X)["netSales"] = SumOf(X, "SALE") + SumOf(X, "REFUND")
      BY RevenueFields
    <2>5. /\ FoldRevenue(A)["platformCommission"] =
               -(SumOf(A, "COMMISSION") + SumOf(A, "ADJUSTMENT"))
          /\ FoldRevenue(C)["platformCommission"] =
               -(SumOf(C, "COMMISSION") + SumOf(C, "ADJUSTMENT"))
          /\ FoldRevenue(X)["platformCommission"] =
               -(SumOf(X, "COMMISSION") + SumOf(X, "ADJUSTMENT"))
      BY RevenueFields
    <2>6. /\ "SALE" \in Types /\ "REFUND" \in Types
          /\ "COMMISSION" \in Types /\ "ADJUSTMENT" \in Types
      BY DEF Types
    <2>7. /\ FoldRevenue(X)["netSales"] = FoldRevenue(A)["netSales"] + FoldRevenue(C)["netSales"]
          /\ FoldRevenue(A)["netSales"] \in Int /\ FoldRevenue(C)["netSales"] \in Int
      BY <2>3, <2>4, <2>6
    <2>8. /\ FoldRevenue(X)["platformCommission"] =
               FoldRevenue(A)["platformCommission"] + FoldRevenue(C)["platformCommission"]
          /\ FoldRevenue(A)["platformCommission"] \in Int
          /\ FoldRevenue(C)["platformCommission"] \in Int
      <3> DEFINE a1 == SumOf(A, "COMMISSION")
                 a2 == SumOf(A, "ADJUSTMENT")
                 c1 == SumOf(C, "COMMISSION")
                 c2 == SumOf(C, "ADJUSTMENT")
      <3>1. a1 \in Int /\ a2 \in Int /\ c1 \in Int /\ c2 \in Int
        BY <2>3, <2>6
      <3>2. SumOf(X, "COMMISSION") = a1 + c1 /\ SumOf(X, "ADJUSTMENT") = a2 + c2
        BY <2>3, <2>6
      <3>3. /\ FoldRevenue(A)["platformCommission"] = -(a1 + a2)
            /\ FoldRevenue(C)["platformCommission"] = -(c1 + c2)
            /\ FoldRevenue(X)["platformCommission"] = -((a1 + c1) + (a2 + c2))
        BY <2>5, <3>2
      <3> HIDE DEF a1, a2, c1, c2
      <3>4. -((a1 + c1) + (a2 + c2)) = -(a1 + a2) + -(c1 + c2)
        BY <3>1
      <3> QED
        BY <3>1, <3>3, <3>4
    <2>9. FoldRevenue(X)["sellerNet"] = FoldRevenue(A)["sellerNet"] + FoldRevenue(C)["sellerNet"]
      BY <2>7, <2>8, RevenueFields
    <2> QED
      BY <1>1, <2>7, <2>8, <2>9 DEF X
  <1> QED
    BY <1>2, <1>3, <1>4

(* What the cells of a partition earned is what they earned together. *)
LEMMA RevenueOverCells ==
  ASSUME log \in Seq(Changes), NEW n \in 0 .. Len(log), NEW D, IsFiniteSet(D),
         NEW cell \in [D -> SUBSET Entries(n)],
         Apart(cell, D), NEW revenue, DOMAIN revenue = D,
         \A d \in D : revenue[d] = FoldRevenue(cell[d])
  PROVE  SumOfRevenues(revenue) = FoldRevenue(Together(cell, D))
  <1> DEFINE U == Together(cell, D)
  <1>1. U \in SUBSET Entries(n)
    BY DEF Together
  <1>2. ASSUME NEW f \in DOMAIN Nothing
        PROVE  SumOfRevenues(revenue)[f] = FoldRevenue(U)[f]
    <2> DEFINE F == [A \in SUBSET Entries(n) |-> FoldRevenue(A)[f]]
               g == [x \in DOMAIN revenue |-> revenue[x][f]]
    <2>1. \A A \in SUBSET Entries(n) : F[A] \in Int
      BY RevenueAdds
    <2>2. F[{}] = 0
      BY RevenueAdds
    <2>3. \A A, C \in SUBSET Entries(n) : A \cap C = {} => F[A \union C] = F[A] + F[C]
      <3> SUFFICES ASSUME NEW A \in SUBSET Entries(n), NEW C \in SUBSET Entries(n),
                          A \cap C = {}
                   PROVE  F[A \union C] = F[A] + F[C]
        OBVIOUS
      <3>1. A \union C \in SUBSET Entries(n)
        OBVIOUS
      <3>2. FoldRevenue(A \union C)[f] = FoldRevenue(A)[f] + FoldRevenue(C)[f]
        BY RevenueAdds
      <3> QED
        BY <3>1, <3>2
    <2>4. \A d \in D : g[d] = F[cell[d]]
      OBVIOUS
    <2>5. F[U] = FoldRevenue(U)[f]
      BY <1>1
    <2>6. SumOfRevenues(revenue)[f] = SumFunction(g) /\ DOMAIN g = D
      BY DEF SumOfRevenues
    <2> HIDE DEF F, g
    <2>7. SumFunctionOnSet(g, D) = F[Together(cell, D)]
      <3>1. Additive(F, Entries(n))
        BY <2>1, <2>2, <2>3 DEF Additive
      <3> QED
        BY <2>4, <3>1, SumOverCells
    <2> QED
      BY <2>5, <2>6, <2>7 DEF SumFunction
  <1>3. SumOfRevenues(revenue) = [f \in DOMAIN Nothing |-> SumOfRevenues(revenue)[f]]
    BY DEF SumOfRevenues
  <1> HIDE DEF U
  <1>4. FoldRevenue(U) = [f \in DOMAIN Nothing |-> FoldRevenue(U)[f]]
    BY RevenueFields
  <1>5. SumOfRevenues(revenue) = FoldRevenue(U)
    BY <1>2, <1>3, <1>4
  <1> QED
    BY <1>5 DEF U

-----------------------------------------------------------------------------
(* Reports: the days of a period                                           *)

WholeDays(p) ==
  /\ p \in Periods /\ p.from < p.to
  /\ p.from % DayLength = 0 /\ p.to % DayLength = 0

LEMMA WholeMultiple ==
  \A t \in Int : t % DayLength = 0 => \E k \in Int : t = k * DayLength
  <1>1. DayLength \in Nat \ {0}
    BY TimeAssumption
  <1> QED
    BY <1>1

LEMMA DaysAdd ==
  ASSUME NEW t \in Int, t % DayLength = 0, NEW k \in Int
  PROVE  (t + k * DayLength) % DayLength = 0
  <1>1. PICK j \in Int : t = j * DayLength
    BY WholeMultiple
  <1>2. t + k * DayLength = (j + k) * DayLength
    BY <1>1, TimeAssumption
  <1>3. \A i \in Int : (i * DayLength) % DayLength = 0
    BY TimeAssumption
  <1> QED
    BY <1>2, <1>3

(* From one midnight to a later one there is at least a day. *)
LEMMA DayBetween ==
  ASSUME NEW t \in Int, t % DayLength = 0, NEW u \in Int, u % DayLength = 0, t < u
  PROVE  t + DayLength <= u
  <1>1. PICK j \in Int : t = j * DayLength
    BY WholeMultiple
  <1>2. PICK k \in Int : u = k * DayLength
    BY WholeMultiple
  <1>3. j < k
    BY <1>1, <1>2, TimeAssumption
  <1>4. j * DayLength + DayLength <= k * DayLength
    BY <1>3, TimeAssumption
  <1> QED
    BY <1>1, <1>2, <1>4

LEMMA DayOf ==
  ASSUME NEW t \in Int
  PROVE  /\ StartOfDay(t) \in Int /\ StartOfDay(t) % DayLength = 0
         /\ StartOfDay(t) <= t /\ t < StartOfDay(t) + DayLength
         /\ \A u \in Int : u % DayLength = 0 /\ u <= t => u <= StartOfDay(t)
  <1>1. t % DayLength \in 0 .. DayLength - 1
    BY TimeAssumption
  <1>2. (t - (t % DayLength)) % DayLength = 0
    <2>1. DayLength \in Nat \ {0}
      BY TimeAssumption
    <2> QED
      BY <2>1
  <1>3. /\ StartOfDay(t) \in Int /\ StartOfDay(t) % DayLength = 0
        /\ StartOfDay(t) <= t /\ t < StartOfDay(t) + DayLength
    <2> DEFINE r == t % DayLength
    <2>1. r \in Int /\ 0 <= r /\ r < DayLength /\ DayLength \in Int
      BY <1>1, TimeAssumption
    <2>2. StartOfDay(t) = t - r
      BY DEF StartOfDay
    <2>3. StartOfDay(t) % DayLength = 0
      BY <1>2, <2>2
    <2> HIDE DEF r
    <2> QED
      BY <2>1, <2>2, <2>3
  <1>4. ASSUME NEW u \in Int, u % DayLength = 0, u <= t
        PROVE  u <= StartOfDay(t)
    <2> SUFFICES ASSUME StartOfDay(t) < u PROVE FALSE
      BY <1>3
    <2> QED
      BY <1>3, <1>4, DayBetween, TimeAssumption
  <1> QED
    BY <1>3, <1>4

LEMMA InstantsAreInts == Instants \subseteq Int
  BY TimeAssumption DEF Instants

(* Every instant of a period is in one of its days, and in one only. *)
LEMMA DaysOfPeriod ==
  ASSUME NEW p, WholeDays(p)
  PROVE  /\ IsFiniteSet(Days(p)) /\ Days(p) \subseteq Int
         /\ \A t \in Int : Within(t, p) <=> \E d \in Days(p) : Within(t, Day(d))
         /\ \A t \in Int : \A d, e \in Days(p) :
              Within(t, Day(d)) /\ Within(t, Day(e)) => d = e
  <1>1. p.from \in Int /\ p.to \in Int
    BY DEF WholeDays, Periods
  <1>2. \A d : d \in Days(p) <=>
          d \in Int /\ p.from <= d /\ d < p.to /\ d % DayLength = 0
    BY <1>1 DEF Days
  <1>3. IsFiniteSet(Days(p))
    <2>1. IsFiniteSet(p.from .. p.to - 1)
      BY <1>1, FS_Interval
    <2> QED
      BY <2>1, FS_Subset DEF Days
  <1>4. \A d \in Int, t \in Int : Within(t, Day(d)) <=> d <= t /\ t < d + DayLength
    BY DEF Within, Day
  <1>5. ASSUME NEW t \in Int, NEW d \in Days(p), Within(t, Day(d))
        PROVE  Within(t, p)
    <2>1. d + DayLength <= p.to
      BY <1>1, <1>2, DayBetween DEF WholeDays
    <2> QED
      BY <1>1, <1>2, <1>4, <1>5, <2>1, TimeAssumption DEF Within
  <1>6. ASSUME NEW t \in Int, Within(t, p)
        PROVE  StartOfDay(t) \in Days(p) /\ Within(t, Day(StartOfDay(t)))
    <2>1. p.from <= t /\ t < p.to
      BY <1>6 DEF Within
    <2>2. p.from <= StartOfDay(t)
      BY <1>1, <2>1, DayOf DEF WholeDays
    <2>3. StartOfDay(t) < p.to
      BY <1>1, <2>1, DayOf
    <2> QED
      BY <1>2, <1>4, <2>2, <2>3, DayOf
  <1>7. ASSUME NEW t \in Int, NEW d \in Days(p), NEW e \in Days(p),
               Within(t, Day(d)), Within(t, Day(e))
        PROVE  ~(d < e)
    <2> SUFFICES ASSUME d < e PROVE FALSE
      OBVIOUS
    <2>1. d + DayLength <= e
      BY <1>2, DayBetween
    <2> QED
      BY <1>2, <1>4, <1>7, <2>1, TimeAssumption
  <1>8. ASSUME NEW t \in Int, NEW d \in Days(p), NEW e \in Days(p),
               Within(t, Day(d)), Within(t, Day(e))
        PROVE  d = e
    <2>1. ~(d < e) /\ ~(e < d)
      BY <1>7, <1>8
    <2> QED
      BY <1>2, <2>1
  <1> QED
    BY <1>2, <1>3, <1>5, <1>6, <1>8

(* The days of the chart make up the totals. *)
LEMMA ChartAddsUp ==
  ASSUME log \in Seq(Changes), NEW n \in 0 .. Len(log), NEW p, WholeDays(p), NEW shops,
         NEW revenue, DOMAIN revenue = Days(p),
         \A d \in Days(p) : revenue[d] = LedgerTotals(n, Day(d), shops)
  PROVE  LedgerTotals(n, p, shops) = SumOfRevenues(revenue)
  <1> DEFINE cell == [d \in Days(p) |-> EntriesIn(n, Day(d), shops)]
  <1>1. cell \in [Days(p) -> SUBSET Entries(n)]
    BY DEF EntriesIn
  <1>2. \A e \in Entries(n) : e.at \in Int
    BY EntryTypes, InstantsAreInts
  <1>3. Apart(cell, Days(p))
    BY <1>2, DaysOfPeriod DEF Apart, EntriesIn
  <1>4. Together(cell, Days(p)) = EntriesIn(n, p, shops)
    <2>1. ASSUME NEW e
          PROVE  e \in Together(cell, Days(p)) <=> e \in EntriesIn(n, p, shops)
      <3>1. e \in Together(cell, Days(p)) <=>
              \E d \in Days(p) : e \in Entries(n) /\ Within(e.at, Day(d)) /\ e.so[2] \in shops
        BY DEF Together, EntriesIn
      <3>2. e \in EntriesIn(n, p, shops) <=>
              e \in Entries(n) /\ Within(e.at, p) /\ e.so[2] \in shops
        BY DEF EntriesIn
      <3> QED
        BY <1>2, <3>1, <3>2, DaysOfPeriod
    <2> HIDE DEF cell
    <2> QED
      BY <2>1
  <1>5. \A d \in Days(p) : revenue[d] = FoldRevenue(cell[d])
    BY DEF LedgerTotals
  <1> HIDE DEF cell
  <1>6. SumOfRevenues(revenue) = FoldRevenue(Together(cell, Days(p)))
    BY <1>1, <1>3, <1>5, DaysOfPeriod, RevenueOverCells
  <1> QED
    BY <1>4, <1>6 DEF LedgerTotals

(* Two periods that meet make up the two together. *)
LEMMA PreviousAddsUp ==
  ASSUME log \in Seq(Changes), NEW n \in 0 .. Len(log), NEW p, WholeDays(p), NEW shops
  PROVE  Plus(LedgerTotals(n, p, shops), LedgerTotals(n, PreviousPeriod(p), shops)) =
           LedgerTotals(n, [from |-> PreviousPeriod(p).from, to |-> p.to], shops)
  <1> DEFINE q == PreviousPeriod(p)
             both == [from |-> q.from, to |-> p.to]
             A == EntriesIn(n, p, shops)
             C == EntriesIn(n, q, shops)
  <1>1. /\ p.from \in Int /\ p.to \in Int /\ p.from < p.to
        /\ q.from = p.from - (p.to - p.from) /\ q.to = p.from
    BY DEF WholeDays, Periods, PreviousPeriod
  <1>2. \A e \in Entries(n) : e.at \in Int
    BY EntryTypes, InstantsAreInts
  <1>3. A \in SUBSET Entries(n) /\ C \in SUBSET Entries(n)
    BY DEF EntriesIn
  <1>4. \A t \in Int : /\ ~(Within(t, p) /\ Within(t, q))
                       /\ Within(t, both) <=> Within(t, p) \/ Within(t, q)
    BY <1>1 DEF Within
  <1>5. A \cap C = {}
    BY <1>2, <1>4 DEF EntriesIn
  <1>6. EntriesIn(n, both, shops) = A \union C
    BY <1>2, <1>4 DEF EntriesIn
  <1> HIDE DEF A, C, both, q
  <1>7. FoldRevenue(A \union C) =
          [f \in DOMAIN Nothing |-> FoldRevenue(A)[f] + FoldRevenue(C)[f]]
    <2>1. \A f \in DOMAIN Nothing :
            FoldRevenue(A \union C)[f] = FoldRevenue(A)[f] + FoldRevenue(C)[f]
      BY <1>3, <1>5, RevenueAdds
    <2>2. FoldRevenue(A \union C) = [f \in DOMAIN Nothing |-> FoldRevenue(A \union C)[f]]
      BY RevenueFields
    <2> QED
      BY <2>1, <2>2
  <1>8. DOMAIN FoldRevenue(A) = DOMAIN Nothing
    BY RevenueFields
  <1>9. Plus(FoldRevenue(A), FoldRevenue(C)) = FoldRevenue(EntriesIn(n, both, shops))
    BY <1>6, <1>7, <1>8 DEF Plus
  <1> QED
    BY <1>9 DEF LedgerTotals, A, C, both, q

-----------------------------------------------------------------------------
(* Reports: the ranking                                                    *)

Ahead(k, h, value) == value[k] > value[h] \/ (value[k] = value[h] /\ k < h)
Before(S, h, value) == {k \in S : Ahead(k, h, value)}

LEMMA AheadIsAnOrder ==
  ASSUME NEW S \in SUBSET Int, NEW value, \A h \in S : value[h] \in Int
  PROVE  /\ \A h \in S : ~Ahead(h, h, value)
         /\ \A h, k \in S : h # k => Ahead(h, k, value) \/ Ahead(k, h, value)
         /\ \A h, k, l \in S : Ahead(h, k, value) /\ Ahead(k, l, value) => Ahead(h, l, value)
  <1>1. \A h \in S : ~Ahead(h, h, value)
    BY DEF Ahead
  <1>2. \A h, k \in S : h # k => Ahead(h, k, value) \/ Ahead(k, h, value)
    BY DEF Ahead
  <1>3. \A h, k, l \in S : Ahead(h, k, value) /\ Ahead(k, l, value) => Ahead(h, l, value)
    BY DEF Ahead
  <1> QED
    BY <1>1, <1>2, <1>3

(* Who is ahead has fewer ahead of him. *)
LEMMA FewerAhead ==
  ASSUME NEW S \in SUBSET Int, IsFiniteSet(S), NEW value, \A h \in S : value[h] \in Int,
         NEW h \in S
  PROVE  /\ IsFiniteSet(Before(S, h, value)) /\ h \notin Before(S, h, value)
         /\ Cardinality(Before(S, h, value)) \in Nat
         /\ \A k \in Before(S, h, value) :
              Cardinality(Before(S, k, value)) < Cardinality(Before(S, h, value))
  <1> DEFINE B == Before(S, h, value)
  <1>1. B \in SUBSET S /\ IsFiniteSet(B) /\ Cardinality(B) \in Nat
    BY FS_Subset, FS_CardinalityType DEF Before
  <1>2. h \notin B
    BY AheadIsAnOrder DEF Before
  <1>3. ASSUME NEW k \in B
        PROVE  Cardinality(Before(S, k, value)) < Cardinality(B)
    <2> DEFINE A == Before(S, k, value)
    <2>1. A \in SUBSET B
      BY <1>3, AheadIsAnOrder DEF Before
    <2>2. k \notin A
      BY <1>1, <1>3, AheadIsAnOrder DEF Before
    <2> HIDE DEF A, B
    <2>3. Cardinality(A) <= Cardinality(B) /\ Cardinality(A) # Cardinality(B)
      BY <1>1, <1>3, <2>1, <2>2, FS_Subset
    <2>4. Cardinality(A) \in Nat
      BY <1>1, <2>1, FS_Subset, FS_CardinalityType
    <2> QED
      BY <1>1, <2>3, <2>4 DEF A
  <1> QED
    BY <1>1, <1>2, <1>3

(* No two share a place, none of those ranked is left out, and all of them   *)
(* are ranked when there are no more of them than places.                   *)
LEMMA RankedIs ==
  ASSUME NEW S \in SUBSET Int, IsFiniteSet(S), NEW value, \A h \in S : value[h] \in Int,
         NEW limit \in Nat, NEW top, top = Ranked(S, value, limit)
  PROVE  /\ IsFiniteSet(DOMAIN top)
         /\ \A i \in DOMAIN top : top[i] \in S
         /\ \A i, j \in DOMAIN top : top[i] = top[j] => i = j
         /\ Cardinality(S) <= limit => \A h \in S : \E i \in DOMAIN top : top[i] = h
  <1> DEFINE places == {h \in S : Cardinality(Before(S, h, value)) < limit}
             m == Cardinality(places)
             rank == [h \in places |-> Cardinality(Before(S, h, value))]
  <1>1. top = [i \in 1 .. m |-> CHOOSE h \in places : Cardinality(Before(S, h, value)) = i - 1]
    BY DEF Ranked, Before, Ahead
  <1>2. places \in SUBSET S /\ IsFiniteSet(places) /\ m \in Nat
    BY FS_Subset, FS_CardinalityType
  <1>3. ASSUME NEW h \in places
        PROVE  rank[h] \in 0 .. m - 1
    <2> DEFINE B == Before(S, h, value)
    <2>1. h \in S /\ Cardinality(B) < limit
      OBVIOUS
    <2>2. /\ IsFiniteSet(B) /\ h \notin B /\ Cardinality(B) \in Nat
          /\ \A k \in B : Cardinality(Before(S, k, value)) < Cardinality(B)
      BY <2>1, FewerAhead
    <2>3. B \in SUBSET S
      BY DEF Before
    <2>4. \A k \in B : Cardinality(Before(S, k, value)) \in Nat
      BY <2>3, FewerAhead
    <2>5. B \in SUBSET places
      BY <2>1, <2>2, <2>3, <2>4
    <2>6. rank[h] = Cardinality(B)
      OBVIOUS
    <2> HIDE DEF B, places, rank
    <2>7. Cardinality(B) <= Cardinality(places) /\ Cardinality(B) # Cardinality(places)
      BY <1>2, <1>3, <2>2, <2>5, FS_Subset
    <2> QED
      BY <1>2, <2>2, <2>6, <2>7
  <1>4. ASSUME NEW h \in places, NEW k \in places, h # k
        PROVE  rank[h] # rank[k]
    <2>1. h \in S /\ k \in S
      OBVIOUS
    <2>2. h \in Before(S, k, value) \/ k \in Before(S, h, value)
      BY <1>4, <2>1, AheadIsAnOrder DEF Before
    <2>3. /\ Cardinality(Before(S, h, value)) \in Nat /\ Cardinality(Before(S, k, value)) \in Nat
          /\ \/ Cardinality(Before(S, h, value)) < Cardinality(Before(S, k, value))
             \/ Cardinality(Before(S, k, value)) < Cardinality(Before(S, h, value))
      BY <2>1, <2>2, FewerAhead
    <2> QED
      BY <2>3
  <1>5. \A i \in 1 .. m : \E h \in places : rank[h] = i - 1
    <2>1. rank \in Injection(places, 0 .. m - 1)
      BY <1>3, <1>4 DEF Injection, IsInjective
    <2> HIDE DEF rank, places
    <2>2. IsFiniteSet(0 .. m - 1) /\ Cardinality(0 .. m - 1) = m
      <3> HIDE DEF m
      <3> QED
        BY <1>2, FS_Interval
    <2>3. rank \in Surjection(places, 0 .. m - 1)
      BY <2>1, <2>2, FS_Injection DEF m
    <2> QED
      BY <1>2, <2>3 DEF Surjection
  <1>6. ASSUME NEW i \in 1 .. m
        PROVE  top[i] \in places /\ rank[top[i]] = i - 1
    <2>1. PICK h \in places : Cardinality(Before(S, h, value)) = i - 1
      BY <1>5
    <2>2. top[i] = CHOOSE k \in places : Cardinality(Before(S, k, value)) = i - 1
      BY <1>1
    <2>3. top[i] \in places /\ Cardinality(Before(S, top[i], value)) = i - 1
      BY <2>1, <2>2
    <2> QED
      BY <2>3
  <1>7. DOMAIN top = 1 .. m /\ IsFiniteSet(DOMAIN top)
    BY <1>1, <1>2, FS_Interval
  <1>8. \A i, j \in DOMAIN top : top[i] = top[j] => i = j
    <2> HIDE DEF rank, places
    <2> QED
      BY <1>2, <1>6, <1>7
  <1>9. ASSUME Cardinality(S) <= limit, NEW h \in S
        PROVE  \E i \in DOMAIN top : top[i] = h
    <2>1. h \in places
      <3> DEFINE B == Before(S, h, value)
      <3>1. B \in SUBSET S /\ h \notin B /\ Cardinality(B) \in Nat
        <4>1. B \in SUBSET S
          BY DEF Before
        <4> QED
          BY <4>1, FewerAhead
      <3> HIDE DEF B
      <3>2. Cardinality(B) <= Cardinality(S) /\ Cardinality(B) # Cardinality(S)
        BY <3>1, FS_Subset
      <3>3. Cardinality(S) \in Nat
        BY FS_CardinalityType
      <3>4. Cardinality(B) < limit
        BY <1>9, <3>1, <3>2, <3>3
      <3> QED
        BY <3>4 DEF B
    <2>2. rank[h] + 1 \in 1 .. m /\ rank[h] \in Nat
      BY <1>2, <1>3, <2>1
    <2> HIDE DEF rank, places
    <2>3. top[rank[h] + 1] = h
      <3>1. /\ top[rank[h] + 1] \in places
            /\ rank[top[rank[h] + 1]] = (rank[h] + 1) - 1
        BY <1>6, <2>2
      <3>2. rank[top[rank[h] + 1]] = rank[h]
        BY <2>2, <3>1
      <3> QED
        BY <1>4, <2>1, <3>1, <3>2
    <2> QED
      BY <1>7, <2>2, <2>3
  <1>10. \A i \in DOMAIN top : top[i] \in S
    BY <1>2, <1>6, <1>7
  <1> QED
    BY <1>7, <1>8, <1>9, <1>10

(* The rows of all sellers make up the totals of the platform. *)
LEMMA TopSellersAddUp ==
  ASSUME log \in Seq(Changes), NEW n \in 0 .. Len(log), NEW p, Cardinality(Shops) <= TopN,
         NEW revenue, DOMAIN revenue = DOMAIN TopSellers(n, p),
         \A i \in DOMAIN revenue : revenue[i] = TopSellers(n, p)[i].revenue
  PROVE  LedgerTotals(n, p, Shops) = SumOfRevenues(revenue)
  <1> DEFINE net == [h \in Shops |-> LedgerTotals(n, p, {h}).netSales]
             S == {h \in Shops : EntriesIn(n, p, {h}) # {}}
             top == Ranked(S, net, TopN)
             D == DOMAIN top
             cell == [i \in D |-> EntriesIn(n, p, {top[i]})]
  <1>1. S \in SUBSET Int /\ IsFiniteSet(S) /\ Cardinality(S) <= TopN /\ TopN \in Nat
    <2>1. S \in SUBSET Shops /\ IsFiniteSet(Shops) /\ TopN \in Nat /\ Shops \subseteq Int
      BY ShopAssumption, TimeAssumption
    <2> HIDE DEF S
    <2>2. IsFiniteSet(S) /\ Cardinality(S) <= Cardinality(Shops)
      BY <2>1, FS_Subset
    <2> QED
      BY <2>1, <2>2, FS_CardinalityType
  <1>2. \A h \in S : net[h] \in Int
    <2>1. \A h : EntriesIn(n, p, {h}) \in SUBSET Entries(n)
      BY DEF EntriesIn
    <2>2. "netSales" \in DOMAIN Nothing
      BY RevenueFields
    <2>3. \A h : FoldRevenue(EntriesIn(n, p, {h}))["netSales"] \in Int
      BY <2>1, <2>2, RevenueAdds
    <2> QED
      BY <2>3 DEF LedgerTotals
  <1>3. TopSellers(n, p) = [i \in D |-> TopSeller(top[i], EntriesIn(n, p, {top[i]}))]
    BY DEF TopSellers
  <1>4. /\ IsFiniteSet(D)
        /\ \A i \in D : top[i] \in S
        /\ \A i, j \in D : top[i] = top[j] => i = j
        /\ \A h \in S : \E i \in D : top[i] = h
    <2> HIDE DEF S, net
    <2> QED
      BY <1>1, <1>2, RankedIs
  <1>5. cell \in [D -> SUBSET Entries(n)]
    BY DEF EntriesIn
  <1> HIDE DEF top, D
  <1>6. DOMAIN revenue = D /\ \A i \in D : revenue[i] = FoldRevenue(cell[i])
    <2> DEFINE row(i) == TopSeller(top[i], EntriesIn(n, p, {top[i]}))
    <2>1. \A i \in D : row(i).revenue = FoldRevenue(EntriesIn(n, p, {top[i]}))
      BY DEF TopSeller
    <2>2. TopSellers(n, p) = [i \in D |-> row(i)]
      BY <1>3
    <2> HIDE DEF row
    <2>3. DOMAIN revenue = D /\ \A i \in D : revenue[i] = row(i).revenue
      BY <2>2
    <2> QED
      BY <2>1, <2>3
  <1>7. Apart(cell, D)
    BY <1>4 DEF Apart, EntriesIn
  <1>8. Together(cell, D) = EntriesIn(n, p, Shops)
    <2>1. ASSUME NEW e \in EntriesIn(n, p, Shops)
          PROVE  e \in Together(cell, D)
      <3>1. e \in Entries(n) /\ Within(e.at, p) /\ e.so[2] \in Shops
        BY DEF EntriesIn
      <3>2. e \in EntriesIn(n, p, {e.so[2]})
        BY <3>1 DEF EntriesIn
      <3>3. PICK i \in D : top[i] = e.so[2]
        BY <1>4, <3>1, <3>2
      <3> QED
        BY <3>2, <3>3 DEF Together
    <2>2. ASSUME NEW e \in Together(cell, D)
          PROVE  e \in EntriesIn(n, p, Shops)
      <3>1. PICK i \in D : e \in EntriesIn(n, p, {top[i]})
        BY DEF Together
      <3>2. top[i] \in Shops
        BY <1>4
      <3> QED
        BY <3>1, <3>2 DEF EntriesIn
    <2> HIDE DEF cell
    <2> QED
      BY <2>1, <2>2
  <1> HIDE DEF cell
  <1>9. SumOfRevenues(revenue) = FoldRevenue(Together(cell, D))
    BY <1>4, <1>5, <1>6, <1>7, RevenueOverCells
  <1> QED
    BY <1>8, <1>9 DEF LedgerTotals

-----------------------------------------------------------------------------
(* Reports: the counts, the comparison and the rate                        *)

LEMMA TwoParts ==
  ASSUME NEW S, IsFiniteSet(S), NEW A \in SUBSET S, NEW B \in SUBSET S, A \cap B = {}
  PROVE  /\ Cardinality(S) \in Nat /\ Cardinality(A) \in Nat /\ Cardinality(B) \in Nat
         /\ Cardinality(A) + Cardinality(B) <= Cardinality(S)
  <1>1. IsFiniteSet(A) /\ IsFiniteSet(B)
    BY FS_Subset
  <1>2. Cardinality(S) \in Nat /\ Cardinality(A) \in Nat /\ Cardinality(B) \in Nat
    BY <1>1, FS_CardinalityType
  <1>3. Cardinality(A \cup B) = Cardinality(A) + Cardinality(B) - Cardinality(A \cap B)
    BY <1>1, FS_Union
  <1>4. Cardinality(A \cap B) = 0
    BY FS_EmptySet
  <1>5. Cardinality(A \cup B) <= Cardinality(S)
    <2>1. A \cup B \in SUBSET S
      OBVIOUS
    <2> QED
      BY <2>1, FS_Subset
  <1> QED
    BY <1>2, <1>3, <1>4, <1>5

LEMMA PlacedFinite ==
  ASSUME log \in Seq(Changes), NEW n \in 0 .. Len(log)
  PROVE  IsFiniteSet(Placed(n))
  <1> DEFINE sales == Committed(n, "sale")
             f == [x \in sales \X Shops |-> << x[1].basket, x[2] >>]
             T == {f[x] : x \in sales \X Shops}
  <1>1. IsFiniteSet(sales \X Shops)
    BY CommittedRows, ShopAssumption, FS_Product
  <1>2. IsFiniteSet(T)
    <2> HIDE DEF f, sales
    <2> QED
      BY <1>1, FiniteImage
  <1>3. ASSUME NEW so \in Placed(n)
        PROVE  so \in T
    <2>1. so \in Baskets \X Shops /\ SaleOf(so, n) # {}
      BY DEF Placed, SellerOrderIds
    <2>2. PICK s \in sales : s.basket = so[1]
      BY <2>1 DEF SaleOf
    <2>3. << s, so[2] >> \in sales \X Shops /\ so = << so[1], so[2] >>
      BY <2>1
    <2>4. f[<< s, so[2] >>] = so
      BY <2>2, <2>3
    <2> QED
      BY <2>3, <2>4
  <1> HIDE DEF T
  <1>4. Placed(n) \subseteq T
    BY <1>3
  <1> QED
    BY <1>2, <1>4, FS_Subset

CountsHold(c) ==
  /\ c.placed \in Nat /\ c.completed \in Nat /\ c.cancelled \in Nat
  /\ c.completed + c.cancelled <= c.placed

LEMMA CompletedOrCancelled == ASSUME NEW n PROVE Completed(n) \cap Cancelled(n) = {}
  BY DEF Completed

LEMMA OrderCountsHold ==
  ASSUME log \in Seq(Changes), NEW n \in 0 .. Len(log), NEW p
  PROVE  CountsHold(OrderCounts(n, p))
  <1> DEFINE T == {x \in Committed(n, "sale") : Within(x.placedAt, p)}
             f == [s \in T |-> s.basket]
             placed == {s.basket : s \in T}
             parts(o) == {so \in Placed(n) : so[1] = o}
             over(o) == parts(o) \subseteq Completed(n) \union Cancelled(n)
             done == {o \in placed : parts(o) \subseteq Completed(n)}
             undone == {o \in placed : over(o) /\ parts(o) \cap Cancelled(n) # {}}
  <1>1. IsFiniteSet(placed)
    <2>1. IsFiniteSet(T)
      BY CommittedRows, FS_Subset
    <2>2. placed = {f[s] : s \in T}
      OBVIOUS
    <2> HIDE DEF T, f, placed
    <2> QED
      BY <2>1, <2>2, FiniteImage
  <1>2. done \in SUBSET placed /\ undone \in SUBSET placed
    OBVIOUS
  <1>3. done \cap undone = {}
    BY CompletedOrCancelled
  <1>4. OrderCounts(n, p) = [placed |-> Cardinality(placed), completed |-> Cardinality(done),
                             cancelled |-> Cardinality(undone)]
    BY DEF OrderCounts
  <1> HIDE DEF placed, done, undone
  <1>5. /\ OrderCounts(n, p).placed = Cardinality(placed)
        /\ OrderCounts(n, p).completed = Cardinality(done)
        /\ OrderCounts(n, p).cancelled = Cardinality(undone)
    BY <1>4
  <1> QED
    BY <1>1, <1>2, <1>3, <1>5, TwoParts DEF CountsHold

(* What a seller has sold and not lost again is what is placed and not       *)
(* cancelled.                                                               *)
LEMMA SellerOrderCountsHold ==
  ASSUME log \in Seq(Changes), NEW n \in 0 .. Len(log), NEW p, NEW h
  PROVE  LET c == SellerOrderCounts(n, p, h)
         IN  /\ CountsHold(c)
             /\ IsFiniteSet(Sold(h, n, p)) /\ Cardinality(Sold(h, n, p)) \in Nat
             /\ Cardinality(Sold(h, n, p)) = c.placed - c.cancelled
  <1> DEFINE placed == {so \in Placed(n) : so[2] = h /\ Within(CreatedAt(so, n), p)}
             done == placed \cap Completed(n)
             undone == placed \cap Cancelled(n)
             c == SellerOrderCounts(n, p, h)
  <1>1. IsFiniteSet(placed)
    BY PlacedFinite, FS_Subset
  <1>2. done \in SUBSET placed /\ undone \in SUBSET placed
    OBVIOUS
  <1>3. done \cap undone = {}
    BY CompletedOrCancelled
  <1>4. c = [placed |-> Cardinality(placed), completed |-> Cardinality(done),
             cancelled |-> Cardinality(undone)]
    BY DEF SellerOrderCounts
  <1>5. Sold(h, n, p) = placed \ Cancelled(n)
    BY DEF Sold
  <1>6. undone = placed \cap Cancelled(n)
    OBVIOUS
  <1> HIDE DEF placed, done, undone, c
  <1>7. /\ c.placed = Cardinality(placed) /\ c.completed = Cardinality(done)
        /\ c.cancelled = Cardinality(undone)
    BY <1>4
  <1>8. CountsHold(c)
    BY <1>1, <1>2, <1>3, <1>7, TwoParts DEF CountsHold
  <1>9. /\ Cardinality(Sold(h, n, p)) = c.placed - c.cancelled
        /\ IsFiniteSet(Sold(h, n, p))
    BY <1>1, <1>5, <1>6, <1>7, FS_Difference
  <1> QED
    BY <1>8, <1>9, FS_CardinalityType DEF c

(* A seller has a product to show when he has sold one. *)
LEMMA TopProductsHold ==
  ASSUME log \in Seq(Changes), NEW n \in 0 .. Len(log), NEW p, NEW h \in Shops
  PROVE  DOMAIN TopProducts(n, p, {h}) = {} <=> Sold(h, n, p) = {}
  <1> DEFINE revenue == [k \in {h} |-> SumFunctionOnSet(Gross, Sold(k, n, p))]
             S == {k \in {h} : Sold(k, n, p) # {}}
             top == Ranked(S, revenue, TopN)
             before(x) == {k \in S : revenue[k] > revenue[x] \/ (revenue[k] = revenue[x] /\ k < x)}
             places == {x \in S : Cardinality(before(x)) < TopN}
  <1>1. DOMAIN TopProducts(n, p, {h}) = DOMAIN top
    BY DEF TopProducts
  <1>2. DOMAIN top = 1 .. Cardinality(places)
    BY DEF Ranked
  <1>3. IsFiniteSet(Sold(h, n, p))
    BY SellerOrderCountsHold
  <1>4. revenue[h] \in Int
    <2>1. Whole(Gross, Sold(h, n, p))
      BY ShopAssumption DEF Whole, Sold, Placed, SellerOrderIds
    <2>2. SumFunctionOnSet(Gross, Sold(h, n, p)) \in Int
      BY <1>3, <2>1, SumType
    <2> QED
      BY <2>2
  <1>5. CASE Sold(h, n, p) = {}
    <2>1. places = {}
      BY <1>5
    <2>2. Cardinality(places) = 0
      BY <2>1, FS_EmptySet
    <2> HIDE DEF places, top
    <2>3. DOMAIN top = {}
      BY <1>2, <2>2
    <2> QED
      BY <1>1, <1>5, <2>3
  <1>6. CASE Sold(h, n, p) # {}
    <2>1. S = {h}
      BY <1>6
    <2>2. h \in Int
      BY ShopAssumption
    <2>3. before(h) = {}
      <3> HIDE DEF revenue
      <3> QED
        BY <1>4, <2>1, <2>2
    <2>4. Cardinality(before(h)) < TopN
      <3>1. Cardinality({}) = 0 /\ 0 < TopN
        BY FS_EmptySet, TimeAssumption
      <3> HIDE DEF before
      <3> QED
        BY <2>3, <3>1
    <2>5. places = {h}
      BY <2>1, <2>4
    <2>6. Cardinality(places) = 1
      BY <2>5, FS_Singleton
    <2> HIDE DEF places, top
    <2>7. 1 \in DOMAIN top
      BY <1>2, <2>6
    <2> QED
      BY <1>1, <1>6, <2>7
  <1> QED
    BY <1>5, <1>6

LEMMA QuotientSign ==
  ASSUME NEW a \in Int, NEW b \in Nat \ {0}
  PROVE  (a >= 0 => a \div b >= 0) /\ (a < b => a \div b <= 0)
  OBVIOUS

(* The comparison points the right way, also from below zero. *)
LEMMA ChangeRises ==
  ASSUME NEW current \in Int, NEW previous \in Int
  PROVE  Rises(PercentChange(current, previous), current, previous)
  <1> DEFINE base == IF previous < 0 THEN -previous ELSE previous
             a == 2000 * (current - previous) + base
             b == 2 * base
  <1>1. CASE previous = 0
    BY <1>1 DEF Rises, PercentChange
  <1>2. CASE previous # 0
    <2>1. base \in Nat \ {0}
      BY <1>2
    <2>2. PercentChange(current, previous) = {a \div b}
      BY <1>2 DEF PercentChange
    <2> HIDE DEF base
    <2>3. a \in Int /\ b \in Nat \ {0}
      BY <2>1
    <2>4. /\ current >= previous => a >= 0
          /\ current <= previous => a < b
      BY <2>1
    <2> HIDE DEF a, b
    <2>5. (current >= previous => a \div b >= 0) /\ (current <= previous => a \div b <= 0)
      BY <2>3, <2>4, QuotientSign
    <2> QED
      BY <2>2, <2>5 DEF Rises
  <1> QED
    BY <1>1, <1>2

LEMMA QuotientBounds ==
  ASSUME NEW a \in Nat, NEW b \in Nat \ {0}, a < 1001 * b
  PROVE  a \div b \in 0 .. 1000
  OBVIOUS

(* No more carts convert than were started. *)
RateFits(c) == \A tenths \in Rate(c) : tenths \in 0 .. 1000

LEMMA RateHolds ==
  ASSUME NEW n \in Nat, NEW p
  PROVE  RateFits(Conversion(n, p))
  <1> SUFFICES ASSUME NEW tenths \in Rate(Conversion(n, p))
               PROVE  tenths \in 0 .. 1000
    BY DEF RateFits
  <1> DEFINE started == {i \in 1 .. n : log[i].op = "cart" /\ Within(log[i].at, p)}
             converted == {i \in started :
               \E j \in i + 1 .. n : log[j].op = "sale" /\ log[j].basket = log[i].basket}
             s == Cardinality(started)
             c == Cardinality(converted)
  <1>1. started \in SUBSET (1 .. n) /\ converted \in SUBSET started
    OBVIOUS
  <1>2. Conversion(n, p) = [cartsStarted |-> s, cartsConverted |-> c]
    BY DEF Conversion
  <1> HIDE DEF started, converted
  <1>3. IsFiniteSet(started) /\ IsFiniteSet(converted) /\ c <= s
    <2>1. IsFiniteSet(1 .. n)
      BY FS_Interval
    <2>2. IsFiniteSet(started)
      BY <1>1, <2>1, FS_Subset
    <2> QED
      BY <1>1, <2>2, FS_Subset
  <1>4. s \in Nat /\ c \in Nat
    BY <1>3, FS_CardinalityType
  <1> HIDE DEF s, c
  <1>5. s # 0 /\ tenths = (2000 * c + s) \div (2 * s)
    BY <1>2 DEF Rate
  <1>6. /\ 2000 * c + s \in Nat /\ 2 * s \in Nat \ {0}
        /\ 2000 * c + s < 1001 * (2 * s)
    BY <1>3, <1>4, <1>5
  <1> DEFINE a == 2000 * c + s
             b == 2 * s
  <1>7. a \in Nat /\ b \in Nat \ {0} /\ a < 1001 * b /\ tenths = a \div b
    BY <1>5, <1>6
  <1> HIDE DEF a, b
  <1> QED
    BY <1>7, QuotientBounds

-----------------------------------------------------------------------------
(* Reports: a report that is in adds up                                    *)

(* A period runs from one midnight to a later one. *)
PeriodsHold == report = NoReport \/ WholeDays(report.period)

LEMMA ResolvedDays ==
  ASSUME NEW from \in Instants \union {Missing}, NEW to \in Instants \union {Missing},
         NEW now \in Instants, ResolvePeriod(from, to, now) # BadRequest
  PROVE  WholeDays(ResolvePeriod(from, to, now))
  <1> DEFINE last == IF to = Missing THEN now ELSE to
             end == StartOfDay(last) + DayLength
             start == IF from = Missing THEN end - DefaultDays * DayLength ELSE StartOfDay(from)
             p == ResolvePeriod(from, to, now)
  <1>1. last \in Int
    BY InstantsAreInts
  <1>2. end \in Int /\ end % DayLength = 0
    <2> DEFINE midnight == StartOfDay(last)
    <2> HIDE DEF last
    <2>1. midnight \in Int /\ midnight % DayLength = 0
      BY <1>1, DayOf
    <2>2. DayLength \in Int /\ 1 * DayLength = DayLength
      BY TimeAssumption
    <2> HIDE DEF midnight
    <2>3. (midnight + 1 * DayLength) % DayLength = 0
      BY <2>1, DaysAdd
    <2>4. midnight + DayLength \in Int /\ (midnight + DayLength) % DayLength = 0
      BY <2>1, <2>2, <2>3
    <2> QED
      BY <2>4 DEF midnight
  <1>3. start \in Int /\ start % DayLength = 0
    <2>1. CASE from = Missing
      <3>1. /\ -DefaultDays \in Int /\ DefaultDays * DayLength \in Int
            /\ (-DefaultDays) * DayLength = -(DefaultDays * DayLength)
        BY TimeAssumption
      <3>2. (end + (-DefaultDays) * DayLength) % DayLength = 0
        BY <1>2, <3>1, DaysAdd
      <3> HIDE DEF end
      <3>3. start = end + (-DefaultDays) * DayLength /\ start \in Int
        BY <1>2, <2>1, <3>1
      <3> QED
        BY <3>2, <3>3
    <2>2. CASE from # Missing
      BY <2>2, DayOf, InstantsAreInts
    <2> QED
      BY <2>1, <2>2
  <1>4. p = IF start >= end \/ end - start > MaxDays * DayLength
            THEN BadRequest ELSE [from |-> start, to |-> end]
    BY DEF ResolvePeriod
  <1> HIDE DEF start, end, p
  <1>5. p = [from |-> start, to |-> end] /\ ~(start >= end)
    BY <1>4 DEF p
  <1>6. start < end
    BY <1>2, <1>3, <1>5
  <1> QED
    BY <1>2, <1>3, <1>5, <1>6 DEF WholeDays, Periods, p

(* A report is compiled for whole days, from one midnight to a later one     *)
(* (resolvePeriod).                                                         *)
THEOREM ReportPeriods == ReportsSpec => [](ReportsTypeOK /\ PeriodsHold)
  <1>1. ReportsInit => PeriodsHold
    BY DEF ReportsInit, PeriodsHold
  <1>2. ReportsTypeOK /\ PeriodsHold /\ [ReportsNext]_reportVars => PeriodsHold'
    <2> SUFFICES ASSUME ReportsTypeOK, PeriodsHold, [ReportsNext]_reportVars
                 PROVE  PeriodsHold'
      OBVIOUS
    <2>1. CASE UNCHANGED report
      BY <2>1 DEF PeriodsHold, NoReport, WholeDays
    <2>2. CASE UNCHANGED reportVars
      BY <2>1, <2>2 DEF reportVars
    <2>3. CASE Trade
      BY <2>1, <2>3 DEF Trade, Tick, StartSession, BeginSale, CommitSale, BeginCancel,
                        CommitCancel, RollBack, CompleteSellerOrder
    <2>4. ASSUME NEW seller, NEW from \in Instants \union {Missing},
                 NEW to \in Instants \union {Missing}, CompileReport(seller, from, to)
          PROVE  PeriodsHold'
      <3>1. report'.period = ResolvePeriod(from, to, clock)
        BY <2>4 DEF CompileReport
      <3>2. WholeDays(ResolvePeriod(from, to, clock))
        BY <2>4, ResolvedDays DEF CompileReport, ReportsTypeOK
      <3>3. WholeDays(report'.period)
        BY <3>1, <3>2
      <3> QED
        BY <3>3 DEF PeriodsHold, WholeDays
    <2>5. ASSUME NEW part \in Figures, Read(part)
          PROVE  PeriodsHold'
      <3>1. report.pc = "reading" /\ DOMAIN report = {"pc", "seller", "seen", "period"}
            /\ WholeDays(report.period)
        BY <2>5 DEF Read, ReportsTypeOK, PeriodsHold, NoReport
      <3>2. report'.period = report.period
        BY <2>5, <3>1 DEF Read
      <3> QED
        BY <3>1, <3>2 DEF PeriodsHold, WholeDays
    <2>6. CASE Answer
      BY <2>6 DEF Answer, PeriodsHold, NoReport
    <2> QED
      BY <2>2, <2>3, <2>4, <2>5, <2>6 DEF ReportsNext, Compile, GetPlatformReport,
                                          GetSellerReport, ExportDataset
  <1> QED
    BY <1>1, <1>2, ReportTypes, PTL DEF ReportsSpec

LEMMA ReportHolds ==
  ASSUME ReportsTypeOK, PeriodsHold
  PROVE  ReportAddsUp
  <1> SUFFICES ASSUME report.pc = "reading", DOMAIN report.seen = FiguresFor(report.seller)
               PROVE  ReportAddsUp
    BY DEF ReportAddsUp
  <1> DEFINE p == report.period
             seen == report.seen
             shops == IF report.seller = Missing THEN Shops ELSE {report.seller}
             totals == LedgerTotals(seen["totals"], p, shops)
             previous == LedgerTotals(seen["previousTotals"], PreviousPeriod(p), shops)
             placements == Placements(report.seller, seen["orders"], p)
             before == Placements(report.seller, seen["previousOrders"], PreviousPeriod(p)).placed
             chart == DailySales(seen["chart"], p, shops)
             sellers == TopSellers(seen["topSellers"], p)
             products == TopProducts(seen["topProducts"], p, shops)
             summary == DatasetRows("summary")
  <1>1. /\ WholeDays(p) /\ log \in Seq(Changes)
        /\ report.seller \in Shops \union {Missing}
        /\ \A part \in FiguresFor(report.seller) : seen[part] \in 0 .. Len(log)
    BY DEF ReportsTypeOK, PeriodsHold, NoReport
  <1>2. SellerFigures \subseteq FiguresFor(report.seller)
    BY DEF FiguresFor, Figures
  <1>3. /\ DatasetRows("sales-chart") = chart /\ DatasetRows("top-products") = products
        /\ DatasetRows("top-sellers") = sellers
    BY DEF DatasetRows
  <1>4. summary = [revenue |-> totals, previous |-> previous, orders |-> placements,
                   previousPlaced |-> before,
                   comparison |-> Comparison(totals, previous, placements.placed, before)]
    BY DEF DatasetRows
  <1>5. /\ summary.revenue = totals /\ summary.previous = previous
        /\ summary.orders = placements /\ summary.previousPlaced = before
        /\ summary.comparison.netSales = PercentChange(totals.netSales, previous.netSales)
        /\ summary.comparison.orders = PercentChange(placements.placed, before)
    BY <1>4 DEF Comparison
  <1>6. \A part \in SellerFigures : seen[part] \in 0 .. Len(log)
    BY <1>1, <1>2
  <1> HIDE DEF summary
  <1>7. seen["totals"] = seen["chart"] =>
          totals = SumOfRevenues([d \in Days(p) |-> chart[d].revenue])
    <2> SUFFICES ASSUME seen["totals"] = seen["chart"]
                 PROVE  totals = SumOfRevenues([d \in Days(p) |-> chart[d].revenue])
      OBVIOUS
    <2> DEFINE n == seen["totals"]
               revenue == [d \in Days(p) |-> chart[d].revenue]
    <2>1. n \in 0 .. Len(log)
      BY <1>6 DEF SellerFigures
    <2>2. \A d \in Days(p) : revenue[d] = LedgerTotals(n, Day(d), shops)
      BY DEF DailySales, ChartPoint, LedgerTotals
    <2>3. DOMAIN revenue = Days(p)
      OBVIOUS
    <2> HIDE DEF revenue, n, shops
    <2>4. LedgerTotals(n, p, shops) = SumOfRevenues(revenue)
      BY <1>1, <2>1, <2>2, <2>3, ChartAddsUp
    <2> QED
      BY <2>4 DEF revenue, n
  <1>8. ASSUME "topSellers" \in FiguresFor(report.seller), seen["totals"] = seen["topSellers"],
               Cardinality(Shops) <= TopN
        PROVE  totals = SumOfRevenues([i \in DOMAIN sellers |-> sellers[i].revenue])
    <2> DEFINE n == seen["totals"]
               revenue == [i \in DOMAIN sellers |-> sellers[i].revenue]
    <2>1. n \in 0 .. Len(log)
      BY <1>6 DEF SellerFigures
    <2>2. shops = Shops
      BY <1>8 DEF FiguresFor, SellerFigures
    <2>3. /\ DOMAIN revenue = DOMAIN TopSellers(n, p)
          /\ \A i \in DOMAIN revenue : revenue[i] = TopSellers(n, p)[i].revenue
      BY <1>8
    <2> HIDE DEF revenue, n
    <2>4. LedgerTotals(n, p, Shops) = SumOfRevenues(revenue)
      BY <1>1, <1>8, <2>1, <2>3, TopSellersAddUp
    <2> QED
      BY <2>2, <2>4 DEF revenue, n
  <1>9. seen["totals"] = seen["previousTotals"] =>
          Plus(totals, previous) =
            LedgerTotals(seen["totals"], [from |-> PreviousPeriod(p).from, to |-> p.to], shops)
    <2>1. seen["totals"] \in 0 .. Len(log)
      BY <1>6 DEF SellerFigures
    <2> HIDE DEF shops
    <2> QED
      BY <1>1, <2>1, PreviousAddsUp
  <1>10. ASSUME seen["orders"] = seen["topProducts"], report.seller # Missing
         PROVE  DOMAIN products = {} <=> placements.placed = placements.cancelled
    <2> DEFINE n == seen["orders"]
               h == report.seller
    <2>1. n \in 0 .. Len(log)
      BY <1>6 DEF SellerFigures
    <2>2. h \in Shops /\ shops = {h}
      BY <1>1, <1>10
    <2>3. products = TopProducts(n, p, {h}) /\ placements = SellerOrderCounts(n, p, h)
      BY <1>10, <2>2 DEF Placements
    <2>4. DOMAIN products = {} <=> Sold(h, n, p) = {}
      BY <1>1, <2>1, <2>2, <2>3, TopProductsHold
    <2>5. /\ IsFiniteSet(Sold(h, n, p)) /\ CountsHold(placements)
          /\ Cardinality(Sold(h, n, p)) = placements.placed - placements.cancelled
      BY <1>1, <2>1, <2>3, SellerOrderCountsHold
    <2>6. Sold(h, n, p) = {} <=> Cardinality(Sold(h, n, p)) = 0
      BY <2>5, FS_EmptySet
    <2> HIDE DEF products, placements, n
    <2> QED
      BY <2>4, <2>5, <2>6 DEF CountsHold
  <1>11. CountsHold(placements) /\ before \in Nat
    <2>1. seen["orders"] \in 0 .. Len(log) /\ seen["previousOrders"] \in 0 .. Len(log)
      BY <1>6 DEF SellerFigures
    <2>2. ASSUME NEW n \in 0 .. Len(log), NEW q
          PROVE  CountsHold(Placements(report.seller, n, q))
      BY <1>1, OrderCountsHold, SellerOrderCountsHold DEF Placements
    <2> QED
      BY <2>1, <2>2 DEF CountsHold
  <1>12. totals.netSales \in Int /\ previous.netSales \in Int
    <2>1. seen["totals"] \in 0 .. Len(log) /\ seen["previousTotals"] \in 0 .. Len(log)
      BY <1>6 DEF SellerFigures
    <2>2. ASSUME NEW n \in 0 .. Len(log), NEW q
          PROVE  LedgerTotals(n, q, shops)["netSales"] \in Int
      <3>1. EntriesIn(n, q, shops) \in SUBSET Entries(n)
        BY DEF EntriesIn
      <3> HIDE DEF shops
      <3> QED
        BY <1>1, <3>1, RevenueAdds, RevenueFields DEF LedgerTotals
    <2> QED
      BY <2>1, <2>2
  <1>13. /\ Rises(summary.comparison.netSales, totals.netSales, previous.netSales)
         /\ Rises(summary.comparison.orders, placements.placed, before)
    <2> HIDE DEF totals, previous, placements, before
    <2> QED
      BY <1>5, <1>11, <1>12, ChangeRises DEF CountsHold
  <1>14. "conversion" \in FiguresFor(report.seller) =>
           RateFits(Conversion(seen["conversion"], p))
    <2> SUFFICES ASSUME "conversion" \in FiguresFor(report.seller)
                 PROVE  RateFits(Conversion(seen["conversion"], p))
      OBVIOUS
    <2>1. seen["conversion"] \in Nat
      BY <1>1
    <2> HIDE DEF p, seen
    <2> QED
      BY <2>1, RateHolds
  <1>15. placements.completed + placements.cancelled <= placements.placed
    BY <1>11 DEF CountsHold
  <1> HIDE DEF p, seen, shops, totals, previous, placements, before, chart, sellers, products
  <1> QED
    BY <1>3, <1>5, <1>7, <1>8, <1>9, <1>10, <1>13, <1>14, <1>15
       DEF ReportAddsUp, RateFits, p, seen, shops, summary

(* The figures that a report has read from one state of the database add    *)
(* up, for any number of sellers, baskets and days and any log              *)
(* (AnalyticsService.getPlatformReport, getSellerReport).                   *)
THEOREM ReportsAddUp == ReportsSpec => []ReportAddsUp
  <1>1. ReportsTypeOK /\ PeriodsHold => ReportAddsUp
    BY ReportHolds
  <1> QED
    BY <1>1, ReportPeriods, PTL

=============================================================================
