----------------------------- MODULE AfterSale -----------------------------
(***************************************************************************)
(* What a buyer may do about one SellerOrder once it is placed: review its *)
(* lines (ReviewsService) and dispute it (DisputesService), while the      *)
(* SellerOrder moves on and several admins rule.  Both services read first *)
(* and write later, outside any common transaction.                        *)
(***************************************************************************)
EXTENDS Naturals, Sequences, FiniteSets

CONSTANTS
  Buyer, Seller,  \* the two sides of the SellerOrder
  Others,         \* whom the SellerOrder does not concern
  Admins,
  Items,          \* the lines of the SellerOrder
  WholeOrder,     \* the scope of a dispute that names no line
  Nobody,
  Requests,       \* API requests in progress at once
  MaxDisputes,    \* bound: disputes raised
  MaxComments     \* bound: comments on a dispute

ASSUME PartiesAssumption ==
  /\ Buyer # Seller /\ {Buyer, Seller} \cap (Others \union Admins) = {}
  /\ Others \cap Admins = {} /\ Nobody \notin {Buyer, Seller} \union Others \union Admins
ASSUME ScopeAssumption == WholeOrder \notin Items
ASSUME BoundAssumption == MaxDisputes \in Nat /\ MaxComments \in Nat

VARIABLES
  order,     \* the status of the SellerOrder
  completed, \* history: it has been COMPLETED
  reviews,   \* the lines reviewed: Review.orderItemId is unique
  announced, \* the lines whose review has its PRODUCT_UPDATED outbox row
  disputes,  \* the Dispute rows, oldest first
  request    \* request[r]: what r has read

vars == << order, completed, reviews, announced, disputes, request >>

-----------------------------------------------------------------------------
(* Types *)

OrderStatuses == {"IN_PROGRESS", "COMPLETED", "CANCELLED"}
DisputeStatuses == {"OPEN", "UNDER_REVIEW", "RESOLVED", "REJECTED"}
Ruled == {"RESOLVED", "REJECTED"}
Active == DisputeStatuses \ Ruled

Users == {Buyer, Seller} \union Others \union Admins
Scopes == Items \union {WholeOrder}

(* findSellerOrderAsBuyer lets an admin through as well. *)
Raisers == {Buyer} \union Admins

DisputeRow ==
  [scope : Scopes, raisedBy : Raisers, status : DisputeStatuses,
   resolvedBy : Admins \union {Nobody}, comments : 0 .. MaxComments]

Idle == [pc |-> "idle"]

(* seen: the status of the dispute when the request read it. *)
RequestState ==
  {Idle}
    \union [pc : {"completed", "unreviewed"}, item : Items]
    \union [pc : {"clear"}, scope : Scopes, user : Raisers]
    \union [pc : {"ruling"}, dispute : 1 .. MaxDisputes,
            seen : DisputeStatuses, admin : Admins]
    \union [pc : {"replying"}, dispute : 1 .. MaxDisputes, seen : DisputeStatuses]

TypeOK ==
  /\ order \in OrderStatuses
  /\ completed \in BOOLEAN
  /\ reviews \subseteq Items
  /\ announced \subseteq Items
  /\ disputes \in Seq(DisputeRow) /\ Len(disputes) <= MaxDisputes
  /\ request \in [Requests -> RequestState]

-----------------------------------------------------------------------------
(* The SellerOrder, as Orders moves it.  No status is final: an admin may   *)
(* cancel what is COMPLETED, and a caller that had checked an older status  *)
(* overwrites any other.                                                    *)
MoveOrder ==
  /\ order' \in OrderStatuses \ {order}
  /\ completed' = (completed \/ order' = "COMPLETED")
  /\ UNCHANGED << reviews, announced, disputes, request >>

Goes(r, state) == request' = [request EXCEPT ![r] = state]
Ends(r) == Goes(r, Idle)

-----------------------------------------------------------------------------
(* ReviewsService.create: one read after the other, and then one           *)
(* transaction for the review and the outbox row.  A line of somebody      *)
(* else's order is a 404.                                                  *)
Reviewable_Unfinished == order # "CANCELLED"
Reviewable == order = "COMPLETED"

FindPurchase(r, i) ==
  /\ request[r].pc = "idle"
  /\ Reviewable
  /\ Goes(r, [pc |-> "completed", item |-> i])
  /\ UNCHANGED << order, completed, reviews, announced, disputes >>

FindReview(r) ==
  /\ request[r].pc = "completed"
  /\ IF request[r].item \in reviews
     THEN Ends(r)
     ELSE Goes(r, [pc |-> "unreviewed", item |-> request[r].item])
  /\ UNCHANGED << order, completed, reviews, announced, disputes >>

(* A second request that got this far runs into the unique index. *)
CreateReview(r) ==
  /\ request[r].pc = "unreviewed"
  /\ LET i == request[r].item
     IN \/ /\ i \notin reviews
           /\ reviews' = reviews \union {i}
           /\ announced' = announced \union {i}
        \/ UNCHANGED << reviews, announced >>
  /\ Ends(r)
  /\ UNCHANGED << order, completed, disputes >>

-----------------------------------------------------------------------------
(* DisputesService *)

ActiveIn(scope) ==
  {d \in DOMAIN disputes : disputes[d].scope = scope /\ disputes[d].status \in Active}

(* raise: only a line of this SellerOrder, and only when no dispute of the  *)
(* same scope, whoever raised it, awaits a decision.                        *)
Clear(scope) == ActiveIn(scope) = {}

FindActive(r, user, scope) ==
  /\ request[r].pc = "idle"
  /\ Clear(scope)
  /\ Goes(r, [pc |-> "clear", scope |-> scope, user |-> user])
  /\ UNCHANGED << order, completed, reviews, announced, disputes >>

(* No unique index stands behind the check. *)
CreateDispute(r) ==
  /\ request[r].pc = "clear"
  /\ Len(disputes) < MaxDisputes
  /\ disputes' = Append(disputes,
       [scope |-> request[r].scope, raisedBy |-> request[r].user,
        status |-> "OPEN", resolvedBy |-> Nobody, comments |-> 0])
  /\ Ends(r)
  /\ UNCHANGED << order, completed, reviews, announced >>

(* findByIdWithOrderForCaller: the raiser, an admin, or the seller whose    *)
(* shipment it is about, by a profile of any status and a token that names  *)
(* him a seller.                                                            *)
Readable(user, d) ==
  \/ user \in Admins
  \/ user = disputes[d].raisedBy
  \/ user = Seller

(* ALLOWED_TRANSITIONS. *)
Allowed(from) ==
  CASE from = "OPEN"         -> {"UNDER_REVIEW", "RESOLVED", "REJECTED"}
    [] from = "UNDER_REVIEW" -> Ruled
    [] OTHER                 -> {}

FindDispute(r, admin, d) ==
  /\ request[r].pc = "idle"
  /\ Allowed(disputes[d].status) # {}
  /\ Goes(r, [pc |-> "ruling", dispute |-> d,
              seen |-> disputes[d].status, admin |-> admin])
  /\ UNCHANGED << order, completed, reviews, announced, disputes >>

(* The UPDATE names the row by its id alone. *)
WithRuling(row, status, admin) ==
  [row EXCEPT !.status = status, !.resolvedBy = admin]

(* A ruling without its reasons is refused. *)
Resolve(r, status) ==
  /\ request[r].pc = "ruling"
  /\ status \in Allowed(request[r].seen)
  /\ disputes' = [disputes EXCEPT ![request[r].dispute] =
                    WithRuling(@, status, request[r].admin)]
  /\ Ends(r)
  /\ UNCHANGED << order, completed, reviews, announced >>

(* addComment: a decided dispute is closed to new argument.  Who said what  *)
(* is left out, who may is not.                                             *)
Closed(status) == status \in Ruled

OpenThread(r, user, d) ==
  /\ request[r].pc = "idle"
  /\ Readable(user, d)
  /\ ~Closed(disputes[d].status)
  /\ Goes(r, [pc |-> "replying", dispute |-> d, seen |-> disputes[d].status])
  /\ UNCHANGED << order, completed, reviews, announced, disputes >>

AddComment(r) ==
  /\ request[r].pc = "replying"
  /\ disputes[request[r].dispute].comments < MaxComments
  /\ disputes' = [disputes EXCEPT ![request[r].dispute].comments = @ + 1]
  /\ Ends(r)
  /\ UNCHANGED << order, completed, reviews, announced >>

-----------------------------------------------------------------------------
(* Any request may fail where it stands, with the rest of its work undone. *)
Fail(r) ==
  /\ request[r].pc # "idle"
  /\ Ends(r)
  /\ UNCHANGED << order, completed, reviews, announced, disputes >>

Init ==
  /\ order = "IN_PROGRESS"
  /\ completed = FALSE
  /\ reviews = {}
  /\ announced = {}
  /\ disputes = << >>
  /\ request = [r \in Requests |-> Idle]

Reviewing(r) ==
  \/ \E i \in Items : FindPurchase(r, i)
  \/ FindReview(r) \/ CreateReview(r)

Disputing(r) ==
  \/ \E user \in Raisers, scope \in Scopes : FindActive(r, user, scope)
  \/ CreateDispute(r)
  \/ \E admin \in Admins, d \in DOMAIN disputes : FindDispute(r, admin, d)
  \/ \E status \in DisputeStatuses : Resolve(r, status)
  \/ \E user \in Users, d \in DOMAIN disputes : OpenThread(r, user, d)
  \/ AddComment(r)

Next ==
  \/ MoveOrder
  \/ \E r \in Requests : Reviewing(r) \/ Disputing(r) \/ Fail(r)

Spec == Init /\ [][Next]_vars

-----------------------------------------------------------------------------
(* Properties *)

(* Only who has received his purchase reviews it, however the SellerOrder   *)
(* moves between the checks and the write (it may be cancelled by then), and *)
(* no review goes unannounced to the search index (ReviewsService.create).   *)
ReviewsAreEarned ==
  /\ reviews # {} => completed
  /\ announced = reviews

(* "An admin ruling is final" (README.md:682): a dispute that is RESOLVED or *)
(* REJECTED keeps its status (dispute-transitions.ts).                       *)
RulingsAreFinal ==
  [][\A d \in DOMAIN disputes :
       disputes[d].status \in Ruled => disputes'[d].status = disputes[d].status]_vars

=============================================================================
