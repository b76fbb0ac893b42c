------------------------------ MODULE Bidding ------------------------------
(***************************************************************************)
(* Auctions of one product: creation, bidding under optimistic locking,    *)
(* the three deadlines (start, end, checkout window) driven by delayed     *)
(* jobs and by the sweeper, and the winner's checkout.                     *)
(*                                                                         *)
(* Modelled: BiddingService, PrismaBiddingRepository,                      *)
(* AuctionDeadlineConsumer, AuctionDeadlineSweeperService,                 *)
(* OrdersService.checkoutAuctionWin and the inventory updates they call.   *)
(*                                                                         *)
(* A handler that reads a row and commits a transaction later is two       *)
(* actions, with what it read kept in a variable of the caller; a          *)
(* transaction is one action, because every conflicting write in it is one *)
(* guarded UPDATE of one row, which PostgreSQL serialises.                 *)
(***************************************************************************)
EXTENDS Integers, Sequences, FiniteSets, Inventory

CONSTANTS
  Lots,             \* ids of the auctions that may be created
  Bidders,          \* users; each has at most one bid request in flight
  Claims,           \* winner-checkout requests that may be in flight
  Nobody,           \* the null user id
  Amounts,          \* amounts a bid may offer, in cents
  StartingPrice,
  MinBidIncrement,
  MaxBidAttempts,   \* MAX_BID_ATTEMPTS, 3 in the code
  Quantity,         \* Quantity[l]: the lot size asked for auction l
  InitialStock      \* the most units the product has on sale at the start

ASSUME BiddersAssumption == Nobody \notin Bidders
ASSUME PriceAssumption ==
  /\ Amounts \subseteq Nat \ {0}
  /\ StartingPrice \in Nat \ {0}
  /\ MinBidIncrement \in Nat \ {0}
  /\ MaxBidAttempts \in Nat \ {0}
ASSUME StockAssumption ==
  /\ Quantity \in [Lots -> Nat \ {0}]
  /\ InitialStock \in Nat

VARIABLES
  auction,    \* auction[l]: the Auction row
  bids,       \* bids[l]: the Bid rows of l, oldest first
  due,        \* due[l]: the deadlines of l the wall clock has passed
  stock,      \* the product's Inventory row
  listed,     \* whether the product is ACTIVE (not archived)
  orders,     \* orders[l]: orders created from lot l
  announced,  \* announced[l]: the winner the AuctionEnded event names
  request,    \* request[b]: the placeBid call of user b
  worker,     \* worker[w]: the endAuction call of a deadline worker
  claim       \* claim[c]: a checkoutAuctionWin call

vars == << auction, bids, due, stock, listed, orders, announced,
           request, worker, claim >>

-----------------------------------------------------------------------------
(* Types *)

Start == "start-auction"
End == "end-auction"
Expire == "expire-checkout-window"
Deadlines == {Start, End, Expire}

(* ABSENT and CREATING are not row values: no row exists yet, and         *)
(* createAuction is between its live-lot check and its transaction.        *)
Statuses == {"ABSENT", "CREATING", "SCHEDULED", "ACTIVE", "ENDED",
             "COMPLETED", "EXPIRED"}

(* currentHighestBid is 0 for null; checkoutDeadline tells whether it is set. *)
AuctionRow == [status : Statuses, currentHighestBid : Nat,
               currentHighestBidderId : Bidders \union {Nobody},
               version : Nat, checkoutDeadline : BOOLEAN]

BidRow == [bidder : Bidders, amount : Amounts]

NoRequest == [pc |-> "idle"]
BidRequest ==
  {NoRequest}
    \union [pc : {"read"}, lot : Lots, amount : Amounts,
            attempt : Nat, version : Nat]
    \union [pc : {"retry"}, lot : Lots, amount : Amounts, attempt : Nat]

Workers == {"consumer", "sweeper"}
Idle == [pc |-> "idle"]
EndCall == {Idle} \union
           [pc : {"ending"}, lot : Lots, leader : Bidders \union {Nobody}]
ClaimCall == {Idle} \union
             [pc : {"checked"}, lot : Lots, buyer : Bidders, price : Nat]
OrderRow == [buyer : Bidders, price : Nat]

TypeOK ==
  /\ auction \in [Lots -> AuctionRow]
  /\ bids \in [Lots -> Seq(BidRow)]
  /\ due \in [Lots -> SUBSET Deadlines]
  /\ stock \in InventoryRow
  /\ listed \in BOOLEAN
  /\ orders \in [Lots -> Seq(OrderRow)]
  /\ announced \in [Lots -> Bidders \union {Nobody}]
  /\ request \in [Bidders -> BidRequest]
  /\ worker \in [Workers -> EndCall]
  /\ claim \in [Claims -> ClaimCall]

-----------------------------------------------------------------------------
(* Helpers *)

Live(l) == auction[l].status \in {"SCHEDULED", "ACTIVE"}
Exists(l) == auction[l].status \notin {"ABSENT", "CREATING"}

(* computeMinAcceptableBid *)
MinAcceptable_NoIncrement(row) == StartingPrice
MinAcceptable(row) ==
  IF row.currentHighestBid = 0
  THEN StartingPrice
  ELSE row.currentHighestBid + MinBidIncrement

(* assertAcceptingBids, then the amount check, on the row as it is read. *)
Acceptable(l, a) ==
  /\ auction[l].status = "ACTIVE"
  /\ End \notin due[l]
  /\ a >= MinAcceptable(auction[l])

(* The WHERE clause of tryAcceptBid. *)
VersionUnchanged_NotChecked(l, v) == TRUE
VersionUnchanged(l, v) == auction[l].version = v

(* The WHERE clause of transitionStatusIfCurrent, and what it writes. *)
StatusIs(l, s) == auction[l].status = s
WithStatus(l, s) == [auction EXCEPT ![l] = [@ EXCEPT !.status = s]]

-----------------------------------------------------------------------------
(* createAuction *)

(* The live-lot check.  It reads through this.prisma rather than tx, so it  *)
(* is a step of its own; the caller owns the AUCTION-type product.          *)
CheckNoLiveLot(l) ==
  /\ StatusIs(l, "ABSENT")
  /\ \A m \in Lots : ~Live(m)
  /\ auction' = WithStatus(l, "CREATING")
  /\ UNCHANGED << bids, due, stock, listed, orders, announced,
                  request, worker, claim >>

(* Nothing relates startsAt, endsAt and now in CreateAuctionDto: either     *)
(* deadline may already have passed (the set past) when the row is created. *)
CommitAuction(l, past) ==
  /\ StatusIs(l, "CREATING")
  /\ CanReserve(stock, Quantity[l])
  /\ stock' = Reserve(stock, Quantity[l])
  /\ auction' = WithStatus(l, IF Start \in past THEN "ACTIVE" ELSE "SCHEDULED")
  /\ due' = [due EXCEPT ![l] = past]
  /\ UNCHANGED << bids, listed, orders, announced, request, worker, claim >>

RefuseAuction(l) ==
  /\ StatusIs(l, "CREATING")
  /\ ~CanReserve(stock, Quantity[l])
  /\ auction' = WithStatus(l, "ABSENT")
  /\ UNCHANGED << bids, due, stock, listed, orders, announced,
                  request, worker, claim >>

-----------------------------------------------------------------------------
(* placeBid *)

(* The first read of a call.  A call the checks refuse changes nothing; the *)
(* seller of the lot, whom placeBid turns away, is not one of Bidders.      *)
ReadForBid(b, l, a) ==
  /\ request[b].pc = "idle"
  /\ Acceptable(l, a)
  /\ request' = [request EXCEPT ![b] =
                   [pc |-> "read", lot |-> l, amount |-> a, attempt |-> 0,
                    version |-> auction[l].version]]
  /\ UNCHANGED << auction, bids, due, stock, listed, orders,
                  announced, worker, claim >>

(* The read at the top of a later round of the loop, refused or not. *)
NextRound_LoopsOnRefusal(r) ==
  IF Acceptable(r.lot, r.amount)
  THEN [pc |-> "read", lot |-> r.lot, amount |-> r.amount,
        attempt |-> r.attempt, version |-> auction[r.lot].version]
  ELSE r
NextRound(r) ==
  IF Acceptable(r.lot, r.amount)
  THEN [pc |-> "read", lot |-> r.lot, amount |-> r.amount,
        attempt |-> r.attempt, version |-> auction[r.lot].version]
  ELSE NoRequest

ReadAgain(b) ==
  /\ request[b].pc = "retry"
  /\ request' = [request EXCEPT ![b] = NextRound(@)]
  /\ UNCHANGED << auction, bids, due, stock, listed, orders,
                  announced, worker, claim >>

(* tryAcceptBid finds the version it read: the row and the Bid are written. *)
AcceptBid(b) ==
  LET r == request[b] IN
  /\ r.pc = "read"
  /\ VersionUnchanged(r.lot, r.version)
  /\ auction' = [auction EXCEPT ![r.lot] =
                   [@ EXCEPT !.currentHighestBid = r.amount,
                             !.currentHighestBidderId = b,
                             !.version = auction[r.lot].version + 1]]
  /\ bids' = [bids EXCEPT ![r.lot] =
                Append(@, [bidder |-> b, amount |-> r.amount])]
  /\ request' = [request EXCEPT ![b] = NoRequest]
  /\ UNCHANGED << due, stock, listed, orders, announced, worker, claim >>

(* The round that follows a lost race: another round, or the 409. *)
AfterConflict_KeepsStaleRead(r) ==
  IF r.attempt + 1 < MaxBidAttempts
  THEN [r EXCEPT !.attempt = @ + 1]
  ELSE NoRequest
AfterConflict(r) ==
  IF r.attempt + 1 < MaxBidAttempts
  THEN [pc |-> "retry", lot |-> r.lot, amount |-> r.amount,
        attempt |-> r.attempt + 1]
  ELSE NoRequest

LoseRace(b) ==
  /\ request[b].pc = "read"
  /\ ~VersionUnchanged(request[b].lot, request[b].version)
  /\ request' = [request EXCEPT ![b] = AfterConflict(@)]
  /\ UNCHANGED << auction, bids, due, stock, listed, orders,
                  announced, worker, claim >>

-----------------------------------------------------------------------------
(* Deadlines *)

(* The wall clock passes a deadline.  checkoutDeadline exists once set. *)
ClockPasses(l, d) ==
  /\ Exists(l)
  /\ d \notin due[l]
  /\ d = Expire => auction[l].checkoutDeadline
  /\ due' = [due EXCEPT ![l] = @ \union {d}]
  /\ UNCHANGED << auction, bids, stock, listed, orders, announced,
                  request, worker, claim >>

(* Who picks a lot up for a deadline: the sweeper, whose query finds the    *)
(* lot overdue in status s; or the consumer of the delayed job.  The job    *)
(* fires after the deadline, perhaps late, again when it is redelivered, or *)
(* never when Redis lost it, so the consumer may run at any time after it.  *)
PickedUp_JobsOnly(w, d, l, s) ==
  /\ worker[w].pc = "idle"
  /\ d \in due[l]
  /\ w = "consumer"
PickedUp(w, d, l, s) ==
  /\ worker[w].pc = "idle"
  /\ d \in due[l]
  /\ w = "sweeper" => StatusIs(l, s)

(* activateAuctionIfDue *)
Activate_Unconditional(w, l) ==
  /\ PickedUp(w, Start, l, "SCHEDULED")
  /\ auction' = WithStatus(l, "ACTIVE")
  /\ UNCHANGED << bids, due, stock, listed, orders, announced, request,
                  worker, claim >>
Activate(w, l) ==
  /\ PickedUp(w, Start, l, "SCHEDULED")
  /\ auction' = IF StatusIs(l, "SCHEDULED")
                THEN WithStatus(l, "ACTIVE")
                ELSE auction
  /\ UNCHANGED << bids, due, stock, listed, orders, announced, request,
                  worker, claim >>

(* endAuction, the read before the transaction: who leads decides the next *)
(* status, and the event's winner.                                          *)
ReadForEnd(w, l) ==
  /\ PickedUp(w, End, l, "ACTIVE")
  /\ worker' = [worker EXCEPT ![w] =
                  [pc |-> "ending", lot |-> l,
                   leader |-> auction[l].currentHighestBidderId]]
  /\ UNCHANGED << auction, bids, due, stock, listed, orders,
                  announced, request, claim >>

(* The stock after a lot ends with the leader that endAuction read. *)
StockAfterEnd_AlwaysReleased(l, leader) == Release(stock, Quantity[l])
StockAfterEnd(l, leader) ==
  IF leader = Nobody THEN Release(stock, Quantity[l]) ELSE stock

(* endAuction's transaction. *)
CommitEnd(w) ==
  LET l == worker[w].lot
      leader == worker[w].leader
      hasWinner == leader # Nobody
  IN
  /\ worker[w].pc = "ending"
  /\ IF StatusIs(l, "ACTIVE")
     THEN /\ auction' = [auction EXCEPT ![l] =
                           [@ EXCEPT !.status =
                                       IF hasWinner THEN "ENDED" ELSE "EXPIRED",
                                     !.checkoutDeadline = hasWinner]]
          /\ stock' = StockAfterEnd(l, leader)
          /\ announced' = [announced EXCEPT ![l] = leader]
     ELSE UNCHANGED << auction, stock, announced >>
  /\ worker' = [worker EXCEPT ![w] = Idle]
  /\ UNCHANGED << bids, due, listed, orders, request, claim >>

(* The instance dies, or the database fails, before endAuction commits; the *)
(* job is redelivered and the next sweep starts over.                      *)
AbandonEnd(w) ==
  /\ worker[w].pc = "ending"
  /\ worker' = [worker EXCEPT ![w] = Idle]
  /\ UNCHANGED << auction, bids, due, stock, listed, orders,
                  announced, request, claim >>

(* expireCheckoutWindowIfUnclaimed *)
ExpireWindow(w, l) ==
  /\ PickedUp(w, Expire, l, "ENDED")
  /\ IF StatusIs(l, "ENDED")
     THEN /\ auction' = WithStatus(l, "EXPIRED")
          /\ stock' = Release(stock, Quantity[l])
     ELSE UNCHANGED << auction, stock >>
  /\ UNCHANGED << bids, due, listed, orders, announced, request, worker,
                  claim >>

-----------------------------------------------------------------------------
(* checkoutAuctionWin *)

(* findAuctionById and assertCanCheckoutAsWinner, before the transaction. *)
CheckWinner(c, b, l) ==
  /\ claim[c].pc = "idle"
  /\ StatusIs(l, "ENDED")
  /\ auction[l].currentHighestBidderId = b
  /\ auction[l].checkoutDeadline
  /\ Expire \notin due[l]
  /\ claim' = [claim EXCEPT ![c] =
                 [pc |-> "checked", lot |-> l, buyer |-> b,
                  price |-> auction[l].currentHighestBid]]
  /\ UNCHANGED << auction, bids, due, stock, listed, orders,
                  announced, request, worker >>

(* The transaction: an order with the lot as its one line and no new        *)
(* reservation, then markAuctionCompleted, whose null result is ignored.    *)
CommitClaim(c) ==
  LET l == claim[c].lot IN
  /\ claim[c].pc = "checked"
  /\ listed
  /\ orders' = [orders EXCEPT ![l] =
                  Append(@, [buyer |-> claim[c].buyer,
                             price |-> claim[c].price])]
  /\ auction' = IF StatusIs(l, "ENDED")
                THEN WithStatus(l, "COMPLETED")
                ELSE auction
  /\ claim' = [claim EXCEPT ![c] = Idle]
  /\ UNCHANGED << bids, due, stock, listed, announced, request, worker >>

(* The product was archived: the transaction is refused. *)
RefuseClaim(c) ==
  /\ claim[c].pc = "checked"
  /\ ~listed
  /\ claim' = [claim EXCEPT ![c] = Idle]
  /\ UNCHANGED << auction, bids, due, stock, listed, orders,
                  announced, request, worker >>

(* archive and restore of the auctioned product (ProductsService). *)
SetListed(on) ==
  /\ listed # on
  /\ listed' = on
  /\ UNCHANGED << auction, bids, due, stock, orders, announced,
                  request, worker, claim >>

-----------------------------------------------------------------------------
(* The specification *)

Init ==
  /\ auction = [l \in Lots |->
                  [status |-> "ABSENT", currentHighestBid |-> 0,
                   currentHighestBidderId |-> Nobody, version |-> 0,
                   checkoutDeadline |-> FALSE]]
  /\ bids = [l \in Lots |-> << >>]
  /\ due = [l \in Lots |-> {}]
  /\ \E n \in 0 .. InitialStock : stock = [available |-> n, reserved |-> 0]
  /\ listed = TRUE
  /\ orders = [l \in Lots |-> << >>]
  /\ announced = [l \in Lots |-> Nobody]
  /\ request = [b \in Bidders |-> NoRequest]
  /\ worker = [w \in Workers |-> Idle]
  /\ claim = [c \in Claims |-> Idle]

Next ==
  \/ \E l \in Lots : CheckNoLiveLot(l)
  \/ \E l \in Lots, past \in SUBSET {Start, End} : CommitAuction(l, past)
  \/ \E l \in Lots : RefuseAuction(l)
  \/ \E b \in Bidders, l \in Lots, a \in Amounts : ReadForBid(b, l, a)
  \/ \E b \in Bidders : ReadAgain(b)
  \/ \E b \in Bidders : AcceptBid(b)
  \/ \E b \in Bidders : LoseRace(b)
  \/ \E l \in Lots, d \in Deadlines : ClockPasses(l, d)
  \/ \E w \in Workers, l \in Lots : Activate(w, l)
  \/ \E w \in Workers, l \in Lots : ReadForEnd(w, l)
  \/ \E w \in Workers : CommitEnd(w)
  \/ \E w \in Workers : AbandonEnd(w)
  \/ \E w \in Workers, l \in Lots : ExpireWindow(w, l)
  \/ \E c \in Claims, b \in Bidders, l \in Lots : CheckWinner(c, b, l)
  \/ \E c \in Claims : CommitClaim(c)
  \/ \E c \in Claims : RefuseClaim(c)
  \/ \E on \in BOOLEAN : SetListed(on)

(* The sweeper runs every 30 seconds and visits every overdue lot; it does  *)
(* not die between endAuction's read and its commit every single time.      *)
SweeperFairness ==
  /\ \A l \in Lots : /\ WF_vars(Activate("sweeper", l))
                     /\ WF_vars(ReadForEnd("sweeper", l))
                     /\ WF_vars(ExpireWindow("sweeper", l))
  /\ SF_vars(CommitEnd("sweeper"))

(* A placeBid call that has started runs to its end. *)
RequestFairness ==
  \A b \in Bidders : /\ WF_vars(ReadAgain(b))
                     /\ WF_vars(AcceptBid(b) \/ LoseRace(b))

Spec == Init /\ [][Next]_vars

FairSpec == Spec /\ SweeperFairness /\ RequestFairness

-----------------------------------------------------------------------------
(* Properties *)

(* row is what the bids in s make of the Auction row. *)
Ladder(row, s) ==
  LET n == Len(s) IN
  /\ row.version = n
  /\ n = 0 => /\ row.currentHighestBid = 0
              /\ row.currentHighestBidderId = Nobody
  /\ n > 0 => /\ row.currentHighestBid = s[n].amount
              /\ row.currentHighestBidderId = s[n].bidder
              /\ s[1].amount >= StartingPrice
  /\ \A i \in 1 .. n - 1 : s[i + 1].amount >= s[i].amount + MinBidIncrement

(* The Auction row never disagrees with the Bid rows: its version counts    *)
(* them, its highest bid and bidder are those of the last one, and each bid *)
(* tops the one before it by the increment, whatever the interleaving of    *)
(* placeBid reads, commits, retries, deadlines and checkouts (the claim of  *)
(* the optimistic lock in tryAcceptBid: no lost update).                    *)
BidLadder == \A l \in Lots : Ladder(auction[l], bids[l])

(* A caller only loses a round to somebody's success: by the time its       *)
(* request is in round k, at least k bids on that lot have been accepted,   *)
(* so "concurrent updates" (the 409 after MaxBidAttempts rounds) is never   *)
(* answered on a lot where fewer bids than rounds landed.                   *)
ConflictMeansProgress ==
  \A b \in Bidders :
    request[b].pc # "idle" =>
      request[b].attempt <= auction[request[b].lot].version

(* Bids are accepted as if each were judged and recorded in one step. *)
Book == INSTANCE AscendingBook WITH book <- bids
BidsAreAtomic == Book!Spec

(* The lots whose units are still spoken for, and those units one by one. *)
HoldingLots ==
  {l \in Lots : auction[l].status \in {"SCHEDULED", "ACTIVE", "ENDED", "COMPLETED"}}
UnitsOf(S) == UNION {{l} \X (1 .. Quantity[l]) : l \in S}

(* Each lot that may still be won or claimed keeps its units in             *)
(* quantityReserved, and a hold is given back or carried into an order at   *)
(* most once: the two deadline workers, redelivered jobs and the winner     *)
(* never release one lot's units twice (endAuction, expireCheckoutWindow).  *)
EveryHoldReleasedOnce == stock.reserved = Cardinality(UnitsOf(HoldingLots))

(* What the two workers and the winner race for is decided once: a lot only *)
(* moves forward, and a lot that is COMPLETED or EXPIRED never moves again. *)
Successors ==
  [ABSENT |-> {"CREATING"}, CREATING |-> {"ABSENT", "SCHEDULED", "ACTIVE"},
   SCHEDULED |-> {"ACTIVE"}, ACTIVE |-> {"ENDED", "EXPIRED"},
   ENDED |-> {"COMPLETED", "EXPIRED"}, COMPLETED |-> {}, EXPIRED |-> {}]
LotsMoveForward ==
  [][\A l \in Lots :
       \/ auction'[l].status = auction[l].status
       \/ auction'[l].status \in Successors[auction[l].status]]_vars

(* With every delayed job lost, the sweeper still closes each lot whose end *)
(* has passed and each window that lapsed.                                  *)
OverdueLotsClose ==
  \A l \in Lots :
    /\ (Live(l) /\ {Start, End} \subseteq due[l]) ~> ~Live(l)
    /\ (StatusIs(l, "ENDED") /\ Expire \in due[l]) ~> ~StatusIs(l, "ENDED")

(* Every placeBid call is answered, however many rivals bid. *)
EveryBidAnswered ==
  \A b \in Bidders : request[b].pc # "idle" ~> request[b].pc = "idle"

=============================================================================
