--------------------------- MODULE Bidding_proofs ---------------------------
(***************************************************************************)
(* Proofs about Bidding for every set of lots, users, requests and prices. *)
(***************************************************************************)
EXTENDS Bidding, FiniteSetTheorems, TLAPS

-----------------------------------------------------------------------------
(* Type correctness *)

(* Reserving under its guard and releasing keep both counters natural. *)
LEMMA StockArithmetic ==
  ASSUME NEW s \in InventoryRow, NEW q \in Nat
  PROVE  /\ CanReserve(s, q) => Reserve(s, q) \in InventoryRow
         /\ Release(s, q) \in InventoryRow
  BY DEF InventoryRow, CanReserve, Reserve, Release

(* Writing a status leaves a row a row. *)
LEMMA StatusTypes ==
  ASSUME TypeOK, NEW l \in Lots, NEW s \in Statuses
  PROVE  WithStatus(l, s) \in [Lots -> AuctionRow]
  BY DEF TypeOK, WithStatus, AuctionRow

(* So does recording a bid in it. *)
LEMMA BidRowTypes ==
  ASSUME NEW row \in AuctionRow, NEW a \in Nat, NEW b \in Bidders,
         NEW v \in Nat
  PROVE  [row EXCEPT !.currentHighestBid = a, !.currentHighestBidderId = b,
                     !.version = v] \in AuctionRow
  BY DEF AuctionRow

(* And so does ending it, with or without a winner. *)
LEMMA EndRowTypes ==
  ASSUME NEW row \in AuctionRow
  PROVE  /\ [row EXCEPT !.status = "ENDED", !.checkoutDeadline = TRUE]
              \in AuctionRow
         /\ [row EXCEPT !.status = "EXPIRED", !.checkoutDeadline = FALSE]
              \in AuctionRow
  BY DEF AuctionRow, Statuses

(* The three outcomes of endAuction's transaction for the Auction row. *)
LEMMA EndOutcomes ==
  ASSUME NEW w \in Workers, CommitEnd(w)
  PROVE  \/ auction' = auction
         \/ auction' = [auction EXCEPT ![worker[w].lot] =
               [auction[worker[w].lot] EXCEPT !.status = "ENDED",
                                              !.checkoutDeadline = TRUE]]
         \/ auction' = [auction EXCEPT ![worker[w].lot] =
               [auction[worker[w].lot] EXCEPT !.status = "EXPIRED",
                                              !.checkoutDeadline = FALSE]]
  <1>1. CASE worker[w].leader = Nobody
    BY <1>1 DEF CommitEnd
  <1>2. CASE worker[w].leader # Nobody
    BY <1>2 DEF CommitEnd
  <1> QED
    BY <1>1, <1>2

(* A request that goes on or stops after a lost round is still a request. *)
LEMMA RoundTypes ==
  ASSUME TypeOK, NEW b \in Bidders
  PROVE  /\ request[b].pc = "retry" => NextRound(request[b]) \in BidRequest
         /\ request[b].pc = "read" => AfterConflict(request[b]) \in BidRequest
  <1>1. request[b] \in BidRequest
    BY DEF TypeOK
  <1>2. CASE request[b].pc = "retry"
    <2>1. request[b] \in [pc : {"retry"}, lot : Lots, amount : Amounts,
                          attempt : Nat]
      BY <1>1, <1>2 DEF BidRequest, NoRequest
    <2>2. auction[request[b].lot].version \in Nat
      BY <2>1 DEF TypeOK, AuctionRow
    <2> QED
      BY <1>2, <2>1, <2>2 DEF NextRound, BidRequest
  <1>3. CASE request[b].pc = "read"
    <2>1. request[b] \in [pc : {"read"}, lot : Lots, amount : Amounts,
                          attempt : Nat, version : Nat]
      BY <1>1, <1>3 DEF BidRequest, NoRequest
    <2> QED
      BY <1>3, <2>1 DEF AfterConflict, BidRequest
  <1> QED
    BY <1>2, <1>3

LEMMA TypeInit == Init => TypeOK
  BY BiddersAssumption, StockAssumption
  DEF Init, TypeOK, AuctionRow, Statuses, BidRow, BidRequest, NoRequest,
      EndCall, ClaimCall, Idle, OrderRow, InventoryRow

LEMMA TypeStep == TypeOK /\ [Next]_vars => TypeOK'
  <1> SUFFICES ASSUME TypeOK, [Next]_vars PROVE TypeOK'
    OBVIOUS
  <1>1. ASSUME NEW l \in Lots, CheckNoLiveLot(l) PROVE TypeOK'
    BY <1>1, StatusTypes DEF CheckNoLiveLot, TypeOK, Statuses
  <1>2. ASSUME NEW l \in Lots, NEW past \in SUBSET {Start, End},
               CommitAuction(l, past)
        PROVE  TypeOK'
    <2>1. stock' \in InventoryRow
      BY <1>2, StockArithmetic, StockAssumption DEF CommitAuction, TypeOK
    <2>2. auction' \in [Lots -> AuctionRow]
      BY <1>2, StatusTypes DEF CommitAuction, Statuses
    <2> QED
      BY <1>2, <2>1, <2>2 DEF CommitAuction, TypeOK, Deadlines
  <1>3. ASSUME NEW l \in Lots, RefuseAuction(l) PROVE TypeOK'
    BY <1>3, StatusTypes DEF RefuseAuction, TypeOK, Statuses
  <1>4. ASSUME NEW b \in Bidders, NEW l \in Lots, NEW a \in Amounts,
               ReadForBid(b, l, a)
        PROVE  TypeOK'
    <2>1. auction[l].version \in Nat
      BY DEF TypeOK, AuctionRow
    <2>2. request' \in [Bidders -> BidRequest]
      BY <1>4, <2>1 DEF ReadForBid, TypeOK, BidRequest
    <2> QED
      BY <1>4, <2>2 DEF ReadForBid, TypeOK
  <1>5. ASSUME NEW b \in Bidders, ReadAgain(b) PROVE TypeOK'
    BY <1>5, RoundTypes DEF ReadAgain, TypeOK
  <1>6. ASSUME NEW b \in Bidders, AcceptBid(b) PROVE TypeOK'
    <2>1. request[b] \in [pc : {"read"}, lot : Lots, amount : Amounts,
                          attempt : Nat, version : Nat]
      BY <1>6 DEF AcceptBid, TypeOK, BidRequest, NoRequest
    <2>2. request[b].amount \in Nat
      BY <2>1, PriceAssumption
    <2>3. auction' \in [Lots -> AuctionRow]
      <3>1. auction[request[b].lot] \in AuctionRow
        BY <2>1 DEF TypeOK
      <3>2. auction[request[b].lot].version \in Nat
        BY <3>1 DEF AuctionRow
      <3> DEFINE new == [auction[request[b].lot] EXCEPT
                           !.currentHighestBid = request[b].amount,
                           !.currentHighestBidderId = b,
                           !.version = auction[request[b].lot].version + 1]
      <3>3. auction[request[b].lot].version + 1 \in Nat
        BY <3>2
      <3>4. new \in AuctionRow
        BY <2>2, <3>1, <3>3, BidRowTypes
      <3>5. auction' = [auction EXCEPT ![request[b].lot] = new]
        BY <1>6 DEF AcceptBid
      <3> HIDE DEF new
      <3> QED
        BY <3>4, <3>5 DEF TypeOK
    <2>4. bids' \in [Lots -> Seq(BidRow)]
      <3> DEFINE row == [bidder |-> b, amount |-> request[b].amount]
      <3>1. row \in BidRow
        BY <2>1 DEF BidRow
      <3>2. Append(bids[request[b].lot], row) \in Seq(BidRow)
        BY <2>1, <3>1 DEF TypeOK
      <3>3. bids' = [bids EXCEPT ![request[b].lot] =
                       Append(bids[request[b].lot], row)]
        BY <1>6 DEF AcceptBid
      <3> QED
        BY <3>2, <3>3 DEF TypeOK
    <2> QED
      BY <1>6, <2>3, <2>4 DEF AcceptBid, TypeOK, BidRequest, NoRequest
  <1>7. ASSUME NEW b \in Bidders, LoseRace(b) PROVE TypeOK'
    BY <1>7, RoundTypes DEF LoseRace, TypeOK
  <1>8. ASSUME NEW l \in Lots, NEW d \in Deadlines, ClockPasses(l, d)
        PROVE  TypeOK'
    BY <1>8 DEF ClockPasses, TypeOK
  <1>9. ASSUME NEW w \in Workers, NEW l \in Lots, Activate(w, l)
        PROVE  TypeOK'
    BY <1>9, StatusTypes DEF Activate, TypeOK, Statuses
  <1>10. ASSUME NEW w \in Workers, NEW l \in Lots, ReadForEnd(w, l)
         PROVE  TypeOK'
    <2>1. auction[l].currentHighestBidderId \in Bidders \union {Nobody}
      BY DEF TypeOK, AuctionRow
    <2> QED
      BY <1>10, <2>1 DEF ReadForEnd, TypeOK, EndCall
  <1>11. ASSUME NEW w \in Workers, CommitEnd(w) PROVE TypeOK'
    <2>1. worker[w] \in [pc : {"ending"}, lot : Lots,
                         leader : Bidders \union {Nobody}]
      BY <1>11 DEF CommitEnd, TypeOK, EndCall, Idle
    <2>2. StockAfterEnd(worker[w].lot, worker[w].leader)
            \in InventoryRow
      BY <2>1, StockArithmetic, StockAssumption DEF StockAfterEnd, TypeOK
    <2>3. auction' \in [Lots -> AuctionRow]
      <3>1. auction[worker[w].lot] \in AuctionRow
        BY <2>1 DEF TypeOK
      <3> QED
        BY <1>11, <2>1, <3>1, EndOutcomes, EndRowTypes DEF TypeOK
    <2>4. /\ stock' \in InventoryRow
          /\ announced' \in [Lots -> Bidders \union {Nobody}]
          /\ worker' \in [Workers -> EndCall]
      BY <1>11, <2>1, <2>2 DEF CommitEnd, TypeOK, EndCall
    <2> QED
      BY <1>11, <2>3, <2>4 DEF CommitEnd, TypeOK
  <1>12. ASSUME NEW w \in Workers, AbandonEnd(w) PROVE TypeOK'
    BY <1>12 DEF AbandonEnd, TypeOK, EndCall
  <1>13. ASSUME NEW w \in Workers, NEW l \in Lots, ExpireWindow(w, l)
         PROVE  TypeOK'
    <2>1. Release(stock, Quantity[l]) \in InventoryRow
      BY StockArithmetic, StockAssumption DEF TypeOK
    <2>2. auction' \in [Lots -> AuctionRow]
      BY <1>13, StatusTypes DEF ExpireWindow, TypeOK, Statuses
    <2>3. stock' \in InventoryRow
      BY <1>13, <2>1 DEF ExpireWindow, TypeOK
    <2> QED
      BY <1>13, <2>2, <2>3 DEF ExpireWindow, TypeOK
  <1>14. ASSUME NEW c \in Claims, NEW b \in Bidders, NEW l \in Lots,
                CheckWinner(c, b, l)
         PROVE  TypeOK'
    <2>1. auction[l].currentHighestBid \in Nat
      BY DEF TypeOK, AuctionRow
    <2> QED
      BY <1>14, <2>1 DEF CheckWinner, TypeOK, ClaimCall
  <1>15. ASSUME NEW c \in Claims, CommitClaim(c) PROVE TypeOK'
    <2>1. claim[c] \in [pc : {"checked"}, lot : Lots, buyer : Bidders,
                        price : Nat]
      BY <1>15 DEF CommitClaim, TypeOK, ClaimCall, Idle
    <2>2. orders' \in [Lots -> Seq(OrderRow)]
      <3> DEFINE row == [buyer |-> claim[c].buyer, price |-> claim[c].price]
      <3>1. row \in OrderRow
        BY <2>1 DEF OrderRow
      <3>2. Append(orders[claim[c].lot], row) \in Seq(OrderRow)
        BY <2>1, <3>1 DEF TypeOK
      <3>3. orders' = [orders EXCEPT ![claim[c].lot] =
                         Append(orders[claim[c].lot], row)]
        BY <1>15 DEF CommitClaim
      <3> QED
        BY <3>2, <3>3 DEF TypeOK
    <2>3. auction' \in [Lots -> AuctionRow]
      BY <1>15, <2>1, StatusTypes DEF CommitClaim, TypeOK, Statuses
    <2> QED
      BY <1>15, <2>2, <2>3 DEF CommitClaim, TypeOK, ClaimCall
  <1>16. ASSUME NEW c \in Claims, RefuseClaim(c) PROVE TypeOK'
    BY <1>16 DEF RefuseClaim, TypeOK, ClaimCall
  <1>17. ASSUME NEW on \in BOOLEAN, SetListed(on) PROVE TypeOK'
    BY <1>17 DEF SetListed, TypeOK
  <1>18. CASE UNCHANGED vars
    BY <1>18 DEF vars, TypeOK
  <1> QED
    BY <1>1, <1>2, <1>3, <1>4, <1>5, <1>6, <1>7, <1>8, <1>9, <1>10, <1>11,
       <1>12, <1>13, <1>14, <1>15, <1>16, <1>17, <1>18 DEF Next

(* The state of the auctions, of the stock and of every call in flight is   *)
(* always of its type; in particular no interleaving of holds and releases  *)
(* takes a stock counter below zero.                                        *)
THEOREM TypeCorrect == Spec => []TypeOK
  BY TypeInit, TypeStep, PTL DEF Spec

-----------------------------------------------------------------------------
(* The ladder of bids *)

(* What a placeBid call read stays true of the row until the version moves: *)
(* this is what makes the version check in tryAcceptBid sufficient.         *)
ReadsAreSnapshots ==
  \A b \in Bidders :
    request[b].pc = "read" =>
      /\ request[b].version <= auction[request[b].lot].version
      /\ request[b].version = auction[request[b].lot].version =>
           request[b].amount >= MinAcceptable(auction[request[b].lot])

LadderInv == TypeOK /\ BidLadder /\ ReadsAreSnapshots

(* Every step other than an accepted bid leaves the rows' bidding columns   *)
(* and the Bid rows alone.                                                  *)
BiddingUnchanged ==
  /\ bids' = bids
  /\ \A l \in Lots :
       /\ auction'[l].version = auction[l].version
       /\ auction'[l].currentHighestBid = auction[l].currentHighestBid
       /\ auction'[l].currentHighestBidderId = auction[l].currentHighestBidderId

LEMMA StatusKeepsBidding ==
  ASSUME TypeOK, NEW l \in Lots, NEW s \in Statuses, NEW m \in Lots
  PROVE  /\ WithStatus(l, s)[m].version = auction[m].version
         /\ WithStatus(l, s)[m].currentHighestBid = auction[m].currentHighestBid
         /\ WithStatus(l, s)[m].currentHighestBidderId
              = auction[m].currentHighestBidderId
  BY DEF TypeOK, WithStatus, AuctionRow

LEMMA OthersKeepBidding ==
  ASSUME TypeOK, [Next]_vars, \A b \in Bidders : ~AcceptBid(b)
  PROVE  BiddingUnchanged
  <1> USE DEF BiddingUnchanged
  <1>1. ASSUME NEW l \in Lots, CheckNoLiveLot(l) PROVE BiddingUnchanged
    BY <1>1, StatusKeepsBidding DEF CheckNoLiveLot, Statuses
  <1>2. ASSUME NEW l \in Lots, NEW past \in SUBSET {Start, End},
               CommitAuction(l, past)
        PROVE  BiddingUnchanged
    BY <1>2, StatusKeepsBidding DEF CommitAuction, Statuses
  <1>3. ASSUME NEW l \in Lots, RefuseAuction(l) PROVE BiddingUnchanged
    BY <1>3, StatusKeepsBidding DEF RefuseAuction, Statuses
  <1>4. ASSUME NEW w \in Workers, NEW l \in Lots,
               Activate(w, l) \/ ExpireWindow(w, l)
        PROVE  BiddingUnchanged
    BY <1>4, StatusKeepsBidding DEF Activate, ExpireWindow, Statuses
  <1>5. ASSUME NEW w \in Workers, CommitEnd(w) PROVE BiddingUnchanged
    <2>1. worker[w] \in [pc : {"ending"}, lot : Lots,
                         leader : Bidders \union {Nobody}]
      BY <1>5 DEF CommitEnd, TypeOK, EndCall, Idle
    <2>2. bids' = bids
      BY <1>5 DEF CommitEnd
    <2>3. ASSUME NEW m \in Lots, NEW row,
                 \/ row = [auction[m] EXCEPT !.status = "ENDED",
                                            !.checkoutDeadline = TRUE]
                 \/ row = [auction[m] EXCEPT !.status = "EXPIRED",
                                            !.checkoutDeadline = FALSE]
          PROVE  /\ row.version = auction[m].version
                 /\ row.currentHighestBid = auction[m].currentHighestBid
                 /\ row.currentHighestBidderId
                      = auction[m].currentHighestBidderId
      <3>1. auction[m] \in AuctionRow
        BY DEF TypeOK
      <3> QED
        BY <2>3, <3>1 DEF AuctionRow
    <2>4. ASSUME NEW m \in Lots
          PROVE  /\ auction'[m].version = auction[m].version
                 /\ auction'[m].currentHighestBid = auction[m].currentHighestBid
                 /\ auction'[m].currentHighestBidderId
                      = auction[m].currentHighestBidderId
      <3>1. \/ auction'[m] = auction[m]
            \/ auction'[m] = [auction[m] EXCEPT !.status = "ENDED",
                                               !.checkoutDeadline = TRUE]
            \/ auction'[m] = [auction[m] EXCEPT !.status = "EXPIRED",
                                               !.checkoutDeadline = FALSE]
        BY <1>5, EndOutcomes DEF TypeOK
      <3> QED
        BY <2>3, <3>1
    <2> QED
      BY <2>2, <2>4
  <1>6. ASSUME NEW c \in Claims, CommitClaim(c) PROVE BiddingUnchanged
    <2>1. claim[c].lot \in Lots
      BY <1>6 DEF CommitClaim, TypeOK, ClaimCall, Idle
    <2> QED
      BY <1>6, <2>1, StatusKeepsBidding DEF CommitClaim, Statuses
  <1>7. CASE UNCHANGED << auction, bids >>
    BY <1>7
  <1>8. \/ UNCHANGED << auction, bids >>
        \/ \E l \in Lots : CheckNoLiveLot(l) \/ RefuseAuction(l)
        \/ \E l \in Lots, past \in SUBSET {Start, End} : CommitAuction(l, past)
        \/ \E w \in Workers, l \in Lots : Activate(w, l) \/ ExpireWindow(w, l)
        \/ \E w \in Workers : CommitEnd(w)
        \/ \E c \in Claims : CommitClaim(c)
    BY DEF Next, vars, ReadForBid, ReadAgain, LoseRace, ClockPasses,
           ReadForEnd, AbandonEnd, CheckWinner, RefuseClaim, SetListed
  <1> QED
    BY <1>1, <1>2, <1>3, <1>4, <1>5, <1>6, <1>7, <1>8

(* A call that is in a read state was there before, or has just read a row  *)
(* that accepts its amount; one that waits for a retry was there before, or *)
(* has just lost a round to a newer version.                                *)
LEMMA RequestSteps ==
  ASSUME TypeOK, [Next]_vars, NEW b \in Bidders
  PROVE  \/ request'[b] = request[b]
         \/ request'[b].pc = "idle"
         \/ /\ request'[b].pc = "read"
            /\ request'[b].lot \in Lots
            /\ request'[b].version = auction[request'[b].lot].version
            /\ request'[b].amount >= MinAcceptable(auction[request'[b].lot])
            /\ \/ request'[b].attempt = 0
               \/ /\ request[b].pc = "retry"
                  /\ request'[b].lot = request[b].lot
                  /\ request'[b].attempt = request[b].attempt
         \/ /\ request'[b].pc = "retry"
            /\ request[b].pc = "read"
            /\ request[b].version # auction[request[b].lot].version
            /\ request'[b].lot = request[b].lot
            /\ request'[b].attempt = request[b].attempt + 1
  <1>1. ASSUME NEW c \in Bidders, NEW l \in Lots, NEW a \in Amounts,
               ReadForBid(c, l, a), b = c
        PROVE  /\ request'[b].pc = "read"
               /\ request'[b].lot \in Lots
               /\ request'[b].version = auction[request'[b].lot].version
               /\ request'[b].amount >= MinAcceptable(auction[request'[b].lot])
               /\ request'[b].attempt = 0
    BY <1>1 DEF ReadForBid, Acceptable, TypeOK
  <1>2. ASSUME ReadAgain(b)
        PROVE  \/ request'[b].pc = "idle"
               \/ /\ request'[b].pc = "read"
                  /\ request'[b].lot \in Lots
                  /\ request'[b].version = auction[request'[b].lot].version
                  /\ request'[b].amount
                       >= MinAcceptable(auction[request'[b].lot])
                  /\ request[b].pc = "retry"
                  /\ request'[b].lot = request[b].lot
                  /\ request'[b].attempt = request[b].attempt
    <2>1. request[b] \in [pc : {"retry"}, lot : Lots, amount : Amounts,
                          attempt : Nat]
      BY <1>2 DEF ReadAgain, TypeOK, BidRequest, NoRequest
    <2>2. request'[b] = NextRound(request[b])
      BY <1>2 DEF ReadAgain, TypeOK
    <2> QED
      BY <2>1, <2>2 DEF NextRound, Acceptable, NoRequest
  <1>3. ASSUME AcceptBid(b) PROVE request'[b].pc = "idle"
    BY <1>3 DEF AcceptBid, TypeOK, NoRequest
  <1>4. ASSUME LoseRace(b)
        PROVE  \/ request'[b].pc = "idle"
               \/ /\ request'[b].pc = "retry"
                  /\ request[b].pc = "read"
                  /\ request[b].version # auction[request[b].lot].version
                  /\ request'[b].lot = request[b].lot
                  /\ request'[b].attempt = request[b].attempt + 1
    <2>1. request'[b] = AfterConflict(request[b])
      BY <1>4 DEF LoseRace, TypeOK
    <2> QED
      BY <1>4, <2>1 DEF LoseRace, AfterConflict, NoRequest, VersionUnchanged
  <1>5. ASSUME NEW c \in Bidders, c # b,
               \/ \E l \in Lots, a \in Amounts : ReadForBid(c, l, a)
               \/ ReadAgain(c) \/ AcceptBid(c) \/ LoseRace(c)
        PROVE  request'[b] = request[b]
    BY <1>5 DEF ReadForBid, ReadAgain, AcceptBid, LoseRace, TypeOK
  <1>6. \/ request' = request
        \/ \E c \in Bidders :
             \/ \E l \in Lots, a \in Amounts : ReadForBid(c, l, a)
             \/ ReadAgain(c) \/ AcceptBid(c) \/ LoseRace(c)
    BY DEF Next, vars, CheckNoLiveLot, CommitAuction, RefuseAuction,
           ClockPasses, Activate, ReadForEnd, CommitEnd, AbandonEnd,
           ExpireWindow, CheckWinner, CommitClaim, RefuseClaim, SetListed
  <1> QED
    BY <1>1, <1>2, <1>3, <1>4, <1>5, <1>6

(* What an accepted bid was: as high as the row then asked. *)
LEMMA AcceptedBid ==
  ASSUME LadderInv, NEW b \in Bidders, AcceptBid(b)
  PROVE  /\ request[b].lot \in Lots
         /\ request[b].amount \in Amounts
         /\ request[b].amount >= MinAcceptable(auction[request[b].lot])
  <1>1. request[b] \in [pc : {"read"}, lot : Lots, amount : Amounts,
                        attempt : Nat, version : Nat]
    BY DEF AcceptBid, LadderInv, TypeOK, BidRequest, NoRequest
  <1>2. request[b].version = auction[request[b].lot].version
    BY DEF AcceptBid, VersionUnchanged
  <1> QED
    BY <1>1, <1>2 DEF LadderInv, ReadsAreSnapshots

(* The row and the rows of bids after an accepted bid. *)
LEMMA AcceptedRows ==
  ASSUME LadderInv, NEW b \in Bidders, AcceptBid(b), NEW l \in Lots
  PROVE  /\ l = request[b].lot =>
              /\ bids'[l] = Append(bids[l], [bidder |-> b,
                                             amount |-> request[b].amount])
              /\ auction'[l].version = auction[l].version + 1
              /\ auction'[l].currentHighestBid = request[b].amount
              /\ auction'[l].currentHighestBidderId = b
         /\ l # request[b].lot =>
              /\ bids'[l] = bids[l]
              /\ auction'[l] = auction[l]
  <1>1. auction[l] \in AuctionRow
    BY DEF LadderInv, TypeOK
  <1>2. CASE l = request[b].lot
    <2> DEFINE new == [auction[l] EXCEPT
                         !.currentHighestBid = request[b].amount,
                         !.currentHighestBidderId = b,
                         !.version = auction[l].version + 1]
    <2>1. auction'[l] = new
      BY <1>2 DEF AcceptBid, LadderInv, TypeOK
    <2>2. /\ new.version = auction[l].version + 1
          /\ new.currentHighestBid = request[b].amount
          /\ new.currentHighestBidderId = b
      BY <1>1 DEF AuctionRow
    <2>3. bids'[l] = Append(bids[l], [bidder |-> b,
                                      amount |-> request[b].amount])
      BY <1>2 DEF AcceptBid, LadderInv, TypeOK
    <2> QED
      BY <1>2, <2>1, <2>2, <2>3
  <1>3. CASE l # request[b].lot
    BY <1>3 DEF AcceptBid, LadderInv, TypeOK
  <1> QED
    BY <1>2, <1>3

(* A bid that meets the row's minimum extends the ladder. *)
LEMMA LadderGrows ==
  ASSUME NEW row \in AuctionRow, NEW s \in Seq(BidRow), Ladder(row, s),
         NEW new \in BidRow, new.amount >= MinAcceptable(row),
         NEW next,
         next.version = row.version + 1,
         next.currentHighestBid = new.amount,
         next.currentHighestBidderId = new.bidder
  PROVE  Ladder(next, Append(s, new))
  <1> DEFINE n == Len(s)
             t == Append(s, new)
  <1>1. /\ n \in Nat
        /\ Len(t) = n + 1
        /\ t[n + 1] = new
        /\ \A i \in 1 .. n : t[i] = s[i]
    OBVIOUS
  <1>2. \A i \in 1 .. n : s[i].amount \in Nat \ {0}
    <2>1. \A i \in 1 .. n : s[i] \in BidRow
      OBVIOUS
    <2> QED
      BY <2>1, PriceAssumption DEF BidRow
  <1>3. row.version = n
    BY DEF Ladder
  <1>4. new.amount \in Nat
    BY PriceAssumption DEF BidRow
  <1>5. t[1].amount >= StartingPrice
    <2>1. CASE n = 0
      BY <1>1, <2>1 DEF Ladder, MinAcceptable
    <2>2. CASE n > 0
      BY <1>1, <2>2 DEF Ladder
    <2> QED
      BY <1>1, <2>1, <2>2
  <1>6. \A i \in 1 .. n : t[i + 1].amount >= t[i].amount + MinBidIncrement
    <2> SUFFICES ASSUME NEW i \in 1 .. n
                 PROVE  t[i + 1].amount >= t[i].amount + MinBidIncrement
      OBVIOUS
    <2>1. CASE i = n
      <3>1. row.currentHighestBid = s[n].amount
        BY <1>1, <2>1 DEF Ladder
      <3>2. row.currentHighestBid # 0
        BY <1>1, <1>2, <2>1, <3>1
      <3>3. new.amount >= s[n].amount + MinBidIncrement
        BY <3>1, <3>2 DEF MinAcceptable
      <3> QED
        BY <1>1, <2>1, <3>3
    <2>2. CASE i # n
      <3>1. i \in 1 .. n - 1 /\ i + 1 \in 1 .. n
        BY <1>1, <2>2
      <3>2. s[i + 1].amount >= s[i].amount + MinBidIncrement
        BY <3>1 DEF Ladder
      <3> QED
        BY <1>1, <3>1, <3>2
    <2> QED
      BY <2>1, <2>2
  <1>7. /\ next.version = n + 1
        /\ next.currentHighestBid = t[n + 1].amount
        /\ next.currentHighestBidderId = t[n + 1].bidder
    BY <1>1, <1>3
  <1> HIDE DEF n, t
  <1>8. Ladder(next, t)
    BY <1>1, <1>5, <1>6, <1>7 DEF Ladder
  <1> QED
    BY <1>8 DEF t

LEMMA LadderInit == Init => LadderInv
  BY TypeInit
  DEF Init, LadderInv, BidLadder, Ladder, ReadsAreSnapshots, NoRequest

LEMMA LadderStep == LadderInv /\ [Next]_vars => LadderInv'
  <1> SUFFICES ASSUME LadderInv, [Next]_vars PROVE LadderInv'
    OBVIOUS
  <1>1. TypeOK /\ TypeOK'
    BY TypeStep DEF LadderInv
  <1>2. CASE \E b \in Bidders : AcceptBid(b)
    <2> PICK b \in Bidders : AcceptBid(b)
      BY <1>2
    <2>1. BidLadder'
      <3> SUFFICES ASSUME NEW l \in Lots PROVE Ladder(auction'[l], bids'[l])
        BY DEF BidLadder
      <3>1. /\ auction[l] \in AuctionRow
            /\ bids[l] \in Seq(BidRow)
            /\ Ladder(auction[l], bids[l])
        BY DEF LadderInv, TypeOK, BidLadder
      <3>2. CASE l = request[b].lot
        <4> DEFINE new == [bidder |-> b, amount |-> request[b].amount]
        <4>1. new \in BidRow /\ new.amount >= MinAcceptable(auction[l])
          BY <3>2, AcceptedBid DEF BidRow
        <4>2. /\ bids'[l] = Append(bids[l], new)
              /\ auction'[l].version = auction[l].version + 1
              /\ auction'[l].currentHighestBid = new.amount
              /\ auction'[l].currentHighestBidderId = new.bidder
          BY <3>2, AcceptedRows
        <4> HIDE DEF new
        <4> QED
          BY <3>1, <4>1, <4>2, LadderGrows
      <3>3. CASE l # request[b].lot
        BY <3>1, <3>3, AcceptedRows
      <3> QED
        BY <3>2, <3>3
    <2>2. ReadsAreSnapshots'
      <3> SUFFICES
            ASSUME NEW c \in Bidders, request'[c].pc = "read"
            PROVE  LET row == auction'[request'[c].lot] IN
                   /\ request'[c].version <= row.version
                   /\ request'[c].version = row.version =>
                        request'[c].amount >= MinAcceptable(row)
        BY DEF ReadsAreSnapshots, MinAcceptable
      <3>1. request'[b].pc = "idle" /\ (c # b => request'[c] = request[c])
        BY DEF AcceptBid, LadderInv, TypeOK, NoRequest
      <3>2. request[c] \in [pc : {"read"}, lot : Lots, amount : Amounts,
                            attempt : Nat, version : Nat]
        BY <3>1 DEF LadderInv, TypeOK, BidRequest, NoRequest
      <3>3. /\ auction[request[c].lot].version \in Nat
            /\ request[c].version <= auction[request[c].lot].version
        BY <3>2 DEF LadderInv, TypeOK, AuctionRow, ReadsAreSnapshots
      <3> DEFINE l == request[c].lot
      <3>. request'[c] = request[c] /\ l \in Lots
        BY <3>1, <3>2
      <3>4. CASE l = request[b].lot
        <4>1. auction'[l].version = auction[l].version + 1
          BY <3>4, AcceptedRows
        <4>2. request[c].version < auction'[l].version
          BY <3>2, <3>3, <4>1
        <4> QED
          BY <3>2, <3>3, <4>1, <4>2
      <3>5. CASE l # request[b].lot
        <4>1. auction'[l] = auction[l]
          BY <3>5, AcceptedRows
        <4> QED
          BY <3>1, <4>1 DEF LadderInv, ReadsAreSnapshots
      <3> QED
        BY <3>4, <3>5
    <2> QED
      BY <1>1, <2>1, <2>2 DEF LadderInv
  <1>3. CASE \A b \in Bidders : ~AcceptBid(b)
    <2>1. BiddingUnchanged
      BY <1>1, <1>3, OthersKeepBidding
    <2>2. \A l \in Lots :
            MinAcceptable(auction'[l]) = MinAcceptable(auction[l])
      BY <2>1 DEF BiddingUnchanged, MinAcceptable
    <2>3. BidLadder'
      BY <2>1 DEF LadderInv, BidLadder, Ladder, BiddingUnchanged
    <2>4. ReadsAreSnapshots'
      <3> SUFFICES
            ASSUME NEW b \in Bidders, request'[b].pc = "read"
            PROVE  LET row == auction'[request'[b].lot] IN
                   /\ request'[b].version <= row.version
                   /\ request'[b].version = row.version =>
                        request'[b].amount >= MinAcceptable(row)
        BY DEF ReadsAreSnapshots, MinAcceptable
      <3>1. /\ request'[b].lot \in Lots
            /\ request'[b].version \in Nat
            /\ auction[request'[b].lot].version \in Nat
        BY <1>1 DEF TypeOK, BidRequest, NoRequest, AuctionRow
      <3>2. /\ request'[b].version <= auction[request'[b].lot].version
            /\ request'[b].version = auction[request'[b].lot].version =>
                 request'[b].amount
                   >= MinAcceptable(auction[request'[b].lot])
        BY <1>1, <3>1, RequestSteps DEF LadderInv, ReadsAreSnapshots
      <3> QED
        BY <2>1, <2>2, <3>1, <3>2 DEF BiddingUnchanged
    <2> QED
      BY <1>1, <2>3, <2>4 DEF LadderInv
  <1> QED
    BY <1>2, <1>3

(* The optimistic lock of tryAcceptBid loses no update: whatever calls,     *)
(* deadlines and checkouts interleave, an Auction row is always what its    *)
(* Bid rows say, and the bids of a lot rise by the increment.               *)
THEOREM BidsAreNeverLost == Spec => []BidLadder
  <1>1. LadderInv => BidLadder
    BY DEF LadderInv
  <1> QED
    BY LadderInit, LadderStep, <1>1, PTL DEF Spec

-----------------------------------------------------------------------------
(* Refinement: bids are atomic *)

(* Placing bids through reads, guarded writes and retries implements the    *)
(* book whose bids are judged and recorded in one step.                     *)
THEOREM BidsImplementBook == Spec => BidsAreAtomic
  <1>1. Init => Book!Init
    BY DEF Init, Book!Init
  <1>2. LadderInv /\ [Next]_vars => [Book!Next]_bids
    <2> SUFFICES ASSUME LadderInv, [Next]_vars PROVE [Book!Next]_bids
      OBVIOUS
    <2>1. CASE \E b \in Bidders : AcceptBid(b)
      <3> PICK b \in Bidders : AcceptBid(b)
        BY <2>1
      <3> DEFINE l == request[b].lot
                 a == request[b].amount
      <3>1. l \in Lots /\ a \in Amounts /\ a >= MinAcceptable(auction[l])
        BY AcceptedBid
      <3>2. a >= Book!MinNext(bids[l])
        <4>1. bids[l] \in Seq(BidRow) /\ Ladder(auction[l], bids[l])
          BY <3>1 DEF LadderInv, TypeOK, BidLadder
        <4>2. CASE bids[l] = << >>
          BY <3>1, <4>1, <4>2 DEF Ladder, MinAcceptable, Book!MinNext
        <4>3. CASE bids[l] # << >>
          <5> DEFINE last == bids[l][Len(bids[l])]
          <5>1. Len(bids[l]) > 0 /\ last \in BidRow
            BY <4>1, <4>3
          <5>2. last.amount # 0
            BY <5>1, PriceAssumption DEF BidRow
          <5>3. auction[l].currentHighestBid = last.amount
            BY <4>1, <5>1 DEF Ladder
          <5> QED
            BY <3>1, <4>3, <5>2, <5>3 DEF MinAcceptable, Book!MinNext
        <4> QED
          BY <4>2, <4>3
      <3>3. bids' = [bids EXCEPT ![l] =
                       Append(bids[l], [bidder |-> b, amount |-> a])]
        BY DEF AcceptBid
      <3>4. Book!Accept(l, b, a)
        BY <3>2, <3>3 DEF Book!Accept
      <3> QED
        BY <3>1, <3>4 DEF Book!Next
    <2>2. CASE \A b \in Bidders : ~AcceptBid(b)
      BY <2>2, OthersKeepBidding DEF LadderInv, BiddingUnchanged
    <2> QED
      BY <2>1, <2>2
  <1> QED
    BY LadderInit, LadderStep, <1>1, <1>2, PTL DEF Spec, BidsAreAtomic, Book!Spec

-----------------------------------------------------------------------------
(* Lost rounds *)

(* Each round a call has lost was lost to a bid that landed: the rounds are *)
(* counted by the version the call read, and that by the row's version.     *)
RoundsAreCounted ==
  \A b \in Bidders :
    /\ request[b].pc = "read" => request[b].attempt <= request[b].version
    /\ request[b].pc = "retry" =>
         request[b].attempt <= auction[request[b].lot].version

ProgressInv == LadderInv /\ RoundsAreCounted

LEMMA VersionsGrow ==
  ASSUME LadderInv, [Next]_vars, NEW l \in Lots
  PROVE  /\ auction[l].version \in Nat
         /\ auction'[l].version \in Nat
         /\ auction[l].version <= auction'[l].version
  <1>1. TypeOK /\ TypeOK'
    BY TypeStep DEF LadderInv
  <1>2. auction[l].version \in Nat /\ auction'[l].version \in Nat
    BY <1>1 DEF TypeOK, AuctionRow
  <1>3. CASE \E b \in Bidders : AcceptBid(b)
    <2> PICK b \in Bidders : AcceptBid(b)
      BY <1>3
    <2>1. \/ auction'[l].version = auction[l].version + 1
          \/ auction'[l].version = auction[l].version
      BY AcceptedRows
    <2> QED
      BY <1>2, <2>1
  <1>4. CASE \A b \in Bidders : ~AcceptBid(b)
    BY <1>1, <1>2, <1>4, OthersKeepBidding DEF BiddingUnchanged
  <1> QED
    BY <1>2, <1>3, <1>4

LEMMA ProgressStep == ProgressInv /\ [Next]_vars => ProgressInv'
  <1> SUFFICES ASSUME ProgressInv, [Next]_vars PROVE ProgressInv'
    OBVIOUS
  <1>1. LadderInv /\ LadderInv' /\ TypeOK /\ TypeOK'
    BY LadderStep DEF ProgressInv, LadderInv
  <1>2. ASSUME NEW b \in Bidders
        PROVE  /\ request'[b].pc = "read" =>
                    request'[b].attempt <= request'[b].version
               /\ request'[b].pc = "retry" =>
                    request'[b].attempt <= auction'[request'[b].lot].version
    <2>1. CASE request'[b].pc = "read"
      <3>1. request'[b] \in [pc : {"read"}, lot : Lots, amount : Amounts,
                             attempt : Nat, version : Nat]
        BY <1>1, <2>1 DEF TypeOK, BidRequest, NoRequest
      <3> QED
        BY <1>1, <2>1, <3>1, RequestSteps, VersionsGrow
        DEF ProgressInv, RoundsAreCounted
    <2>2. CASE request'[b].pc = "retry"
      <3>1. request'[b] \in [pc : {"retry"}, lot : Lots, amount : Amounts,
                             attempt : Nat]
        BY <1>1, <2>2 DEF TypeOK, BidRequest, NoRequest
      <3>2. CASE request'[b] = request[b]
        BY <1>1, <2>2, <3>1, <3>2, VersionsGrow
        DEF ProgressInv, RoundsAreCounted
      <3>3. CASE request'[b] # request[b]
        <4>1. /\ request[b].pc = "read"
              /\ request[b].version # auction[request[b].lot].version
              /\ request'[b].lot = request[b].lot
              /\ request'[b].attempt = request[b].attempt + 1
          BY <1>1, <2>2, <3>3, RequestSteps
        <4>2. request[b] \in [pc : {"read"}, lot : Lots, amount : Amounts,
                              attempt : Nat, version : Nat]
          BY <1>1, <4>1 DEF TypeOK, BidRequest, NoRequest
        <4>3. /\ request[b].attempt <= request[b].version
              /\ request[b].version <= auction[request[b].lot].version
          BY <1>1, <4>1
          DEF ProgressInv, RoundsAreCounted, LadderInv, ReadsAreSnapshots
        <4>4. request[b].attempt + 1 <= auction[request[b].lot].version
          BY <1>1, <4>1, <4>2, <4>3, VersionsGrow
        <4> QED
          BY <1>1, <4>1, <4>2, <4>4, VersionsGrow, <2>2
      <3> QED
        BY <3>2, <3>3
    <2> QED
      BY <2>1, <2>2
  <1> QED
    BY <1>1, <1>2 DEF ProgressInv, RoundsAreCounted

(* A call only loses a round to a bid that landed on its lot.              *)
THEOREM LostRoundsAreLandedBids == Spec => []ConflictMeansProgress
  <1>1. Init => ProgressInv
    BY LadderInit DEF ProgressInv, RoundsAreCounted, Init, NoRequest
  <1>2. ProgressInv => ConflictMeansProgress
    <2> SUFFICES ASSUME ProgressInv, NEW b \in Bidders, request[b].pc # "idle"
                 PROVE  request[b].attempt <= auction[request[b].lot].version
      BY DEF ConflictMeansProgress
    <2>1. /\ request[b] \in BidRequest
          /\ request[b].lot \in Lots
          /\ request[b].attempt \in Nat
      BY DEF ProgressInv, LadderInv, TypeOK, BidRequest, NoRequest
    <2>2. auction[request[b].lot].version \in Nat
      BY <2>1 DEF ProgressInv, LadderInv, TypeOK, AuctionRow
    <2>3. CASE request[b].pc = "read"
      <3>1. request[b].version \in Nat
        BY <2>1, <2>3 DEF BidRequest, NoRequest
      <3> QED
        BY <2>1, <2>2, <2>3, <3>1
        DEF ProgressInv, RoundsAreCounted, LadderInv, ReadsAreSnapshots
    <2>4. CASE request[b].pc = "retry"
      BY <2>4 DEF ProgressInv, RoundsAreCounted
    <2> QED
      BY <2>1, <2>3, <2>4 DEF BidRequest, NoRequest
  <1> QED
    BY <1>1, <1>2, ProgressStep, PTL DEF Spec

-----------------------------------------------------------------------------
(* The status of a lot *)

MovesForward(l) ==
  \/ auction'[l].status = auction[l].status
  \/ auction'[l].status \in Successors[auction[l].status]

(* A guarded status change (transitionStatusIfCurrent, and createAuction)   *)
(* moves its own lot along an edge of Successors and no other lot.          *)
LEMMA StatusMoves ==
  ASSUME TypeOK, NEW l \in Lots, NEW s \in Statuses,
         auction' = WithStatus(l, s), s \in Successors[auction[l].status],
         NEW m \in Lots
  PROVE  MovesForward(m)
  <1>1. auction[l] \in AuctionRow
    BY DEF TypeOK
  <1>2. CASE m = l
    <2>1. auction'[m] = [auction[l] EXCEPT !.status = s]
      BY <1>2 DEF TypeOK, WithStatus
    <2>2. auction'[m].status = s
      BY <1>1, <2>1 DEF AuctionRow
    <2> QED
      BY <1>2, <2>2 DEF MovesForward
  <1>3. CASE m # l
    BY <1>3 DEF TypeOK, WithStatus, MovesForward
  <1> QED
    BY <1>2, <1>3

LEMMA EveryStepMovesForward ==
  ASSUME TypeOK, [Next]_vars, NEW m \in Lots
  PROVE  MovesForward(m)
  <1>1. ASSUME NEW l \in Lots, CheckNoLiveLot(l) PROVE MovesForward(m)
    BY <1>1, StatusMoves DEF CheckNoLiveLot, StatusIs, Successors, Statuses
  <1>2. ASSUME NEW l \in Lots, NEW past \in SUBSET {Start, End},
               CommitAuction(l, past)
        PROVE  MovesForward(m)
    BY <1>2, StatusMoves DEF CommitAuction, StatusIs, Successors, Statuses
  <1>3. ASSUME NEW l \in Lots, RefuseAuction(l) PROVE MovesForward(m)
    BY <1>3, StatusMoves DEF RefuseAuction, StatusIs, Successors, Statuses
  <1>4. ASSUME NEW w \in Workers, NEW l \in Lots, Activate(w, l)
        PROVE  MovesForward(m)
    BY <1>4, StatusMoves
    DEF Activate, StatusIs, Successors, Statuses, MovesForward
  <1>5. ASSUME NEW w \in Workers, NEW l \in Lots, ExpireWindow(w, l)
        PROVE  MovesForward(m)
    BY <1>5, StatusMoves
    DEF ExpireWindow, StatusIs, Successors, Statuses, MovesForward
  <1>6. ASSUME NEW c \in Claims, CommitClaim(c) PROVE MovesForward(m)
    <2>1. claim[c].lot \in Lots
      BY <1>6 DEF CommitClaim, TypeOK, ClaimCall, Idle
    <2> QED
      BY <1>6, <2>1, StatusMoves
      DEF CommitClaim, StatusIs, Successors, Statuses, MovesForward
  <1>7. ASSUME NEW w \in Workers, CommitEnd(w) PROVE MovesForward(m)
    <2>1. worker[w].lot \in Lots
      BY <1>7 DEF CommitEnd, TypeOK, EndCall, Idle
    <2>2. CASE ~StatusIs(worker[w].lot, "ACTIVE") \/ m # worker[w].lot
      BY <1>7, <2>2, EndOutcomes DEF CommitEnd, TypeOK, MovesForward
    <2>3. CASE StatusIs(m, "ACTIVE") /\ m = worker[w].lot
      <3>1. auction[m] \in AuctionRow
        BY DEF TypeOK
      <3>2. \/ auction'[m] = auction[m]
            \/ auction'[m] = [auction[m] EXCEPT !.status = "ENDED",
                                               !.checkoutDeadline = TRUE]
            \/ auction'[m] = [auction[m] EXCEPT !.status = "EXPIRED",
                                               !.checkoutDeadline = FALSE]
        BY <1>7, <2>3, EndOutcomes DEF TypeOK
      <3>3. auction'[m].status \in {"ACTIVE", "ENDED", "EXPIRED"}
        BY <2>3, <3>1, <3>2 DEF AuctionRow, StatusIs
      <3> QED
        BY <2>3, <3>3 DEF StatusIs, MovesForward, Successors
    <2> QED
      BY <2>2, <2>3
  <1>8. ASSUME NEW b \in Bidders, AcceptBid(b) PROVE MovesForward(m)
    <2>1. request[b].lot \in Lots
      BY <1>8 DEF AcceptBid, TypeOK, BidRequest, NoRequest
    <2>2. auction[m] \in AuctionRow
      BY DEF TypeOK
    <2>3. \/ auction'[m] = auction[m]
          \/ auction'[m] = [auction[m] EXCEPT
                              !.currentHighestBid = request[b].amount,
                              !.currentHighestBidderId = b,
                              !.version = auction[m].version + 1]
      BY <1>8, <2>1 DEF AcceptBid, TypeOK
    <2> QED
      BY <2>2, <2>3 DEF MovesForward, AuctionRow
  <1>9. CASE UNCHANGED auction
    BY <1>9 DEF MovesForward
  <1> QED
    BY <1>1, <1>2, <1>3, <1>4, <1>5, <1>6, <1>7, <1>8, <1>9
    DEF Next, vars, ReadForBid, ReadAgain, LoseRace, ClockPasses,
        ReadForEnd, AbandonEnd, CheckWinner, RefuseClaim, SetListed

(* Whichever of the workers, the bidders and the winner get there first, no *)
(* lot ever moves backwards or leaves COMPLETED or EXPIRED.                 *)
THEOREM NoLotMovesBack == Spec => LotsMoveForward
  <1>1. TypeOK /\ [Next]_vars =>
          [\A l \in Lots :
             \/ auction'[l].status = auction[l].status
             \/ auction'[l].status \in Successors[auction[l].status]]_vars
    BY EveryStepMovesForward DEF MovesForward
  <1> QED
    BY TypeCorrect, <1>1, PTL DEF Spec, LotsMoveForward

-----------------------------------------------------------------------------
(* The units that lots hold *)

(* A lot that joins the holders brings its units, none of them counted yet. *)
LEMMA HoldsGrow ==
  ASSUME NEW S \in SUBSET Lots, IsFiniteSet(UnitsOf(S)), NEW l \in Lots, l \notin S
  PROVE  /\ IsFiniteSet(UnitsOf(S \union {l}))
         /\ Cardinality(UnitsOf(S \union {l})) = Cardinality(UnitsOf(S)) + Quantity[l]
  <1> DEFINE U == {l} \X (1 .. Quantity[l])
  <1>1. UnitsOf(S \union {l}) = UnitsOf(S) \union U
    BY DEF UnitsOf
  <1>2. UnitsOf(S) \intersect U = {}
    BY DEF UnitsOf
  <1>3. Quantity[l] \in Nat
    BY StockAssumption
  <1>4. IsFiniteSet(U) /\ Cardinality(U) = Quantity[l]
    <2>1. IsFiniteSet({l}) /\ Cardinality({l}) = 1
      BY FS_Singleton
    <2>2. IsFiniteSet(1 .. Quantity[l]) /\ Cardinality(1 .. Quantity[l]) = Quantity[l]
      BY <1>3, FS_Interval
    <2>3. IsFiniteSet(U) /\ Cardinality(U) = Cardinality({l}) * Cardinality(1 .. Quantity[l])
      BY <2>1, <2>2, FS_Product
    <2> QED
      BY <1>3, <2>1, <2>2, <2>3
  <1>5. Cardinality(UnitsOf(S)) \in Nat
    BY FS_CardinalityType
  <1> HIDE DEF U
  <1>6. /\ IsFiniteSet(UnitsOf(S) \union U)
        /\ Cardinality(UnitsOf(S) \union U)
             = Cardinality(UnitsOf(S)) + Cardinality(U) - Cardinality(UnitsOf(S) \intersect U)
    BY <1>4, FS_Union
  <1>7. Cardinality(UnitsOf(S) \intersect U) = 0
    BY <1>2, FS_EmptySet, Zenon
  <1>8. Cardinality(UnitsOf(S) \union U) = Cardinality(UnitsOf(S)) + Quantity[l]
    BY <1>3, <1>4, <1>5, <1>6, <1>7
  <1> QED
    BY <1>1, <1>6, <1>8

(* And a lot that leaves them takes exactly its own away. *)
LEMMA HoldsShrink ==
  ASSUME NEW S \in SUBSET Lots, IsFiniteSet(UnitsOf(S)), NEW l \in S
  PROVE  /\ IsFiniteSet(UnitsOf(S \ {l}))
         /\ Cardinality(UnitsOf(S)) = Cardinality(UnitsOf(S \ {l})) + Quantity[l]
  <1>1. UnitsOf(S \ {l}) \in SUBSET UnitsOf(S)
    BY DEF UnitsOf
  <1>2. IsFiniteSet(UnitsOf(S \ {l}))
    BY <1>1, FS_Subset
  <1>3. (S \ {l}) \union {l} = S
    OBVIOUS
  <1> QED
    BY <1>2, <1>3, HoldsGrow

HoldInv == TypeOK /\ IsFiniteSet(UnitsOf(HoldingLots)) /\ EveryHoldReleasedOnce

(* What a step does to the holders goes with what it does to the stock. *)
HoldsMove ==
  \/ HoldingLots' = HoldingLots /\ stock' = stock
  \/ \E l \in Lots \ HoldingLots : /\ HoldingLots' = HoldingLots \union {l}
                                   /\ stock' = Reserve(stock, Quantity[l])
  \/ \E l \in HoldingLots : /\ HoldingLots' = HoldingLots \ {l}
                            /\ stock' = Release(stock, Quantity[l])

(* Which lots hold units after one lot's status is written. *)
LEMMA StatusMovesHold ==
  ASSUME TypeOK, NEW l \in Lots, NEW s \in Statuses,
         auction' = WithStatus(l, s)
  PROVE  HoldingLots' = IF s \in {"SCHEDULED", "ACTIVE", "ENDED", "COMPLETED"}
                        THEN HoldingLots \union {l} ELSE HoldingLots \ {l}
  <1>1. /\ auction'[l].status = s
        /\ \A m \in Lots \ {l} : auction'[m].status = auction[m].status
    BY DEF TypeOK, WithStatus, AuctionRow
  <1> QED
    BY <1>1 DEF HoldingLots

LEMMA HoldsMoveTogether == TypeOK /\ [Next]_vars => HoldsMove
  <1> SUFFICES ASSUME TypeOK, [Next]_vars PROVE HoldsMove
    OBVIOUS
  <1>1. ASSUME NEW l \in Lots, CheckNoLiveLot(l) \/ RefuseAuction(l) PROVE HoldsMove
    <2>1. l \notin HoldingLots /\ stock' = stock
      BY <1>1 DEF CheckNoLiveLot, RefuseAuction, StatusIs, HoldingLots
    <2>2. HoldingLots' = HoldingLots \ {l}
      BY <1>1, StatusMovesHold DEF CheckNoLiveLot, RefuseAuction, Statuses
    <2> QED
      BY <2>1, <2>2 DEF HoldsMove
  <1>2. ASSUME NEW l \in Lots, NEW past \in SUBSET {Start, End}, CommitAuction(l, past)
        PROVE  HoldsMove
    <2>1. l \notin HoldingLots /\ stock' = Reserve(stock, Quantity[l])
      BY <1>2 DEF CommitAuction, StatusIs, HoldingLots
    <2>2. HoldingLots' = HoldingLots \union {l}
      BY <1>2, StatusMovesHold DEF CommitAuction, Statuses
    <2> QED
      BY <2>1, <2>2 DEF HoldsMove
  <1>3. ASSUME NEW b \in Bidders, AcceptBid(b) PROVE HoldsMove
    <2>1. request[b].lot \in Lots
      BY <1>3 DEF AcceptBid, TypeOK, BidRequest, NoRequest
    <2>2. \A l \in Lots : auction'[l].status = auction[l].status
      BY <1>3, <2>1 DEF AcceptBid, TypeOK, AuctionRow
    <2> QED
      BY <1>3, <2>2 DEF AcceptBid, HoldsMove, HoldingLots
  <1>4. ASSUME NEW w \in Workers, NEW l \in Lots, Activate(w, l) PROVE HoldsMove
    <2>1. stock' = stock
      BY <1>4 DEF Activate
    <2>2. CASE StatusIs(l, "SCHEDULED")
      <3>1. HoldingLots' = HoldingLots \union {l}
        BY <1>4, <2>2, StatusMovesHold DEF Activate, Statuses
      <3> QED
        BY <2>1, <2>2, <3>1 DEF HoldsMove, HoldingLots, StatusIs
    <2>3. CASE ~StatusIs(l, "SCHEDULED")
      BY <1>4, <2>1, <2>3 DEF Activate, HoldsMove, HoldingLots
    <2> QED
      BY <2>2, <2>3
  <1>5. ASSUME NEW w \in Workers, CommitEnd(w) PROVE HoldsMove
    <2> DEFINE l == worker[w].lot
    <2>1. l \in Lots
      BY <1>5 DEF CommitEnd, TypeOK, EndCall, Idle
    <2>2. CASE ~StatusIs(l, "ACTIVE")
      BY <1>5, <2>2 DEF CommitEnd, HoldsMove, HoldingLots
    <2>3. CASE StatusIs(l, "ACTIVE")
      <3>1. l \in HoldingLots
        BY <2>1, <2>3 DEF StatusIs, HoldingLots
      <3>2. auction[l] \in AuctionRow /\ auction \in [Lots -> AuctionRow]
        BY <2>1 DEF TypeOK
      <3>3. CASE worker[w].leader # Nobody
        <4>1. /\ auction' = [auction EXCEPT ![l] =
                    [auction[l] EXCEPT !.status = "ENDED", !.checkoutDeadline = TRUE]]
              /\ stock' = stock
          BY <1>5, <2>3, <3>3 DEF CommitEnd, StockAfterEnd
        <4> QED
          BY <2>1, <3>1, <3>2, <4>1 DEF HoldsMove, HoldingLots, AuctionRow
      <3>4. CASE worker[w].leader = Nobody
        <4>1. /\ auction' = [auction EXCEPT ![l] =
                    [auction[l] EXCEPT !.status = "EXPIRED", !.checkoutDeadline = FALSE]]
              /\ stock' = Release(stock, Quantity[l])
          BY <1>5, <2>3, <3>4 DEF CommitEnd, StockAfterEnd
        <4>2. HoldingLots' = HoldingLots \ {l}
          BY <2>1, <3>1, <3>2, <4>1 DEF HoldingLots, AuctionRow
        <4> QED
          BY <3>1, <4>1, <4>2 DEF HoldsMove
      <3> QED
        BY <3>3, <3>4
    <2> QED
      BY <2>2, <2>3
  <1>6. ASSUME NEW w \in Workers, NEW l \in Lots, ExpireWindow(w, l) PROVE HoldsMove
    <2>1. CASE ~StatusIs(l, "ENDED")
      BY <1>6, <2>1 DEF ExpireWindow, HoldsMove, HoldingLots
    <2>2. CASE StatusIs(l, "ENDED")
      <3>1. l \in HoldingLots /\ stock' = Release(stock, Quantity[l])
        BY <1>6, <2>2 DEF ExpireWindow, StatusIs, HoldingLots
      <3>2. HoldingLots' = HoldingLots \ {l}
        BY <1>6, <2>2, StatusMovesHold DEF ExpireWindow, Statuses
      <3> QED
        BY <3>1, <3>2 DEF HoldsMove
    <2> QED
      BY <2>1, <2>2
  <1>7. ASSUME NEW c \in Claims, CommitClaim(c) PROVE HoldsMove
    <2>1. claim[c].lot \in Lots /\ stock' = stock
      BY <1>7 DEF CommitClaim, TypeOK, ClaimCall, Idle
    <2>2. CASE StatusIs(claim[c].lot, "ENDED")
      <3>1. HoldingLots' = HoldingLots \union {claim[c].lot}
        BY <1>7, <2>1, <2>2, StatusMovesHold DEF CommitClaim, Statuses
      <3> QED
        BY <2>1, <2>2, <3>1 DEF HoldsMove, HoldingLots, StatusIs
    <2>3. CASE ~StatusIs(claim[c].lot, "ENDED")
      BY <1>7, <2>1, <2>3 DEF CommitClaim, HoldsMove, HoldingLots
    <2> QED
      BY <2>2, <2>3
  <1>8. CASE UNCHANGED << auction, stock >>
    BY <1>8 DEF HoldsMove, HoldingLots
  <1>9. \/ UNCHANGED << auction, stock >>
        \/ \E l \in Lots : CheckNoLiveLot(l) \/ RefuseAuction(l)
        \/ \E l \in Lots, past \in SUBSET {Start, End} : CommitAuction(l, past)
        \/ \E b \in Bidders : AcceptBid(b)
        \/ \E w \in Workers, l \in Lots : Activate(w, l) \/ ExpireWindow(w, l)
        \/ \E w \in Workers : CommitEnd(w)
        \/ \E c \in Claims : CommitClaim(c)
    BY DEF Next, vars, ReadForBid, ReadAgain, LoseRace, ClockPasses,
           ReadForEnd, AbandonEnd, CheckWinner, RefuseClaim, SetListed
  <1> QED
    BY <1>1, <1>2, <1>3, <1>4, <1>5, <1>6, <1>7, <1>8, <1>9

LEMMA HoldStep == HoldInv /\ [Next]_vars => HoldInv'
  <1> SUFFICES ASSUME HoldInv, [Next]_vars PROVE HoldInv'
    OBVIOUS
  <1> DEFINE held == Cardinality(UnitsOf(HoldingLots))
  <1>1. TypeOK /\ TypeOK' /\ HoldsMove
    BY TypeStep, HoldsMoveTogether DEF HoldInv
  <1>2. /\ IsFiniteSet(UnitsOf(HoldingLots)) /\ held \in Nat
        /\ stock.reserved = held
        /\ HoldingLots \in SUBSET Lots
    BY FS_CardinalityType DEF HoldInv, EveryHoldReleasedOnce, HoldingLots
  <1>3. UnitsOf(HoldingLots)' = UnitsOf(HoldingLots')
    BY DEF UnitsOf
  <1>4. CASE HoldingLots' = HoldingLots /\ stock' = stock
    BY <1>1, <1>2, <1>3, <1>4 DEF HoldInv, EveryHoldReleasedOnce
  <1>5. ASSUME NEW l \in Lots \ HoldingLots,
               HoldingLots' = HoldingLots \union {l}, stock' = Reserve(stock, Quantity[l])
        PROVE  HoldInv'
    <2>1. /\ IsFiniteSet(UnitsOf(HoldingLots'))
          /\ Cardinality(UnitsOf(HoldingLots')) = held + Quantity[l]
      BY <1>2, <1>5, HoldsGrow
    <2>2. stock'.reserved = stock.reserved + Quantity[l]
      BY <1>5 DEF Reserve
    <2> QED
      BY <1>1, <1>2, <1>3, <2>1, <2>2 DEF HoldInv, EveryHoldReleasedOnce
  <1>6. ASSUME NEW l \in HoldingLots,
               HoldingLots' = HoldingLots \ {l}, stock' = Release(stock, Quantity[l])
        PROVE  HoldInv'
    <2>1. /\ IsFiniteSet(UnitsOf(HoldingLots'))
          /\ held = Cardinality(UnitsOf(HoldingLots')) + Quantity[l]
      BY <1>2, <1>6, HoldsShrink
    <2>2. Quantity[l] \in Nat /\ Cardinality(UnitsOf(HoldingLots')) \in Nat
      BY <1>2, <2>1, StockAssumption, FS_CardinalityType
    <2>3. stock'.reserved = stock.reserved - Quantity[l]
      BY <1>2, <1>6, <2>1, <2>2 DEF Release
    <2> QED
      BY <1>1, <1>2, <1>3, <2>1, <2>2, <2>3 DEF HoldInv, EveryHoldReleasedOnce
  <1> QED
    BY <1>1, <1>4, <1>5, <1>6 DEF HoldsMove

(* The reserved stock is the units of the lots that may still be won or      *)
(* have been claimed, one for one: neither two deadline workers, a           *)
(* redelivered job nor a late claim releases a lot's units twice.            *)
THEOREM HoldsAreReleasedOnce == Spec => []EveryHoldReleasedOnce
  <1>1. Init => HoldInv
    <2>1. ASSUME Init PROVE UnitsOf(HoldingLots) = {} /\ stock.reserved = 0
      BY <2>1 DEF Init, HoldingLots, UnitsOf
    <2> QED
      BY <2>1, TypeInit, FS_EmptySet DEF HoldInv, EveryHoldReleasedOnce
  <1>2. HoldInv => EveryHoldReleasedOnce
    BY DEF HoldInv
  <1> QED
    BY <1>1, <1>2, HoldStep, PTL DEF Spec

=============================================================================
