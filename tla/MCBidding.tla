----------------------------- MODULE MCBidding -----------------------------
(***************************************************************************)
(* A small instance of Bidding for TLC with two scenes: in "lots" one user *)
(* bids on two lots of one product, whose creations, deadlines and claims  *)
(* race for its stock; in "rivals" two users bid on one lot, often enough  *)
(* to use up the three attempts of a bid.                                  *)
(***************************************************************************)
EXTENDS Bidding, TLC

CONSTANTS l1, l2, b1, b2

(* Lots of one and of two units, so that a hold released for the wrong lot *)
(* or twice cannot cancel out.                                              *)
LotSizes == l1 :> 1 @@ l2 :> 2

VARIABLE scene

OneBidder ==
  /\ request'[b2] = NoRequest
  /\ request'[b1].pc # "idle" => request'[b1].amount = 1

OneLot == auction'[l2] = auction[l2]

Scene ==
  CASE scene = "lots"   -> OneBidder
    [] scene = "rivals" -> OneLot

(* Enough units for both lots or for either; for the one lot of "rivals". *)
MCInit ==
  /\ Init
  /\ \/ scene = "lots" /\ stock.available \in {2, 3}
     \/ scene = "rivals" /\ stock.available = 1
MCNext == Next /\ Scene /\ UNCHANGED scene
MCSpec == MCInit /\ [][MCNext]_<< vars, scene >>
MCFairSpec == MCSpec /\ SweeperFairness /\ RequestFairness

=============================================================================
