------------------------------ MODULE MCOrders ------------------------------
(***************************************************************************)
(* A small instance of Orders for TLC with three scenes: in "sellers" one  *)
(* order of up to two sellers is placed, and its SellerOrders move side by *)
(* side; in "race" its seller and the admin also change one of the two at  *)
(* once; in "stock" two checkouts of one cart compete for the units of one *)
(* product.                                                                *)
(***************************************************************************)
EXTENDS Orders, TLC

CONSTANTS p1, p2, s1, s2, b1, o1, o2

(* One product per seller: an order is of one or of two SellerOrders. *)
TwoSellers == p1 :> s1 @@ p2 :> s2

VARIABLE scene

(* A cart of at most one unit of each product, checked out once; what is   *)
(* put into it afterwards is left to the other scene.                       *)
OneOrder ==
  /\ checkout'[o2] = Idle
  /\ \A p \in Products : cart'[b1][p] <= 1
  /\ parent[o1] # "NONE" => cart' = cart

(* The order is of both sellers; the second leaves its part to the admin   *)
(* and the consumer.                                                        *)
OneRace ==
  /\ OneOrder
  /\ parent[o1] = "NONE" => active' = Products
  /\ call'[s2] = Idle
  /\ raced' \subseteq {<< o1, s1 >>}
  /\ checkout'[o1].pc # "idle" => cart[b1] = [p \in Products |-> 1]

OneProduct == cart'[b1][p2] = 0

Scene ==
  CASE scene = "sellers" -> OneOrder /\ raced' = {}
    [] scene = "race"    -> OneRace
    [] scene = "stock"   -> OneProduct /\ raced' = {}

MCInit ==
  /\ Init
  /\ scene \in {"sellers", "race", "stock"}

(* One product is archived and restored, the other stays on sale. *)
MCNext ==
  /\ Next
  /\ Scene
  /\ p2 \in active'
  /\ UNCHANGED scene

MCSpec == MCInit /\ [][MCNext]_<< vars, scene >>
MCFairSpec == MCSpec /\ ConsumerFairness

=============================================================================
