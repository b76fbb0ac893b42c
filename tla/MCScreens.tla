------------------------------ MODULE MCScreens ------------------------------
(***************************************************************************)
(* What accounts are told and shown, in small instances for TLC.  The      *)
(* scenes have no state in common.                                         *)
(*                                                                         *)
(* Of Live: in "lot" two users' bids and the end of an auction reach a tab *)
(* that watches it, in "order" two changes of an order do, in "stock" a    *)
(* change of a product's stock, in "bell" users sign in and out while a    *)
(* notification is made, and in "people" the consumers of two facts tell   *)
(* whom they concern.                                                      *)
(*                                                                         *)
(* Of Seed: between the statements of the script the application is used   *)
(* in "shop" by everybody but the administrator of the categories, and in  *)
(* "shelves" by him alone.                                                 *)
(*                                                                         *)
(* Of Access and Screens: in "desk" accounts trade and look, and ann does  *)
(* not apply to sell.                                                      *)
(***************************************************************************)
EXTENDS Live, Seed, Screens, TLC

VARIABLE scene

-----------------------------------------------------------------------------
(* Live *)

CONSTANTS bid, end, ship, done, sold, sale, u1, u2, lot, note, ord, stk

RoomOfLot == [type |-> "auction", id |-> "a"]
RoomOfOrder == [type |-> "order", id |-> "o"]
RoomOfStock == [type |-> "product", id |-> "p"]

News(kind, status, room, u) ==
  [kind |-> kind, status |-> status, subject |-> room, user |-> u]
FactTable ==
  bid :> News("BidPlaced", "", RoomOfLot, Nobody)
    @@ end :> News("AuctionEnded", "", RoomOfLot, u1)
    @@ ship :> News("StatusChanged", "SHIPPED", RoomOfOrder, u1)
    @@ done :> News("StatusChanged", "PROCESSING", RoomOfOrder, u1)
    @@ sold :> News("InventoryUpdated", "", RoomOfStock, Nobody)
    @@ sale :> News("SellerOrderCreated", "", RoomOfOrder, u2)

HookTable ==
  lot :> RoomOfLot @@ ord :> RoomOfOrder @@ stk :> RoomOfStock
    @@ note :> [type |-> "notification", id |-> u1]

Members == [room \in {HookTable[h] : h \in DOMAIN HookTable} |-> {u1}]

Acts == [lot |-> {bid, end}, order |-> {done, ship}, stock |-> {sold},
         bell |-> {end}, people |-> {done, sale}]
Stage == [lot |-> {lot}, order |-> {ord}, stock |-> {stk},
          bell |-> {note}, people |-> {}]

OneUser ==
  /\ user' = user /\ marked' = marked /\ mails' = mails
  /\ {j \in jobs : j[2] # "realtime"} \subseteq jobs'

LiveScene ==
  /\ recorded' \subseteq Acts[scene]
  /\ \A h \in Hooks : hook'[h] # "off" => h \in Stage[scene]
  /\ scene \in {"lot", "order", "stock"} => OneUser
  /\ scene \in {"order", "people"} => drops' = drops
  /\ scene = "bell" => mails' = mails /\ parked' = parked
  /\ scene = "lot" => drops' <= 1
  /\ scene = "people" => socket' = socket /\ Cardinality(parked') <= 1

LiveInit == Init /\ (scene \notin {"bell", "order"} => user = u1)

-----------------------------------------------------------------------------
(* Seed, Access and Screens *)

CONSTANTS s1, g1, g2, r1, k1, ann, bob, cat, dan, o1, o2

OneProduct == s1 :> << g1 >>
OneLot == s1 :> g2
OneReview == << << r1, g1 >> >>
OneComplaint == << r1, g2 >>

(* bob applies to sell g1, cat sells g2; ann buys from both, bob from cat. *)
Owners == g1 :> bob @@ g2 :> cat
Buyers == o1 :> ann @@ o2 :> bob
Baskets == o1 :> {g1, g2} @@ o2 :> {g2}

Script ==
  /\ SeedNext
  /\ script' = script =>
       IF scene = "shop" THEN categories' = categories ELSE categories' # categories

-----------------------------------------------------------------------------

MCInit ==
  /\ scene \in DOMAIN Acts \union {"shop", "shelves", "desk"}
  /\ LiveInit /\ SeedInit /\ AccessInit

MCNext ==
  /\ \/ scene \in DOMAIN Acts /\ Next /\ LiveScene /\ UNCHANGED << seedVars, accessVars >>
     \/ scene \in {"shop", "shelves"} /\ Script /\ UNCHANGED << vars, accessVars >>
     \/ scene = "desk" /\ AccessNext /\ ~Profiled(ann)' /\ UNCHANGED << vars, seedVars >>
  /\ UNCHANGED scene

MCSpec == MCInit /\ [][MCNext]_<< vars, seedVars, accessVars, scene >>

=============================================================================
