------------------------------ MODULE MCPlatform ------------------------------
(***************************************************************************)
(* What sellers and administrators work with, in small instances for TLC.  *)
(* The scenes have no state in common.                                     *)
(*                                                                         *)
(* Of Storefront: readers, search workers and the moves of stock touch     *)
(* each other only through the product rows, so in each of the scenes      *)
(* "listings", "pages", "search" and "stock" one of them goes on next to   *)
(* the writes, readers by listing or by page, and the others rest.         *)
(*                                                                         *)
(* Of AfterSale: in "cases" two requests review and dispute one            *)
(* SellerOrder.  Of Reports: in "books" a report is compiled while an      *)
(* order is placed and cancelled.                                          *)
(***************************************************************************)
EXTENDS Storefront, AfterSale, Reports, TLC

VARIABLE scene

CONSTANTS p1, n1, n2, w1, w2, r1, r2

(* Nothing tells slots, workers or requests apart; no scene uses both slots *)
(* and requests.                                                            *)
Swap == n1 :> n2 @@ n2 :> n1 @@ r1 :> r2 @@ r2 :> r1
Symmetry == {Swap} \union Permutations({w1, w2})

-----------------------------------------------------------------------------
(* Storefront *)

OneSlug == p1 :> "p1"

Resting ==
  CASE scene = "listings" -> << stock, page, searchVars >>
    [] scene = "pages"    -> << stock, listing, lost, searchVars >>
    [] scene = "search"   -> << stock, page, listing, lost, viewer >>
    [] scene = "stock"    -> << page, listing, lost, viewer, searchVars >>

(* Three writes of a product are needed only where its stock moves: a        *)
(* restore overtaken by another and by a takedown.  Elsewhere there are two, *)
(* and they overlap only where the listings are read: a bump that waits for  *)
(* another.                                                                  *)
FewWrites ==
  /\ scene # "stock" => product'[p1].rev <= 2
  /\ scene \in {"pages", "search"} => \E r \in Slots : slot'[r].pc = "idle"

-----------------------------------------------------------------------------
(* AfterSale and Reports *)

Quantities == [so \in Baskets \X Shops |-> 1 + so[2]]
Prices == [so \in Baskets \X Shops |-> 3 * Quantities[so]]
Fees == [so \in Baskets \X Shops |-> 1]

(* A report is of the platform or of the first seller, on the last day; its *)
(* figures are read in one order.  Meanwhile at most one change commits, and *)
(* none begins or fails.                                                    *)
Order == << "totals", "chart", "topSellers", "previousTotals", "orders", "topProducts",
            "previousOrders", "conversion" >>
InOrder == SelectSeq(Order, LAMBDA part : part \in FiguresFor(report'.seller))
ShortReports ==
  /\ report'.pc = "reading" =>
       /\ report'.seller \in {1, Missing}
       /\ DOMAIN report'.seen = {InOrder[i] : i \in 1 .. Cardinality(DOMAIN report'.seen)}
  /\ report' # NoReport => clock = LastInstant
  /\ report # NoReport =>
       /\ \A part \in DOMAIN report.seen : Len(log') <= report.seen[part] + 1
       /\ open' # open => log' # log

(* The first seller has a part in every order. *)
FirstSellerSells == \A o \in Baskets : open'[o].op = "sale" => 1 \in open'[o].shops

-----------------------------------------------------------------------------

Aisles == {"listings", "pages", "search", "stock"}

MCInit ==
  /\ scene \in Aisles \union {"cases", "books"}
  /\ StorefrontInit /\ Init /\ ReportsInit
  /\ scene \in Aisles \/ product[p1] = NoProduct

MCNext ==
  /\ UNCHANGED scene
  /\ \/ /\ scene \in Aisles /\ StorefrontNext /\ UNCHANGED Resting
        /\ FewWrites
        /\ UNCHANGED << vars, reportVars >>
     \/ scene = "cases" /\ Next /\ UNCHANGED << storefrontVars, reportVars >>
     \/ /\ scene = "books" /\ ReportsNext /\ ShortReports /\ FirstSellerSells
        /\ UNCHANGED << storefrontVars, vars >>

MCSpec == MCInit /\ [][MCNext]_<< storefrontVars, vars, reportVars, scene >>

=============================================================================
