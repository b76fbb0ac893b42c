-------------------------------- MODULE Screens --------------------------------
(***************************************************************************)
(* The screens of the frontend: for whom the router opens one, what it has *)
(* to load, where it leads and what it lets its viewer do.  The frontend   *)
(* repeats the rules of the API (Access) as a convenience, route by route  *)
(* and button by button; it goes by the role in the access token.          *)
(*                                                                         *)
(* A screen is the name of its route and the row in its path.  Whether the *)
(* status of a row hides a button is left out: it is there if some status  *)
(* shows it.                                                               *)
(***************************************************************************)
EXTENDS Access

-----------------------------------------------------------------------------
(* The router *)

SellerArea ==
  {"seller", "sellerProducts", "sellerNewProduct", "sellerProduct", "sellerAuctions",
   "sellerOrders", "sellerDisputes", "sellerDispute"}
AdminArea == {"admin", "adminSellers", "adminProducts", "adminOrders", "adminDisputes"}

ProtectedRoute(c, roles) == SignedIn(c) /\ (roles = {} \/ Has(c, roles))

Opens(c, screen) ==
  CASE screen[1] \in SellerArea -> ProtectedRoute(c, {"SELLER"})
    [] screen[1] \in AdminArea  -> ProtectedRoute(c, {"ADMIN"})
    [] OTHER                    -> ProtectedRoute(c, {})

Static(names) == {<< name >> : name \in names}
About(name, rows) == {<< name, row >> : row \in rows}

(* What a screen is to its viewer: whether the API answers all it asks to   *)
(* load, the screens it links to, and whether the API accepts every button. *)
Screen(loads, links, accepted) ==
  [loads |-> loads, links |-> links, accepted |-> accepted]

-----------------------------------------------------------------------------
(* Buttons: for each that is shown, whether its request would be accepted. *)

(* Not shown to the seller of the lot, who is known by his profile. *)
PlaceBidForm(c, g) == << "shop", OwnerOf[g] >> \in FindMyProfile(c) \/ OwnerOf[g] # c.user
(* Shown to the winner, as the API sees him. *)
AuctionCheckout(c, g) == << "leads", g, c.user >> \in FindPublicAuction(c, g) => leader[g] = c.user

(* It goes by the status of the SellerOrder alone, and the API refuses a     *)
(* second dispute while one awaits a decision.                               *)
RaiseDisputeButton(c, p) == FindSellerOrderAsBuyer(c, p) /\ ~Disputed(p)
SellerOrderStatusControl(c, p) == UpdateSellerOrderStatus(c, p) # {}
AddReply(c, d) == CanReadDispute(c, d)
ResolveDisputeControl(c, d) == ResolveDispute(c, d) # {}
ReviewSellerApplicationControl(c) == ListSellerApplications(c) # {}
ModerateProductControl(c, g) == ModerateProduct(c, g) # {}
CreateProductForm(c) == AsSeller(c)
EditProduct(c, g) == ChangeProduct(c, g) # {}
CreateAuctionForm(c, g) == AsSeller(c) /\ OwnerOf[g] = c.user
ApplySellerForm(c) == Profiled(c.user) \/ Has(c, {"CUSTOMER"})
LeaveReviewForm(c, p) == Buyer(p) = c.user
EditProfileNameForm(c) == UpdateUser(c, c.user) # {}
MarkReadButton(c, n) == ReadNotification(c, n) # {}

-----------------------------------------------------------------------------
(* Everybody's screens *)

HomePage(c) == Screen(TRUE, About("product", Listed \ hidden), TRUE)

(* Reviews are written on the page of the product. *)
ProductReviews(c) == \A pending \in ListReviewable(c) : LeaveReviewForm(c, pending[2])
ProductDetailPage(c, g) ==
  Screen(FindByIdForCatalog(g) # {}, About("auction", {g} \cap OnAuction), ProductReviews(c))

AuctionDetailPage(c, g) ==
  Screen(FindPublicAuction(c, g) # {}, {}, PlaceBidForm(c, g) /\ AuctionCheckout(c, g))

MyAuctionsPage(c) ==
  Screen(SignedIn(c), About("auction", FindAuctionsForBidder(c.user)), TRUE)

(* Any product may be a line of the cart, one that was archived since too. *)
Lines == Listed
LinesLoad == \A g \in Lines : FindByIdForCatalog(g) # {}
CartPage(c) ==
  Screen(GetCart(c) # {} /\ LinesLoad, {<< "checkout" >>} \union About("product", Lines), TRUE)

(* Leads to the order it places. *)
CheckoutPage(c) ==
  Screen(GetCart(c) # {} /\ LinesLoad, About("order", {o \in Placed : BuyerOf[o] = c.user}), TRUE)

OrdersPage(c) ==
  Screen(SignedIn(c),
         About("order", {o \in Placed : Order(o) \in FindMyOrders(c)}), TRUE)

OrderDetailPage(c, o) ==
  Screen(FindOrder(c, o) # {} /\ OrderRoom(c, o) # {},
         About("product", ItemsOf[o]),
         \A p \in PartsOf(o) : RaiseDisputeButton(c, p))

DisputesPage(c) == Screen(SignedIn(c), About("dispute", ListOwnDisputes(c)), TRUE)

(* What the dispute is about: the order, and the goods in it. *)
DisputeSubject(d) ==
  {<< "order", d[2][2] >>}
    \union About("product", {g \in ItemsOf[d[2][2]] : OwnerOf[g] = Seller(d[2])})
DisputeThread(c, d) == ListComments(c, d) = CommentsOn(d)
DisputeDetailPage(c, d) ==
  Screen(FindDispute(c, d) # {} /\ DisputeThread(c, d), DisputeSubject(d), AddReply(c, d))

(* Where "view" leads: the winner is told of his lot, the seller of a new   *)
(* order, the buyer of what becomes of his.                                 *)
ActionFor(n) ==
  CASE n[3][1] = "lot" -> << "auction", n[3][2] >>
    [] n[3][1] = "part" /\ n[2] = Seller(n[3]) -> << "sellerOrders" >>
    [] OTHER -> << "order", n[3][2] >>
NotificationsPage(c) ==
  Screen(SignedIn(c), {ActionFor(n) : n \in FindNotifications(c)},
         \A n \in FindNotifications(c) : MarkReadButton(c, n))

AccountPage(c) ==
  Screen(FindUser(c, c.user) # {},
         CASE c.role = "SELLER" -> {<< "seller" >>}
           [] c.role = "ADMIN"  -> {<< "admin" >>}
           [] OTHER             -> {},
         EditProfileNameForm(c) /\ (c.role = "CUSTOMER" => ApplySellerForm(c)))

-----------------------------------------------------------------------------
(* The seller's dashboard: every tab waits for an approved profile. *)

SellerLayout(c) == Approved(c.user)
InDashboard(c, screen) == [screen EXCEPT !.loads = SellerLayout(c) /\ @]

SellerOverviewPage(c) == Screen(GetMySellerReport(c) # {}, {}, TRUE)

OwnListings(c) == {g \in Listed : << "audit", g >> \in ListOwnProducts(c)}
SellerProductsPage(c) ==
  Screen(AsSeller(c), {<< "sellerNewProduct" >>} \union About("sellerProduct", OwnListings(c)),
         \A g \in OwnListings(c) : EditProduct(c, g))
(* The image is uploaded once the product is there. *)
SellerProductNewPage(c) ==
  Screen(TRUE, About("sellerProduct", OwnListings(c)),
         CreateProductForm(c) /\ \A g \in OwnListings(c) : EditProduct(c, g))
SellerProductEditPage(c, g) ==
  Screen(FindByIdForCatalog(g) # {}, {<< "sellerAuctions" >>}, EditProduct(c, g))

(* Asked for by the seller's id, from what is public. *)
SellerAuctionsPage(c) ==
  Screen(TRUE, About("auction", {g \in OnAuction : OwnerOf[g] = c.user}),
         \A g \in Listed \ hidden : OwnerOf[g] = c.user => CreateAuctionForm(c, g))

SellerOrdersPage(c) ==
  Screen(AsSeller(c), {},
         \A p \in FindMySellerOrders(c) : SellerOrderStatusControl(c, p))
SellerDisputesPage(c) ==
  Screen(AsSeller(c), About("sellerDispute", ListDisputesForSeller(c)), TRUE)

-----------------------------------------------------------------------------
(* The administrator's dashboard *)

AdminOverviewPage(c) == Screen(Has(c, {"ADMIN"}), {}, TRUE)
AdminSellersPage(c) ==
  Screen(Has(c, {"ADMIN"}), {},
         (\E u \in Accounts : Profiled(u)) => ReviewSellerApplicationControl(c))
AdminProductsPage(c) ==
  Screen(Has(c, {"ADMIN"}), {}, \A g \in Listed : ModerateProductControl(c, g))
AdminOrdersPage(c) ==
  Screen(Has(c, {"ADMIN"}), About("order", Placed),
         \A p \in Parts : SellerOrderStatusControl(c, p))

(* Each opened dispute is loaded with its order and its thread. *)
AdminDisputesPage(c) ==
  Screen(/\ Has(c, {"ADMIN"})
         /\ \A d \in ListDisputes(c) : FindDispute(c, d) # {} /\ DisputeThread(c, d),
         UNION {DisputeSubject(d) : d \in ListDisputes(c)},
         \A d \in ListDisputes(c) : AddReply(c, d) /\ ResolveDisputeControl(c, d))

-----------------------------------------------------------------------------
SellerScreen(c, s) ==
  CASE s[1] = "seller"         -> SellerOverviewPage(c)
    [] s[1] = "sellerProducts" -> SellerProductsPage(c)
    [] s[1] = "sellerNewProduct" -> SellerProductNewPage(c)
    [] s[1] = "sellerProduct"  -> SellerProductEditPage(c, s[2])
    [] s[1] = "sellerAuctions" -> SellerAuctionsPage(c)
    [] s[1] = "sellerOrders"   -> SellerOrdersPage(c)
    [] s[1] = "sellerDisputes" -> SellerDisputesPage(c)
    [] s[1] = "sellerDispute"  -> DisputeDetailPage(c, s[2])

AdminScreen(c, s) ==
  CASE s[1] = "admin"         -> AdminOverviewPage(c)
    [] s[1] = "adminSellers"  -> AdminSellersPage(c)
    [] s[1] = "adminProducts" -> AdminProductsPage(c)
    [] s[1] = "adminOrders"   -> AdminOrdersPage(c)
    [] s[1] = "adminDisputes" -> AdminDisputesPage(c)

ScreenOf(c, s) ==
  CASE s[1] \in SellerArea   -> InDashboard(c, SellerScreen(c, s))
    [] s[1] \in AdminArea    -> AdminScreen(c, s)
    [] s[1] = "home"          -> HomePage(c)
    [] s[1] = "product"       -> ProductDetailPage(c, s[2])
    [] s[1] = "auction"       -> AuctionDetailPage(c, s[2])
    [] s[1] = "account"       -> AccountPage(c)
    [] s[1] = "cart"          -> CartPage(c)
    [] s[1] = "checkout"      -> CheckoutPage(c)
    [] s[1] = "orders"        -> OrdersPage(c)
    [] s[1] = "order"         -> OrderDetailPage(c, s[2])
    [] s[1] = "disputes"      -> DisputesPage(c)
    [] s[1] = "dispute"       -> DisputeDetailPage(c, s[2])
    [] s[1] = "myAuctions"    -> MyAuctionsPage(c)
    [] s[1] = "notifications" -> NotificationsPage(c)

(* The links that are always there: the header, and the tabs of the two     *)
(* dashboards.                                                              *)
SellerTabs == Static({"sellerProducts", "sellerAuctions", "sellerOrders", "sellerDisputes"})
AdminTabs == Static(AdminArea)
AppHeader(c) ==
  Static({"home", "myAuctions", "disputes", "orders", "cart", "notifications",
          "account"})
    \union If(c.role = "SELLER", {<< "seller" >>} \union SellerTabs)
    \union If(c.role = "ADMIN", AdminTabs)

-----------------------------------------------------------------------------
(* Properties *)

(* The token says what the account is: no ruling on the seller's            *)
(* application since it was issued.                                         *)
UpToDate(c) == c.role = account[c.user].role

(* The one button that may be shown in vain: a dispute of the order awaits a *)
(* decision, the button to raise one stays, and its request is refused.      *)
InVain(c, s) ==
  s[1] = "order" /\ \A p \in PartsOf(s[2]) : RaiseDisputeButton(c, p) \/ Disputed(p)

Works(c, s) ==
  Opens(c, s) /\ ScreenOf(c, s).loads /\ (ScreenOf(c, s).accepted \/ InVain(c, s))

(* The links that lead nowhere: a dispute names its order to the seller,     *)
(* whom GET /orders/:id refuses, and the notices of an account that no       *)
(* longer sells still point to the seller's dashboard.                       *)
DeadEnd(c, from, to) ==
  \/ from[1] = "sellerDispute" /\ to[1] = "order"
  \/ from[1] = "notifications" /\ to[1] = "sellerOrders" /\ ~Approved(c.user)

(* With an up-to-date token every screen that can be reached in three clicks *)
(* opens, gets all it asks the API for, and shows no button whose request    *)
(* would be refused, but for the second dispute about a shipment (the role   *)
(* checks of ProtectedRoute, of the components and of the API are three      *)
(* copies of one rule).                                                      *)
ScreensWork ==
  \A c \in claims : UpToDate(c) =>
    LET Clicks(S) == UNION {{to \in ScreenOf(c, s).links : ~DeadEnd(c, s, to)} : s \in S}
        first == AppHeader(c)
        second == Clicks(first)
    IN /\ \A s \in first \union second : Works(c, s)
       /\ \A s \in Clicks(second) \ (first \union second) : Works(c, s)

=============================================================================
