------------------------------- MODULE Access -------------------------------
(***************************************************************************)
(* What the API shows to whom.  Every read route of the controllers is the *)
(* set of facts it answers a caller with: the guards look at the token, the *)
(* services at the rows, and each module has its own way of asking whose a *)
(* row is.  The routes that change something answer with the row they      *)
(* changed, so they are here as well; what they do to it is in the modules *)
(* of their components.                                                    *)
(*                                                                         *)
(* A fact names a row, or the part of a row that a route may leave out.    *)
(***************************************************************************)
EXTENDS Naturals, FiniteSets

CONSTANTS
  Accounts,
  Staff,      \* the accounts with the role ADMIN, which no code gives or takes
  Founders,   \* the accounts that sell from the start
  Guest,
  Wares,
  OwnerOf,    \* OwnerOf[g]: the seller of g
  Purchases,  \* the orders that may be placed
  BuyerOf,    \* BuyerOf[o]
  ItemsOf,    \* ItemsOf[o]: the goods in it
  MaxRows     \* bound: rows made

ASSUME AccountAssumption ==
  /\ Staff \subseteq Accounts /\ Founders \subseteq Accounts \ Staff
  /\ Guest \notin Accounts
ASSUME WareAssumption == OwnerOf \in [Wares -> Accounts \ Staff]
ASSUME PurchaseAssumption ==
  /\ BuyerOf \in [Purchases -> Accounts] /\ ItemsOf \in [Purchases -> SUBSET Wares]
  /\ \A o \in Purchases : \A g \in ItemsOf[o] : OwnerOf[g] # BuyerOf[o]
ASSUME RowAssumption == MaxRows \in Nat

VARIABLES
  account,  \* account[u]: its role and the status of its seller profile
  claims,   \* the access tokens: whose, and the role written into it
  made,     \* the rows there are
  hidden,   \* the goods whose listing is archived
  leader    \* leader[g]: the highest bidder for g

accessVars == << account, claims, made, hidden, leader >>

-----------------------------------------------------------------------------
(* Rows *)

SellersIn(o) == {OwnerOf[g] : g \in ItemsOf[o]}
Order(o) == << "order", o >>
Part(o, s) == << "part", o, s >>
PartsOf(o) == {Part(o, s) : s \in SellersIn(o)}

Placed == {o \in Purchases : Order(o) \in made}
Parts == UNION {PartsOf(o) : o \in Placed}
Buyer(part) == BuyerOf[part[2]]
Seller(part) == part[3]

RowOfReview(p) == << "review", p >>
RowOfDispute(p, raiser) == << "dispute", p, raiser >>
RowOfComment(d, author) == << "comment", d, author >>
RowOfRuling(d) == << "ruling", d >>
RowOfNotice(u, p) == << "notice", u, p >>

Of(kind) == {row \in made : row[1] = kind}
Listed == {g \in Wares : << "listing", g >> \in made}
OnAuction == {g \in Wares : << "lot", g >> \in made}
BidOn(g, u) == << "bid", g, u >> \in made

-----------------------------------------------------------------------------
(* Who calls.  A token is good until it expires whatever becomes of the     *)
(* account; without one a caller is nobody.                                 *)
Visitor == [user |-> Guest, role |-> "NONE"]
Callers == claims \union {Visitor}

(* RolesGuard, behind JwtAuthGuard. *)
Has(c, roles) == c.role \in roles
SignedIn(c) == c.user # Guest
IsAdmin(c) == c.role = "ADMIN"

(* SellersService: the caller's own profile, in any state or approved. *)
Registered(u) == account[u].role # "NONE"
Profiled(u) == u \in Accounts /\ account[u].profile # "NONE"
Approved(u) == u \in Accounts /\ account[u].profile = "APPROVED"

(* The routes of the seller's dashboard ask for both. *)
AsSeller(c) == Has(c, {"SELLER"}) /\ Approved(c.user)

(* S if the route lets the caller through. *)
If(passes, S) == IF passes THEN S ELSE {}

-----------------------------------------------------------------------------
(* OrdersController *)

WholeOrder(o) == {Order(o)} \union PartsOf(o)

FindByBuyerId(u) == UNION {WholeOrder(o) : o \in {o \in Placed : BuyerOf[o] = u}}
FindMyOrders(c) == FindByBuyerId(c.user)
OwnsOrderOrIsAdmin(c, o) == IsAdmin(c) \/ BuyerOf[o] = c.user
FindOrder(c, o) == If(OwnsOrderOrIsAdmin(c, o), WholeOrder(o))

(* A seller's list has his part alone, without the buyer. *)
FindBySeller(s) == {p \in Parts : Seller(p) = s}
FindMySellerOrders(c) == If(AsSeller(c), FindBySeller(c.user))
AllOrders == UNION {WholeOrder(o) : o \in Placed}
ListOrders(c) == If(Has(c, {"ADMIN"}), AllOrders)

(* The two sides of a SellerOrder. *)
OwnsSellerOrderOrIsAdmin_SomeSeller(c, p) == IsAdmin(c) \/ Approved(c.user)
OwnsSellerOrderOrIsAdmin(c, p) == IsAdmin(c) \/ (Approved(c.user) /\ Seller(p) = c.user)
FindSellerOrderAsBuyer(c, p) == IsAdmin(c) \/ Buyer(p) = c.user

UpdateSellerOrderStatus(c, p) ==
  If(Has(c, {"SELLER", "ADMIN"}) /\ OwnsSellerOrderOrIsAdmin(c, p), {p})

-----------------------------------------------------------------------------
(* ProductsController: the catalogue has its own projection, without the    *)
(* moderation's audit trail.                                                *)

ToCatalogProduct(g) == << "listing", g >>
ProductRows(S) == {<< "listing", g >> : g \in S} \union {<< "audit", g >> : g \in S}

FindAllForCatalog == {ToCatalogProduct(g) : g \in Listed \ hidden}
FindByIdForCatalog(g) == {ToCatalogProduct(g)}
ListOwnProducts(c) ==
  If(AsSeller(c),
     ProductRows({g \in Listed : OwnerOf[g] = c.user}))
ListProductsForModeration(c) == If(Has(c, {"ADMIN"}), ProductRows(Listed))

OwnsProductOrIsAdmin(c, g) == IsAdmin(c) \/ (Approved(c.user) /\ OwnerOf[g] = c.user)

(* update, archive, restore and uploadImage answer with the row. *)
ChangeProduct(c, g) ==
  If(Has(c, {"SELLER", "ADMIN"}) /\ OwnsProductOrIsAdmin(c, g), ProductRows({g}))
ModerateProduct(c, g) == If(Has(c, {"ADMIN"}), ProductRows({g}))

-----------------------------------------------------------------------------
(* BiddingController: a viewer learns of himself that he leads, or that a   *)
(* bid is his, and of nobody else.                                          *)

ToPublicAuction(c, g) ==
  {<< "lot", g >>} \union {<< "leads", g, u >> : u \in {c.user} \cap {leader[g]} \cap Accounts}
ToPublicBids(c, g) ==
  {<< "amounts", g >>}
    \union {<< "bidder", g, u >> : u \in {u \in Accounts : c.user = u /\ BidOn(g, u)}}

FindPublicAuctions(c) == UNION {ToPublicAuction(c, g) : g \in OnAuction}
FindPublicAuction(c, g) == ToPublicAuction(c, g)
ListPublicBids(c, g) == ToPublicBids(c, g)

(* The bidders of a lot get its row. *)
FindAuctionsForBidder(u) == {g \in OnAuction : BidOn(g, u)}
FindMyAuctions(c) ==
  UNION {{<< "lot", g >>, << "bidder", g, leader[g] >>} : g \in FindAuctionsForBidder(c.user)}

-----------------------------------------------------------------------------
(* PaymentsLedgerController *)

CanReadLedger(c, s) == Profiled(s) /\ (IsAdmin(c) \/ (Approved(c.user) /\ c.user = s))
ListLedgerForSeller(c, s) ==
  If(Has(c, {"SELLER", "ADMIN"}) /\ CanReadLedger(c, s), {<< "ledger", s >>})

(* A refund of the SellerOrder p: the two sides of it, and the staff. *)
CanReadRefund(c, p) ==
  \/ IsAdmin(c)
  \/ Profiled(c.user) /\ Seller(p) = c.user
  \/ FindSellerOrderAsBuyer(c, p)
FindRefundById(c, p) == If(SignedIn(c) /\ CanReadRefund(c, p), {<< "refund", p >>})

-----------------------------------------------------------------------------
(* DisputesController.  A dispute is its SellerOrder and its raiser, an     *)
(* admin if need be.                                                        *)

DisputesOf(raisers, sellers) ==
  {d \in Of("dispute") : d[3] \in raisers /\ Seller(d[2]) \in sellers}

ListDisputes(c) == If(Has(c, {"ADMIN"}), DisputesOf(Accounts, Accounts))
ListOwnDisputes(c) == DisputesOf({c.user}, Accounts)
ListDisputesForSeller(c) ==
  If(AsSeller(c), DisputesOf(Accounts, {c.user}))

CanReadDispute(c, d) ==
  \/ IsAdmin(c) \/ d[3] = c.user
  \/ Has(c, {"SELLER"}) /\ Profiled(c.user) /\ Seller(d[2]) = c.user
DisputeWithOrder(d) == {d, d[2]}

(* Whether a SellerOrder has a dispute that awaits a decision. *)
Disputed(p) == \E d \in Of("dispute") : d[2] = p /\ RowOfRuling(d) \notin made
FindDispute(c, d) == If(CanReadDispute(c, d), DisputeWithOrder(d))

(* The ruling goes by the role alone, and answers with the bare row. *)
ResolveDispute(c, d) == If(Has(c, {"ADMIN"}), {d})

CommentsOn(d) == {m \in Of("comment") : m[2] = d}
ListComments(c, d) == If(CanReadDispute(c, d), CommentsOn(d))

-----------------------------------------------------------------------------
(* ReviewsController: reviews are public, what is left to review is not. *)

ListReviewsForProduct == Of("review")
ListReviewable(c) ==
  {<< "pending", p >> : p \in {p \in Parts : Buyer(p) = c.user /\ RowOfReview(p) \notin made}}
ListOwnReviews(c) == {r \in Of("review") : Buyer(r[2]) = c.user}

-----------------------------------------------------------------------------
(* Users, sellers, notifications, carts and reports *)

ToPublicUser(u) == If(Registered(u), {<< "user", u >>})
FindUserForCaller(c, u) == If(IsAdmin(c) \/ c.user = u, ToPublicUser(u))
FindUser(c, u) == If(SignedIn(c), FindUserForCaller(c, u))
UpdateUserForCaller(c, u) == If(c.user = u, ToPublicUser(u))
UpdateUser(c, u) == If(SignedIn(c), UpdateUserForCaller(c, u))

FindSeller(u) == If(Profiled(u), {<< "shop", u >>})
FindMyProfile(c) == If(Profiled(c.user), {<< "shop", c.user >>})
ListSellerApplications(c) ==
  If(Has(c, {"ADMIN"}), {<< "shop", u >> : u \in {u \in Accounts : Profiled(u)}})

FindNotifications(c) == {n \in Of("notice") : n[2] = c.user}
ReadNotification(c, n) == If(n[2] = c.user, {n})

GetCart(c) == If(SignedIn(c), {<< "cart", c.user >>})

GetMySellerReport(c) ==
  If(AsSeller(c), {<< "ledger", c.user >>})
PlatformReport == {<< "ledger", u >> : u \in {u \in Accounts : Profiled(u)}}
GetAnalytics(c) == If(Has(c, {"ADMIN"}), PlatformReport)
ExportAnalytics(c) == If(Has(c, {"ADMIN"}), PlatformReport)

-----------------------------------------------------------------------------
(* RealtimeRoomsService: rooms are joined with the same token, and answer   *)
(* with a snapshot; that of a notification room is a number.                *)

OrderRoom(c, o) == If(IsAdmin(c) \/ BuyerOf[o] = c.user, {Order(o)})
SellerOrderRoom(c, p) ==
  If(IsAdmin(c) \/ Buyer(p) = c.user \/ Seller(p) = c.user, {p})
NotificationRoom(c, u) == If(IsAdmin(c) \/ c.user = u, {<< "unread", u >>})

-----------------------------------------------------------------------------
Lists(c) ==
  UNION {FindMyOrders(c), FindMySellerOrders(c), ListOrders(c),
         FindAllForCatalog, ListOwnProducts(c), ListProductsForModeration(c),
         FindPublicAuctions(c), FindMyAuctions(c),
         ListDisputes(c), ListOwnDisputes(c), ListDisputesForSeller(c),
         ListReviewsForProduct, ListReviewable(c), ListOwnReviews(c),
         ListSellerApplications(c), FindNotifications(c)}

Pages(c) ==
  UNION ({FindOrder(c, o) \union OrderRoom(c, o) : o \in Placed}
    \union {UpdateSellerOrderStatus(c, p) \union SellerOrderRoom(c, p) : p \in Parts}
    \union {FindByIdForCatalog(g) \union ChangeProduct(c, g)
              \union ModerateProduct(c, g) : g \in Listed}
    \union {FindPublicAuction(c, g) \union ListPublicBids(c, g) : g \in OnAuction}
    \union {ListLedgerForSeller(c, u) \union FindUser(c, u) \union UpdateUser(c, u)
              \union FindSeller(u) \union NotificationRoom(c, u) : u \in Accounts}
    \union {FindRefundById(c, r[2]) : r \in Of("refund")}
    \union {FindDispute(c, d) \union ListComments(c, d)
              \union ResolveDispute(c, d) : d \in Of("dispute")}
    \union {ReadNotification(c, n) : n \in Of("notice")}
    \union {FindMyProfile(c), GetCart(c), GetMySellerReport(c),
            GetAnalytics(c), ExportAnalytics(c)})

-----------------------------------------------------------------------------
(* What happens: requests that add a row, each through its own route. *)

Adds(row) ==
  /\ row \notin made /\ Cardinality(made) < MaxRows
  /\ made' = made \union {row}

(* issueTokens: the role goes into the token. *)
Holding(u, role) == claims \union {[user |-> u, role |-> role]}

Register(u) ==
  /\ ~Registered(u)
  /\ account' = [account EXCEPT ![u].role = "CUSTOMER"]
  /\ claims' = Holding(u, "CUSTOMER")
  /\ UNCHANGED << made, hidden, leader >>

Login(u) ==
  /\ Registered(u)
  /\ claims' = Holding(u, account[u].role)
  /\ UNCHANGED << account, made, hidden, leader >>

(* Find or create by email. *)
LoginWithGoogleProfile(u) == Register(u) \/ Login(u)
GoogleCallback(u) == LoginWithGoogleProfile(u)

(* apply: once, and by customers only. *)
ApplyToSell(c) ==
  /\ Has(c, {"CUSTOMER"}) /\ ~Profiled(c.user)
  /\ account' = [account EXCEPT ![c.user].profile = "PENDING"]
  /\ UNCHANGED << claims, made, hidden, leader >>

(* review, by an admin: the role follows the status, the tokens do not.      *)
(* SUSPENDED is to every reader what REJECTED is.                            *)
RoleFor_NeverTakenBack(status) == "SELLER"
RoleFor(status) == IF status = "APPROVED" THEN "SELLER" ELSE "CUSTOMER"

ReviewSeller(u, status) ==
  /\ Profiled(u)
  /\ account' = [account EXCEPT ![u] =
       [profile |-> status, role |-> RoleFor(status)]]
  /\ UNCHANGED << claims, made, hidden, leader >>

(* The same from the admin's queue. *)
ReviewSellerApplication(u, status) == ReviewSeller(u, status)

CreateProduct(c, g) ==
  /\ AsSeller(c) /\ OwnerOf[g] = c.user
  /\ Adds(<< "listing", g >>)
  /\ UNCHANGED << account, claims, hidden, leader >>

(* archive and restore; takedowns are in Catalog. *)
HideOrShow(c, g) ==
  /\ g \in Listed /\ ChangeProduct(c, g) # {}
  /\ hidden' = IF g \in hidden THEN hidden \ {g} ELSE hidden \union {g}
  /\ UNCHANGED << account, claims, made, leader >>

PlaceOrder(c, o) ==
  /\ BuyerOf[o] = c.user /\ ItemsOf[o] \subseteq Listed \ hidden
  /\ Adds(Order(o))
  /\ UNCHANGED << account, claims, hidden, leader >>

OpenAuction(c, g) ==
  /\ AsSeller(c) /\ g \in Listed /\ OwnerOf[g] = c.user
  /\ Adds(<< "lot", g >>)
  /\ UNCHANGED << account, claims, hidden, leader >>

PlaceBid(c, g) ==
  /\ SignedIn(c) /\ g \in OnAuction /\ OwnerOf[g] # c.user
  /\ made' = made \union {<< "bid", g, c.user >>} /\ Cardinality(made') <= MaxRows
  /\ leader' = [leader EXCEPT ![g] = c.user]
  /\ UNCHANGED << account, claims, hidden >>

(* The winner of a lot claims it: an order of the one ware. *)
CheckoutAuctionWin(c, o, g) ==
  /\ g \in OnAuction /\ leader[g] = c.user
  /\ BuyerOf[o] = c.user /\ ItemsOf[o] = {g} /\ g \notin hidden
  /\ Adds(Order(o))
  /\ UNCHANGED << account, claims, hidden, leader >>

(* About the SellerOrder or a line of it, of which each has one dispute open *)
(* at most; which of them a dispute is about is left out, so there may be    *)
(* several of an account's over time, of which one row stands for all.       *)
RaiseDispute(c, p) ==
  /\ FindSellerOrderAsBuyer(c, p)
  /\ Adds(RowOfDispute(p, c.user))
  /\ UNCHANGED << account, claims, hidden, leader >>

(* An admin decides it, for good here: what becomes of a ruling is in        *)
(* AfterSale.                                                                *)
GiveRuling(c, d) ==
  /\ ResolveDispute(c, d) # {}
  /\ Adds(RowOfRuling(d))
  /\ UNCHANGED << account, claims, hidden, leader >>

(* All three sides of a dispute write into its thread. *)
AddComment(c, d) ==
  /\ CanReadDispute(c, d)
  /\ Adds(RowOfComment(d, c.user))
  /\ UNCHANGED << account, claims, hidden, leader >>

WriteReview(c, p) ==
  /\ Buyer(p) = c.user
  /\ Adds(RowOfReview(p))
  /\ UNCHANGED << account, claims, hidden, leader >>

(* The consumers: the saga opens refunds, notifications go to both sides. *)
OpenRefund(p) ==
  /\ Adds(<< "refund", p >>)
  /\ UNCHANGED << account, claims, hidden, leader >>
NotifyParty(p, u) ==
  /\ u \in {Buyer(p), Seller(p)}
  /\ Adds(RowOfNotice(u, p))
  /\ UNCHANGED << account, claims, hidden, leader >>
NotifyWinner(g) ==
  /\ g \in OnAuction /\ leader[g] # Guest
  /\ Adds(RowOfNotice(leader[g], << "lot", g >>))
  /\ UNCHANGED << account, claims, hidden, leader >>

AccessInit ==
  /\ account = [u \in Accounts |->
       IF u \in Staff THEN [role |-> "ADMIN", profile |-> "NONE"]
       ELSE IF u \in Founders THEN [role |-> "SELLER", profile |-> "APPROVED"]
       ELSE [role |-> "NONE", profile |-> "NONE"]]
  /\ claims = {}
  /\ made = {<< "listing", g >> : g \in {g \in Wares : OwnerOf[g] \in Founders}}
  /\ hidden = {}
  /\ leader = [g \in Wares |-> Guest]

Calling(c) ==
  \/ ApplyToSell(c)
  \/ \E g \in Wares :
       CreateProduct(c, g) \/ HideOrShow(c, g) \/ OpenAuction(c, g) \/ PlaceBid(c, g)
  \/ \E o \in Purchases : PlaceOrder(c, o) \/ \E g \in Wares : CheckoutAuctionWin(c, o, g)
  \/ \E p \in Parts : RaiseDispute(c, p) \/ WriteReview(c, p)
  \/ \E d \in Of("dispute") : GiveRuling(c, d) \/ AddComment(c, d)

AccessNext ==
  \/ \E u \in Accounts : Register(u) \/ Login(u) \/ GoogleCallback(u)
  \/ \E c \in claims : Calling(c)
  \/ \E u \in Accounts, status \in {"PENDING", "APPROVED", "REJECTED"} :
       /\ \E c \in claims : IsAdmin(c)
       /\ ReviewSeller(u, status) \/ ReviewSellerApplication(u, status)
  \/ \E p \in Parts : OpenRefund(p) \/ \E u \in Accounts : NotifyParty(p, u)
  \/ \E g \in Wares : NotifyWinner(g)

-----------------------------------------------------------------------------
(* Properties *)

(* Whose business a fact is, apart from the staff's. *)
Parties(fact) ==
  CASE fact[1] = "order" -> {BuyerOf[fact[2]]}
    [] fact[1] = "part" -> {Buyer(fact), Seller(fact)}
    [] fact[1] \in {"refund", "pending"} -> {Buyer(fact[2]), Seller(fact[2])}
    [] fact[1] = "dispute" -> {Buyer(fact[2]), Seller(fact[2]), fact[3]}
    [] fact[1] = "comment" -> {Buyer(fact[2][2]), Seller(fact[2][2]), fact[2][3]}
    [] fact[1] = "audit" -> {OwnerOf[fact[2]]}
    [] fact[1] \in {"bidder", "leads"} -> {u \in Accounts : BidOn(fact[2], u)}
    [] fact[1] \in {"user", "ledger", "notice", "unread", "cart"} -> {fact[2]}
    [] OTHER -> Accounts \union {Guest}

Personal(fact) == fact[1] \in {"notice", "cart"}

(* No route, list or page, tells a caller of something that is not his       *)
(* business: whatever his token still claims, whoever he buys from or sells  *)
(* to.  The staff see everything but carts and notifications.                *)
PartiesOnly ==
  \A c \in Callers : \A fact \in Lists(c) \union Pages(c) :
    c.user \in Parties(fact) \/ (c.user \in Staff /\ ~Personal(fact))

(* What a list shows a caller its page opens for him, and an order's room    *)
(* opens for exactly those its page opens for ("Mirrors OrdersService.       *)
(* findById's rule deliberately", RealtimeRoomsService).                     *)
ListsOpen ==
  \A c \in Callers :
    /\ \A o \in Placed :
         /\ Order(o) \in Lists(c) => FindOrder(c, o) # {}
         /\ OrderRoom(c, o) # {} <=> FindOrder(c, o) # {}
    /\ \A p \in Lists(c) \cap Parts : SellerOrderRoom(c, p) # {}
    /\ \A p \in FindMySellerOrders(c) : UpdateSellerOrderStatus(c, p) # {}
    /\ \A d \in Of("dispute") \cap Lists(c) :
         FindDispute(c, d) # {} /\ ListComments(c, d) = CommentsOn(d)
    /\ \A g \in Listed : << "audit", g >> \in Lists(c) => ChangeProduct(c, g) # {}
    /\ \A n \in FindNotifications(c) : ReadNotification(c, n) # {}

(* Both (AccountsSeeTheirs): the guards of the controllers, the checks of    *)
(* the services and the queries of the repositories agree on whose a row is. *)
AccountsSeeTheirs == PartiesOnly /\ ListsOpen

=============================================================================
