------------------------------- MODULE Orders -------------------------------
(***************************************************************************)
(* Cart checkout and the life of the orders it creates: one order per      *)
(* checkout, one SellerOrder per seller in it, each moved through its       *)
(* statuses by its seller, by an admin and by the asynchronous consumer,    *)
(* with the stock, the ledger and the parent order's derived status         *)
(* following each move.                                                     *)
(*                                                                         *)
(* Modelled: CartService, OrdersService (checkout, updateSellerOrderStatus, *)
(* autoAdvanceToProcessing), OrderProcessingConsumer with                   *)
(* EventIdempotencyService, and the inventory updates they call.            *)
(*                                                                         *)
(* The database runs at READ COMMITTED: a statement sees the rows committed *)
(* before it, and the row locks of a transaction are held to its end.  A    *)
(* status change is therefore three steps: the read that decides it, made   *)
(* outside any transaction; the UPDATE that locks the SellerOrder, with the *)
(* read of its siblings; and the commit.                                    *)
(***************************************************************************)
EXTENDS Integers, FiniteSets, Inventory

CONSTANTS
  Products,      \* fixed-price products
  Seller,        \* Seller[p]: the seller of product p
  Buyers,
  Orders,        \* ids of the orders that may be placed
  Admin,         \* the admin; the other callers are the sellers
  MaxQuantity,   \* bound: the units one cart line may ask for
  InitialStock   \* units of each product on sale at the start

Sellers == {Seller[p] : p \in Products}
Callers == Sellers \union {Admin}
SellerOrders == Orders \X Sellers

ASSUME PeopleAssumption == Admin \notin Sellers
ASSUME QuantityAssumption ==
  /\ MaxQuantity \in Nat \ {0}
  /\ InitialStock \in Nat

VARIABLES
  cart,       \* cart[b]: the quantity of each product in b's cart
  active,     \* the products that are ACTIVE
  stock,      \* stock[p]: the Inventory row of p
  checkout,   \* checkout[o]: the checkout call that may create order o
  items,      \* items[o]: the quantity of each product in order o
  status,     \* status[so]: SellerOrder.status
  parent,     \* parent[o]: Order.status
  reversals,  \* reversals[so]: how often REFUND/ADJUSTMENT were appended
  call,       \* call[c]: the updateSellerOrderStatus call of caller c
  job,        \* the SellerOrderCreated job being processed
  processed,  \* the SellerOrders whose event has its ProcessedEvent row
  raced       \* history: the SellerOrders that two callers were changing at once

vars == << cart, active, stock, checkout, items, status, parent, reversals,
           call, job, processed, raced >>

-----------------------------------------------------------------------------
(* Types *)

Statuses == {"NEW", "PROCESSING", "SHIPPED", "COMPLETED", "CANCELLED"}
OrderStatuses == Statuses \union {"PARTIALLY_SHIPPED", "PARTIALLY_CANCELLED"}

Lines == [Products -> 0 .. MaxQuantity]
NoLines == [p \in Products |-> 0]

(* NONE: the row does not exist. *)
Idle == [pc |-> "idle"]
CheckoutCall == {Idle} \union
  [pc : {"loaded", "validated"}, buyer : Buyers, lines : Lines]
StatusCall == {Idle}
  \union [pc : {"checked"}, so : SellerOrders, from : Statuses, to : Statuses]
  \union [pc : {"writing"}, so : SellerOrders, from : Statuses, to : Statuses,
          aggregate : OrderStatuses]
Job == {Idle} \union
  [pc : {"writing"}, so : SellerOrders, aggregate : OrderStatuses]

TypeOK ==
  /\ cart \in [Buyers -> Lines]
  /\ active \in SUBSET Products
  /\ stock \in [Products -> InventoryRow]
  /\ checkout \in [Orders -> CheckoutCall]
  /\ items \in [Orders -> Lines]
  /\ status \in [SellerOrders -> Statuses \union {"NONE"}]
  /\ parent \in [Orders -> OrderStatuses \union {"NONE"}]
  /\ reversals \in [SellerOrders -> Nat]
  /\ call \in [Callers -> StatusCall]
  /\ job \in Job
  /\ processed \in SUBSET SellerOrders
  /\ raced \in SUBSET SellerOrders

-----------------------------------------------------------------------------
(* Helpers *)

Placed(so) == status[so] # "NONE"

(* The SellerOrders of the order of so. *)
Siblings(so) == {other \in SellerOrders : other[1] = so[1] /\ Placed(other)}

(* aggregateOrderStatus: its counts only tell which statuses occur. *)
Aggregate_AnyCancelled(S) ==
  IF "CANCELLED" \in S THEN "CANCELLED"
  ELSE IF S = {"COMPLETED"} THEN "COMPLETED"
  ELSE IF S \subseteq {"SHIPPED", "COMPLETED"} THEN "SHIPPED"
  ELSE IF S \cap {"SHIPPED", "COMPLETED"} # {} THEN "PARTIALLY_SHIPPED"
  ELSE IF "PROCESSING" \in S THEN "PROCESSING"
  ELSE "NEW"
Aggregate(S) ==
  IF S = {"CANCELLED"} THEN "CANCELLED"
  ELSE IF S = {"COMPLETED"} THEN "COMPLETED"
  ELSE IF S \subseteq {"COMPLETED", "CANCELLED"} THEN "PARTIALLY_CANCELLED"
  ELSE IF S \subseteq {"SHIPPED", "COMPLETED", "CANCELLED"} THEN "SHIPPED"
  ELSE IF S \cap {"SHIPPED", "COMPLETED"} # {} THEN "PARTIALLY_SHIPPED"
  ELSE IF S \cap {"PROCESSING", "CANCELLED"} # {} THEN "PROCESSING"
  ELSE "NEW"

(* The aggregate read inside the transaction that moves so to s: its own    *)
(* write, and its siblings as last committed.                               *)
AggregateWith_BeforeWrite(so, s) ==
  Aggregate({status[other] : other \in Siblings(so)})
AggregateWith(so, s) ==
  Aggregate({s} \union {status[other] : other \in Siblings(so) \ {so}})

(* isValidSellerOrderTransition *)
ValidTransition ==
  [NEW |-> {"PROCESSING", "CANCELLED"}, PROCESSING |-> {"SHIPPED", "CANCELLED"},
   SHIPPED |-> {"COMPLETED"}, COMPLETED |-> {}, CANCELLED |-> {}]

(* canAdminForceCancel *)
Shipped(s) == s \in {"SHIPPED", "COMPLETED"}

Allowed_CancelsTwice(c, from, to) ==
  \/ to \in ValidTransition[from]
  \/ c = Admin /\ to = "CANCELLED"
Allowed(c, from, to) ==
  \/ to \in ValidTransition[from]
  \/ c = Admin /\ to = "CANCELLED" /\ Shipped(from)

(* What an accepted move from one status to another does to a product's     *)
(* row.  The lines of a move that finds nothing reserved are skipped.       *)
StockMove_AlwaysReleased(row, q, from, to) ==
  CASE to = "CANCELLED" -> Release(row, q)
    [] to = "SHIPPED" -> Consume(row, q)
    [] OTHER -> row
StockMove(row, q, from, to) ==
  CASE to = "CANCELLED" /\ Shipped(from) -> Return(row, q)
    [] to = "CANCELLED" /\ ~Shipped(from) -> Release(row, q)
    [] to = "SHIPPED" -> Consume(row, q)
    [] OTHER -> row

(* The row lock that UPDATE "SellerOrder" takes. *)
Locked(so) ==
  \/ \E c \in Callers : call[c].pc = "writing" /\ call[c].so = so
  \/ job.pc = "writing" /\ job.so = so

-----------------------------------------------------------------------------
(* The cart, and archive/restore of products *)

AddItem(b, p) ==
  /\ p \in active
  /\ cart[b][p] < MaxQuantity
  /\ cart' = [cart EXCEPT ![b][p] = @ + 1]
  /\ UNCHANGED << active, stock, checkout, items, status, parent, reversals,
                  call, job, processed, raced >>

(* updateItemQuantity to q, and removeItem (q = 0), on an existing line. *)
ChangeItem(b, p, q) ==
  /\ cart[b][p] > 0
  /\ cart' = [cart EXCEPT ![b][p] = q]
  /\ UNCHANGED << active, stock, checkout, items, status, parent, reversals,
                  call, job, processed, raced >>

Archive(p) ==
  /\ p \in active
  /\ active' = active \ {p}
  /\ UNCHANGED << cart, stock, checkout, items, status, parent, reversals,
                  call, job, processed, raced >>

Restore(p) ==
  /\ p \notin active
  /\ active' = active \union {p}
  /\ UNCHANGED << cart, stock, checkout, items, status, parent, reversals,
                  call, job, processed, raced >>

-----------------------------------------------------------------------------
(* checkout *)

(* getOrCreateForBuyer, before the transaction. *)
LoadCart(o, b) ==
  /\ checkout[o].pc = "idle"
  /\ parent[o] = "NONE"
  /\ cart[b] # NoLines
  /\ checkout' = [checkout EXCEPT ![o] =
                    [pc |-> "loaded", buyer |-> b, lines |-> cart[b]]]
  /\ UNCHANGED << cart, active, stock, items, status, parent, reversals,
                  call, job, processed, raced >>

(* Every line is checked against the product and stock as read now. *)
Purchasable(lines) ==
  \A p \in Products :
    lines[p] > 0 => p \in active /\ CanReserve(stock[p], lines[p])

Validate(o) ==
  /\ checkout[o].pc = "loaded"
  /\ checkout' = [checkout EXCEPT ![o] =
                    IF Purchasable(@.lines)
                    THEN [@ EXCEPT !.pc = "validated"]
                    ELSE Idle]
  /\ UNCHANGED << cart, active, stock, items, status, parent, reversals,
                  call, job, processed, raced >>

(* executeOrderTransaction and completeCheckout: every line is reserved by  *)
(* a guarded UPDATE, the rows are created, the cart is emptied.             *)
CommitCheckout(o) ==
  LET lines == checkout[o].lines
      sellers == {Seller[p] : p \in {x \in Products : lines[x] > 0}}
  IN
  /\ checkout[o].pc = "validated"
  /\ \A p \in Products : CanReserve(stock[p], lines[p])
  /\ stock' = [p \in Products |-> Reserve(stock[p], lines[p])]
  /\ items' = [items EXCEPT ![o] = lines]
  /\ status' = [so \in SellerOrders |->
                  IF so[1] = o /\ so[2] \in sellers THEN "NEW" ELSE status[so]]
  /\ parent' = [parent EXCEPT ![o] = "NEW"]
  /\ cart' = [cart EXCEPT ![checkout[o].buyer] = NoLines]
  /\ checkout' = [checkout EXCEPT ![o] = Idle]
  /\ UNCHANGED << active, reversals, call, job, processed, raced >>

(* A line just sold out (409), or the database aborted the transaction: a   *)
(* deadlock of two checkouts' row locks, a timeout, a lost connection.      *)
RollBackCheckout(o) ==
  /\ checkout[o].pc # "idle"
  /\ checkout' = [checkout EXCEPT ![o] = Idle]
  /\ UNCHANGED << cart, active, stock, items, status, parent, reversals,
                  call, job, processed, raced >>

-----------------------------------------------------------------------------
(* updateSellerOrderStatus *)

(* findSellerOrderById, ownership and the transition check, on a status     *)
(* read before the transaction.  Nothing keeps another caller's request     *)
(* from being under way on the same SellerOrder.                            *)
CheckTransition(c, so, to) ==
  /\ call[c].pc = "idle"
  /\ Placed(so)
  /\ c = Admin \/ c = so[2]
  /\ Allowed(c, status[so], to)
  /\ call' = [call EXCEPT ![c] =
                [pc |-> "checked", so |-> so, from |-> status[so], to |-> to]]
  /\ raced' = IF \E d \in Callers : call[d].pc # "idle" /\ call[d].so = so
              THEN raced \union {so}
              ELSE raced
  /\ UNCHANGED << cart, active, stock, checkout, items, status, parent,
                  reversals, job, processed >>

(* UPDATE "SellerOrder" waits for the row lock and takes it; the status it  *)
(* writes is not compared with the one that was checked.  The siblings'     *)
(* statuses are read at the end of the transaction.                         *)
LockSellerOrder(c) ==
  /\ call[c].pc = "checked"
  /\ ~Locked(call[c].so)
  /\ call' = [call EXCEPT ![c] =
                [pc |-> "writing", so |-> @.so, from |-> @.from, to |-> @.to,
                 aggregate |-> AggregateWith(@.so, @.to)]]
  /\ UNCHANGED << cart, active, stock, checkout, items, status, parent,
                  reversals, job, processed, raced >>

(* The commit: the status, the stock of this seller's lines, the reversal   *)
(* of a cancelled SellerOrder's ledger entries, the parent's status.        *)
CommitTransition(c) ==
  LET so == call[c].so
      from == call[c].from
      to == call[c].to
  IN
  /\ call[c].pc = "writing"
  /\ status' = [status EXCEPT ![so] = to]
  /\ stock' = [p \in Products |->
                 IF Seller[p] = so[2]
                 THEN StockMove(stock[p], items[so[1]][p], from, to)
                 ELSE stock[p]]
  /\ reversals' = IF to = "CANCELLED"
                  THEN [reversals EXCEPT ![so] = @ + 1]
                  ELSE reversals
  /\ parent' = [parent EXCEPT ![so[1]] = call[c].aggregate]
  /\ call' = [call EXCEPT ![c] = Idle]
  /\ UNCHANGED << cart, active, checkout, items, job, processed, raced >>

(* The request or its transaction fails; nothing of it is kept. *)
RollBackTransition(c) ==
  /\ call[c].pc # "idle"
  /\ call' = [call EXCEPT ![c] = Idle]
  /\ UNCHANGED << cart, active, stock, checkout, items, status, parent,
                  reversals, job, processed, raced >>

-----------------------------------------------------------------------------
(* OrderProcessingConsumer *)

(* The ProcessedEvent row is inserted, and the conditional UPDATE finds the *)
(* SellerOrder still NEW.  A redelivered job finds the ProcessedEvent row   *)
(* and does nothing.                                                        *)
BeginAdvance_Unconditional(so) ==
  /\ job.pc = "idle"
  /\ Placed(so) /\ so \notin processed /\ ~Locked(so)
  /\ job' = [pc |-> "writing", so |-> so,
             aggregate |-> AggregateWith(so, "PROCESSING")]
  /\ UNCHANGED << cart, active, stock, checkout, items, status, parent,
                  reversals, call, processed, raced >>
BeginAdvance_MarkedFirst(so) ==
  /\ job.pc = "idle"
  /\ Placed(so) /\ so \notin processed /\ ~Locked(so)
  /\ status[so] = "NEW"
  /\ job' = [pc |-> "writing", so |-> so,
             aggregate |-> AggregateWith(so, "PROCESSING")]
  /\ processed' = processed \union {so}
  /\ UNCHANGED << cart, active, stock, checkout, items, status, parent,
                  reversals, call, raced >>
BeginAdvance(so) ==
  /\ job.pc = "idle"
  /\ Placed(so) /\ so \notin processed /\ ~Locked(so)
  /\ status[so] = "NEW"
  /\ job' = [pc |-> "writing", so |-> so,
             aggregate |-> AggregateWith(so, "PROCESSING")]
  /\ UNCHANGED << cart, active, stock, checkout, items, status, parent,
                  reversals, call, processed, raced >>

CommitAdvance ==
  /\ job.pc = "writing"
  /\ status' = [status EXCEPT ![job.so] = "PROCESSING"]
  /\ parent' = [parent EXCEPT ![job.so[1]] = job.aggregate]
  /\ processed' = processed \union {job.so}
  /\ job' = Idle
  /\ UNCHANGED << cart, active, stock, checkout, items, reversals, call, raced >>

(* The worker dies or the transaction fails: marker and update both go. *)
RollBackAdvance ==
  /\ job.pc = "writing"
  /\ job' = Idle
  /\ UNCHANGED << cart, active, stock, checkout, items, status, parent,
                  reversals, call, processed, raced >>

(* The UPDATE matches no row: somebody moved the SellerOrder first. *)
SkipAdvance(so) ==
  /\ job.pc = "idle"
  /\ Placed(so) /\ so \notin processed /\ ~Locked(so)
  /\ status[so] # "NEW"
  /\ processed' = processed \union {so}
  /\ UNCHANGED << cart, active, stock, checkout, items, status, parent,
                  reversals, call, job, raced >>

-----------------------------------------------------------------------------
(* The specification *)

Init ==
  /\ cart = [b \in Buyers |-> NoLines]
  /\ active = Products
  /\ stock = [p \in Products |-> [available |-> InitialStock, reserved |-> 0]]
  /\ checkout = [o \in Orders |-> Idle]
  /\ items = [o \in Orders |-> NoLines]
  /\ status = [so \in SellerOrders |-> "NONE"]
  /\ parent = [o \in Orders |-> "NONE"]
  /\ reversals = [so \in SellerOrders |-> 0]
  /\ call = [c \in Callers |-> Idle]
  /\ job = Idle
  /\ processed = {}
  /\ raced = {}

Next ==
  \/ \E b \in Buyers, p \in Products : AddItem(b, p)
  \/ \E b \in Buyers, p \in Products, q \in 0 .. MaxQuantity :
       ChangeItem(b, p, q)
  \/ \E p \in Products : Archive(p)
  \/ \E p \in Products : Restore(p)
  \/ \E o \in Orders, b \in Buyers : LoadCart(o, b)
  \/ \E o \in Orders : Validate(o)
  \/ \E o \in Orders : CommitCheckout(o)
  \/ \E o \in Orders : RollBackCheckout(o)
  \/ \E c \in Callers, so \in SellerOrders, to \in Statuses :
       CheckTransition(c, so, to)
  \/ \E c \in Callers : LockSellerOrder(c)
  \/ \E c \in Callers : CommitTransition(c)
  \/ \E c \in Callers : RollBackTransition(c)
  \/ \E so \in SellerOrders : BeginAdvance(so)
  \/ CommitAdvance
  \/ RollBackAdvance
  \/ \E so \in SellerOrders : SkipAdvance(so)

Spec == Init /\ [][Next]_vars

(* The queue delivers a SellerOrderCreated event until it is processed (see *)
(* Outbox.tla), PostgreSQL grants a row lock in the order it was asked for, *)
(* and neither the worker nor a status change fails at every attempt.       *)
ConsumerFairness ==
  /\ \A so \in SellerOrders : SF_vars(BeginAdvance(so))
  /\ SF_vars(CommitAdvance)
  /\ \A c \in Callers : WF_vars(CommitTransition(c))

FairSpec == Spec /\ ConsumerFairness

-----------------------------------------------------------------------------
(* Properties *)

(* The units of product p in the orders whose SellerOrder has a status in S. *)
UnitsIn(p, S) ==
  UNION {{o} \X (1 .. items[o][p]) :
           o \in {x \in Orders : status[<<x, Seller[p]>>] \in S}}
OpenUnits(p) == UnitsIn(p, {"NEW", "PROCESSING"})
ShippedUnits(p) == UnitsIn(p, {"SHIPPED", "COMPLETED"})

(* No unit is lost, sold twice or given back twice, whatever checkouts,     *)
(* shipments, cancellations and force-cancellations interleave: what is     *)
(* reserved is what open SellerOrders hold, and what is neither on sale nor *)
(* reserved is what has shipped and has not been cancelled.  The units of a *)
(* seller one of whose SellerOrders two callers changed at once are not     *)
(* covered: two cancellations release one line's stock twice.               *)
UnitsAccounted ==
  \A p \in Products :
    (\A o \in Orders : << o, Seller[p] >> \notin raced) =>
      /\ stock[p].reserved = Cardinality(OpenUnits(p))
      /\ stock[p].available + stock[p].reserved + Cardinality(ShippedUnits(p))
           = InitialStock

(* The ledger of a SellerOrder nets to zero when it is cancelled and only   *)
(* then: REFUND and ADJUSTMENT are appended once (the comments on           *)
(* restoreStockAndReverseLedger and on the transition table).               *)
LedgerNetsToZero ==
  \A so \in SellerOrders :
    reversals[so] = IF status[so] = "CANCELLED" THEN 1 ELSE 0

(* What remains of it: only a SellerOrder that two callers changed at once  *)
(* may have its ledger reversed twice, or stand uncancelled with a reversed *)
(* ledger.  The consumer, the checkouts, and callers who race for another   *)
(* SellerOrder of the same order never do that to it.                       *)
ReversedOnce ==
  \A so \in SellerOrders \ raced :
    reversals[so] = IF status[so] = "CANCELLED" THEN 1 ELSE 0

StatusesOf(o) == {status[so] : so \in {x \in SellerOrders : x[1] = o /\ Placed(x)}}

(* How far the SellerOrders are when the parent has a status. *)
Reached ==
  [NEW |-> Statuses, PROCESSING |-> Statuses, PARTIALLY_SHIPPED |-> Statuses,
   SHIPPED |-> {"SHIPPED", "COMPLETED", "CANCELLED"},
   COMPLETED |-> {"COMPLETED", "CANCELLED"},
   PARTIALLY_CANCELLED |-> {"COMPLETED", "CANCELLED"},
   CANCELLED |-> {"CANCELLED"}]

(* Order.status is derived from the SellerOrders' statuses                  *)
(* (order-status-aggregation.ts).  Two transactions that move two           *)
(* SellerOrders of one order each read the other as it was before, so the   *)
(* parent may lag behind; it never announces what has not happened, unless  *)
(* two callers changed one of its SellerOrders at once.                     *)
ParentNeverAhead ==
  \A o \in Orders :
    parent[o] # "NONE" /\ (\A so \in raced : so[1] # o) =>
      StatusesOf(o) \subseteq Reached[parent[o]]

(* With one seller there is no sibling to misread: the parent is exact even *)
(* when the seller, an admin and the consumer race for its one SellerOrder. *)
SingleSellerParentIsExact ==
  \A so \in SellerOrders :
    Siblings(so) = {so} => parent[so[1]] = Aggregate({status[so]})

(* The asynchronous advance never undoes an operator's move: a SellerOrder  *)
(* only takes steps of the transition table or of the admin's override,     *)
(* however late or often its event is delivered and whatever happens to its *)
(* siblings, until two callers change it at once.                           *)
MovesAreLegal ==
  [][\A so \in SellerOrders \ raced :
       \/ status'[so] = status[so]
       \/ status[so] = "NONE" /\ status'[so] = "NEW"
       \/ Placed(so) /\ Allowed(Admin, status[so], status'[so])]_vars

(* A new SellerOrder does not stay NEW for ever, though the worker and its  *)
(* transactions may fail.                                                   *)
NewOrdersAdvance ==
  \A so \in SellerOrders : status[so] = "NEW" ~> status[so] # "NEW"

=============================================================================
