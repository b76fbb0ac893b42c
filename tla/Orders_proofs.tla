---------------------------- MODULE Orders_proofs ----------------------------
(***************************************************************************)
(* Proofs about Orders for every set of products, sellers, buyers, orders. *)
(***************************************************************************)
EXTENDS Orders, FiniteSetTheorems, TLAPS

(* Seller[p] is a seller, but nothing more is assumed of Seller. *)

-----------------------------------------------------------------------------
(* Type correctness *)

LEMMA InventoryTypes ==
  ASSUME NEW s \in InventoryRow, NEW q \in Nat
  PROVE  /\ CanReserve(s, q) => Reserve(s, q) \in InventoryRow
         /\ Release(s, q) \in InventoryRow
         /\ Consume(s, q) \in InventoryRow
         /\ Return(s, q) \in InventoryRow
  BY DEF InventoryRow, CanReserve, Reserve, Release, Consume, Return

LEMMA StockMoveTypes ==
  ASSUME NEW s \in InventoryRow, NEW q \in Nat, NEW from, NEW to
  PROVE  StockMove(s, q, from, to) \in InventoryRow
  BY InventoryTypes DEF StockMove

LEMMA AggregateTypes ==
  \A S : Aggregate(S) \in OrderStatuses
  BY DEF Aggregate, OrderStatuses, Statuses

LEMMA AggregateWithTypes ==
  \A so, s : AggregateWith(so, s) \in OrderStatuses
  BY AggregateTypes DEF AggregateWith

(* A call that is not idle has the fields its step needs. *)
LEMMA CallFields ==
  ASSUME TypeOK, NEW c \in Callers
  PROVE  /\ call[c].pc = "checked" =>
              call[c] \in [pc : {"checked"}, so : SellerOrders,
                           from : Statuses, to : Statuses]
         /\ call[c].pc = "writing" =>
              call[c] \in [pc : {"writing"}, so : SellerOrders,
                           from : Statuses, to : Statuses,
                           aggregate : OrderStatuses]
  <1>1. call[c] \in StatusCall
    BY DEF TypeOK
  <1> QED
    BY <1>1 DEF StatusCall, Idle

LEMMA CheckoutFields ==
  ASSUME TypeOK, NEW o \in Orders, checkout[o].pc # "idle"
  PROVE  checkout[o] \in [pc : {"loaded", "validated"}, buyer : Buyers,
                          lines : Lines]
  <1>1. checkout[o] \in CheckoutCall
    BY DEF TypeOK
  <1> QED
    BY <1>1 DEF CheckoutCall, Idle

LEMMA JobFields ==
  ASSUME TypeOK, job.pc = "writing"
  PROVE  job \in [pc : {"writing"}, so : SellerOrders, aggregate : OrderStatuses]
  BY DEF TypeOK, Job, Idle

LEMMA TypeInit == Init => TypeOK
  BY QuantityAssumption
  DEF Init, TypeOK, Lines, NoLines, InventoryRow, CheckoutCall, StatusCall,
      Job, Idle

LEMMA TypeStep == TypeOK /\ [Next]_vars => TypeOK'
  <1> SUFFICES ASSUME TypeOK, [Next]_vars PROVE TypeOK'
    OBVIOUS
  <1>1. ASSUME NEW b \in Buyers, NEW p \in Products, AddItem(b, p)
        PROVE  TypeOK'
    <2>1. cart' \in [Buyers -> Lines]
      BY <1>1, QuantityAssumption DEF AddItem, TypeOK, Lines
    <2> QED
      BY <1>1, <2>1 DEF AddItem, TypeOK
  <1>2. ASSUME NEW b \in Buyers, NEW p \in Products,
               NEW q \in 0 .. MaxQuantity, ChangeItem(b, p, q)
        PROVE  TypeOK'
    BY <1>2 DEF ChangeItem, TypeOK, Lines
  <1>3. ASSUME NEW p \in Products, Archive(p) \/ Restore(p) PROVE TypeOK'
    BY <1>3 DEF Archive, Restore, TypeOK
  <1>4. ASSUME NEW o \in Orders, NEW b \in Buyers, LoadCart(o, b)
        PROVE  TypeOK'
    BY <1>4 DEF LoadCart, TypeOK, CheckoutCall
  <1>5. ASSUME NEW o \in Orders, Validate(o) PROVE TypeOK'
    <2>1. checkout[o] \in [pc : {"loaded", "validated"}, buyer : Buyers,
                           lines : Lines]
      BY <1>5, CheckoutFields DEF Validate
    <2>2. [checkout[o] EXCEPT !.pc = "validated"] \in CheckoutCall
      BY <2>1 DEF CheckoutCall
    <2>3. checkout' \in [Orders -> CheckoutCall]
      BY <1>5, <2>2 DEF Validate, TypeOK, CheckoutCall
    <2> QED
      BY <1>5, <2>3 DEF Validate, TypeOK
  <1>6. ASSUME NEW o \in Orders, CommitCheckout(o) PROVE TypeOK'
    <2>1. checkout[o] \in [pc : {"loaded", "validated"}, buyer : Buyers,
                           lines : Lines]
      BY <1>6, CheckoutFields DEF CommitCheckout
    <2>2. \A p \in Products : checkout[o].lines[p] \in Nat
      BY <2>1, QuantityAssumption DEF Lines
    <2>3. stock' \in [Products -> InventoryRow]
      BY <1>6, <2>2, InventoryTypes DEF CommitCheckout, TypeOK
    <2>4. NoLines \in Lines
      BY QuantityAssumption DEF NoLines, Lines
    <2>5. /\ status' \in [SellerOrders -> Statuses \union {"NONE"}]
          /\ parent' \in [Orders -> OrderStatuses \union {"NONE"}]
      BY <1>6 DEF CommitCheckout, TypeOK, Statuses, OrderStatuses
    <2>6. /\ items' \in [Orders -> Lines]
          /\ cart' \in [Buyers -> Lines]
          /\ checkout' \in [Orders -> CheckoutCall]
      BY <1>6, <2>1, <2>4 DEF CommitCheckout, TypeOK, CheckoutCall
    <2> QED
      BY <1>6, <2>3, <2>5, <2>6 DEF CommitCheckout, TypeOK
  <1>7. ASSUME NEW o \in Orders, RollBackCheckout(o) PROVE TypeOK'
    BY <1>7 DEF RollBackCheckout, TypeOK, CheckoutCall
  <1>8. ASSUME NEW c \in Callers, NEW so \in SellerOrders, NEW to \in Statuses,
               CheckTransition(c, so, to)
        PROVE  TypeOK'
    <2>1. status[so] \in Statuses
      BY <1>8 DEF CheckTransition, Placed, TypeOK
    <2>2. raced' \in SUBSET SellerOrders
      BY <1>8 DEF CheckTransition, TypeOK
    <2> QED
      BY <1>8, <2>1, <2>2 DEF CheckTransition, TypeOK, StatusCall
  <1>9. ASSUME NEW c \in Callers, LockSellerOrder(c) PROVE TypeOK'
    <2>1. call[c] \in [pc : {"checked"}, so : SellerOrders,
                       from : Statuses, to : Statuses]
      BY <1>9, CallFields DEF LockSellerOrder
    <2> DEFINE next == [pc |-> "writing", so |-> call[c].so,
                        from |-> call[c].from, to |-> call[c].to,
                        aggregate |-> AggregateWith(call[c].so, call[c].to)]
    <2>2. next \in StatusCall
      BY <2>1, AggregateWithTypes DEF StatusCall
    <2>3. call' = [call EXCEPT ![c] = next]
      BY <1>9 DEF LockSellerOrder
    <2> HIDE DEF next
    <2> QED
      BY <1>9, <2>2, <2>3 DEF LockSellerOrder, TypeOK
  <1>10. ASSUME NEW c \in Callers, CommitTransition(c) PROVE TypeOK'
    <2>1. call[c] \in [pc : {"writing"}, so : SellerOrders, from : Statuses,
                       to : Statuses, aggregate : OrderStatuses]
      BY <1>10, CallFields DEF CommitTransition
    <2>2. call[c].so[1] \in Orders
      BY <2>1 DEF SellerOrders
    <2>3. \A p \in Products : items[call[c].so[1]][p] \in Nat
      BY <2>2, QuantityAssumption DEF TypeOK, Lines
    <2>4. stock' \in [Products -> InventoryRow]
      BY <1>10, <2>3, StockMoveTypes DEF CommitTransition, TypeOK
    <2>5. /\ status' \in [SellerOrders -> Statuses \union {"NONE"}]
          /\ parent' \in [Orders -> OrderStatuses \union {"NONE"}]
          /\ reversals' \in [SellerOrders -> Nat]
          /\ call' \in [Callers -> StatusCall]
      BY <1>10, <2>1, <2>2 DEF CommitTransition, TypeOK, StatusCall
    <2> QED
      BY <1>10, <2>4, <2>5 DEF CommitTransition, TypeOK
  <1>11. ASSUME NEW c \in Callers, RollBackTransition(c) PROVE TypeOK'
    BY <1>11 DEF RollBackTransition, TypeOK, StatusCall
  <1>12. ASSUME NEW so \in SellerOrders, BeginAdvance(so) PROVE TypeOK'
    BY <1>12, AggregateWithTypes DEF BeginAdvance, TypeOK, Job
  <1>13. ASSUME CommitAdvance PROVE TypeOK'
    <2>1. job \in [pc : {"writing"}, so : SellerOrders,
                   aggregate : OrderStatuses]
      BY <1>13, JobFields DEF CommitAdvance
    <2>2. job.so[1] \in Orders
      BY <2>1 DEF SellerOrders
    <2> QED
      BY <1>13, <2>1, <2>2 DEF CommitAdvance, TypeOK, Job, Statuses
  <1>14. ASSUME RollBackAdvance PROVE TypeOK'
    BY <1>14 DEF RollBackAdvance, TypeOK, Job
  <1>15. ASSUME NEW so \in SellerOrders, SkipAdvance(so) PROVE TypeOK'
    BY <1>15 DEF SkipAdvance, TypeOK
  <1>16. CASE UNCHANGED vars
    BY <1>16 DEF vars, TypeOK
  <1> QED
    BY <1>1, <1>2, <1>3, <1>4, <1>5, <1>6, <1>7, <1>8, <1>9, <1>10, <1>11,
       <1>12, <1>13, <1>14, <1>15, <1>16 DEF Next

(* Every row and call keeps its type; in particular the guarded UPDATEs     *)
(* keep the stock counters from going below zero, even when two callers     *)
(* change one SellerOrder at the same time.                                 *)
THEOREM TypeCorrect == Spec => []TypeOK
  BY TypeInit, TypeStep, PTL DEF Spec

-----------------------------------------------------------------------------
(* Which SellerOrders there are *)

(* An order id is free while its checkout is under way. *)
UnplacedOrders ==
  \A o \in Orders :
    /\ checkout[o].pc # "idle" => parent[o] = "NONE"
    /\ parent[o] = "NONE" => \A s \in Sellers : ~Placed(<<o, s>>)

(* Calls and jobs are about SellerOrders that exist. *)
WorkIsPlaced ==
  /\ \A c \in Callers : call[c].pc # "idle" => Placed(call[c].so)
  /\ job.pc = "writing" => Placed(job.so)

PlaceInv == TypeOK /\ UnplacedOrders /\ WorkIsPlaced

(* The SellerOrder a call or a job is about is one of its order's. *)
LEMMA CallSellerOrder ==
  ASSUME TypeOK, NEW c \in Callers, call[c].pc # "idle"
  PROVE  call[c].so \in SellerOrders
  BY CallFields DEF TypeOK, StatusCall, Idle

LEMMA PlacedOrder ==
  ASSUME UnplacedOrders, NEW so \in SellerOrders, Placed(so)
  PROVE  so[1] \in Orders /\ parent[so[1]] # "NONE"
  <1>1. so[1] \in Orders /\ so[2] \in Sellers /\ so = << so[1], so[2] >>
    BY DEF SellerOrders
  <1>2. parent[so[1]] = "NONE" => ~Placed(<< so[1], so[2] >>)
    BY <1>1 DEF UnplacedOrders
  <1> QED
    BY <1>1, <1>2

(* A checkout touches only rows of its own order, which did not exist. *)
LEMMA FreshCheckout ==
  ASSUME PlaceInv, NEW o \in Orders, CommitCheckout(o)
  PROVE  /\ UNCHANGED << call, job >>
         /\ \A so \in SellerOrders : so[1] = o => ~Placed(so)
         /\ \A so \in SellerOrders : so[1] = o => status'[so] \in {"NONE", "NEW"}
         /\ \A so \in SellerOrders : so[1] # o => status'[so] = status[so]
         /\ parent'[o] = "NEW" /\ checkout'[o] = Idle
         /\ \A x \in Orders : x # o =>
              parent'[x] = parent[x] /\ checkout'[x] = checkout[x]
  <1>1. parent[o] = "NONE"
    BY DEF CommitCheckout, PlaceInv, UnplacedOrders
  <1>2. \A so \in SellerOrders : so[1] = o => ~Placed(so)
    BY <1>1, PlacedOrder DEF PlaceInv
  <1>3. \A so \in SellerOrders : so[1] = o => status'[so] \in {"NONE", "NEW"}
    BY <1>2 DEF CommitCheckout, Placed
  <1>4. \A so \in SellerOrders : so[1] # o => status'[so] = status[so]
    BY DEF CommitCheckout
  <1>5. /\ parent'[o] = "NEW" /\ checkout'[o] = Idle
        /\ \A x \in Orders : x # o =>
             parent'[x] = parent[x] /\ checkout'[x] = checkout[x]
    BY DEF CommitCheckout, PlaceInv, TypeOK
  <1> QED
    BY <1>2, <1>3, <1>4, <1>5 DEF CommitCheckout

(* The two transactions that move a SellerOrder. *)
Moves(so, s, aggregate) ==
  /\ so \in SellerOrders /\ Placed(so) /\ s \in Statuses
  /\ so[1] \in Orders /\ parent[so[1]] # "NONE" /\ aggregate \in OrderStatuses
  /\ status' = [status EXCEPT ![so] = s]
  /\ parent' = [parent EXCEPT ![so[1]] = aggregate]
  /\ checkout' = checkout

LEMMA TransitionMoves ==
  ASSUME PlaceInv, NEW c \in Callers, CommitTransition(c)
  PROVE  /\ Moves(call[c].so, call[c].to, call[c].aggregate)
         /\ call' = [call EXCEPT ![c] = Idle] /\ job' = job
  <1>1. call[c] \in [pc : {"writing"}, so : SellerOrders, from : Statuses,
                     to : Statuses, aggregate : OrderStatuses]
    BY CallFields DEF CommitTransition, PlaceInv
  <1>2. Placed(call[c].so)
    BY DEF CommitTransition, PlaceInv, WorkIsPlaced
  <1>3. call[c].so[1] \in Orders /\ parent[call[c].so[1]] # "NONE"
    BY <1>1, <1>2, PlacedOrder DEF PlaceInv
  <1> QED
    BY <1>1, <1>2, <1>3 DEF CommitTransition, Moves

LEMMA AdvanceMoves ==
  ASSUME PlaceInv, CommitAdvance
  PROVE  Moves(job.so, "PROCESSING", job.aggregate) /\ call' = call /\ job' = Idle
  <1>1. job \in [pc : {"writing"}, so : SellerOrders, aggregate : OrderStatuses]
    BY JobFields DEF CommitAdvance, PlaceInv
  <1>2. Placed(job.so)
    BY DEF CommitAdvance, PlaceInv, WorkIsPlaced
  <1>3. job.so[1] \in Orders /\ parent[job.so[1]] # "NONE"
    BY <1>1, <1>2, PlacedOrder DEF PlaceInv
  <1> QED
    BY <1>1, <1>2, <1>3 DEF CommitAdvance, Moves, Statuses

LEMMA MovedRows ==
  ASSUME TypeOK, NEW so, NEW s, NEW aggregate, Moves(so, s, aggregate)
  PROVE  /\ status'[so] = s /\ parent'[so[1]] = aggregate
         /\ \A x \in SellerOrders : x # so => status'[x] = status[x]
         /\ \A o \in Orders : o # so[1] => parent'[o] = parent[o]
         /\ \A x \in SellerOrders : Placed(x)' <=> Placed(x)
  <1>1. /\ status'[so] = s /\ parent'[so[1]] = aggregate
        /\ \A x \in SellerOrders : x # so => status'[x] = status[x]
        /\ \A o \in Orders : o # so[1] => parent'[o] = parent[o]
    BY DEF Moves, TypeOK
  <1>2. Placed(so)' /\ Placed(so)
    BY <1>1 DEF Moves, Placed, Statuses
  <1>3. \A x \in SellerOrders : x # so => (Placed(x)' <=> Placed(x))
    BY <1>1 DEF Placed
  <1> QED
    BY <1>1, <1>2, <1>3

LEMMA MoveKeepsUnplaced ==
  ASSUME PlaceInv, NEW so, NEW s, NEW aggregate, Moves(so, s, aggregate)
  PROVE  UnplacedOrders'
  <1> SUFFICES ASSUME NEW o \in Orders
               PROVE  /\ checkout'[o].pc # "idle" => parent'[o] = "NONE"
                      /\ parent'[o] = "NONE" => \A t \in Sellers : ~Placed(<< o, t >>)'
    BY DEF UnplacedOrders
  <1>1. so[1] # o => parent'[o] = parent[o]
    BY MovedRows DEF PlaceInv
  <1>2. so[1] = o => parent[o] # "NONE" /\ parent'[o] # "NONE"
    BY MovedRows DEF PlaceInv, Moves, OrderStatuses, Statuses
  <1>3. \A t \in Sellers : Placed(<< o, t >>)' <=> Placed(<< o, t >>)
    <2>1. \A t \in Sellers : << o, t >> \in SellerOrders
      BY DEF SellerOrders
    <2> QED
      BY <2>1, MovedRows DEF PlaceInv
  <1>4. checkout' = checkout
    BY DEF Moves
  <1> QED
    BY <1>1, <1>2, <1>3, <1>4 DEF PlaceInv, UnplacedOrders

LEMMA PlaceInit == Init => PlaceInv
  BY TypeInit
  DEF Init, PlaceInv, UnplacedOrders, WorkIsPlaced, Placed, SellerOrders, Idle

(* Rows are only added, and only by the checkout that holds their order id. *)
LEMMA PlaceStep == PlaceInv /\ [Next]_vars => PlaceInv'
  <1> SUFFICES ASSUME PlaceInv, [Next]_vars PROVE PlaceInv'
    OBVIOUS
  <1>1. TypeOK /\ TypeOK'
    BY TypeStep DEF PlaceInv
  <1>2. ASSUME UNCHANGED << status, parent >>,
               \A o \in Orders : checkout'[o].pc # "idle" =>
                 checkout[o].pc # "idle" \/ parent[o] = "NONE"
        PROVE  UnplacedOrders'
    BY <1>2 DEF PlaceInv, UnplacedOrders, Placed
  <1>3. ASSUME UNCHANGED << status, parent, call, job >>,
               \A o \in Orders : checkout'[o].pc # "idle" =>
                 checkout[o].pc # "idle" \/ parent[o] = "NONE"
        PROVE  PlaceInv'
    BY <1>1, <1>2, <1>3 DEF PlaceInv, WorkIsPlaced, Placed
  <1>4. ASSUME UNCHANGED << status, parent, checkout >>, WorkIsPlaced'
        PROVE  PlaceInv'
    BY <1>1, <1>2, <1>4 DEF PlaceInv
  <1>5. CASE UNCHANGED << checkout, status, parent, call, job >>
    BY <1>3, <1>5
  <1>6. ASSUME NEW o \in Orders, NEW b \in Buyers, LoadCart(o, b) PROVE PlaceInv'
    BY <1>1, <1>3, <1>6 DEF LoadCart, TypeOK
  <1>7. ASSUME NEW o \in Orders, Validate(o) \/ RollBackCheckout(o) PROVE PlaceInv'
    BY <1>1, <1>3, <1>7 DEF Validate, RollBackCheckout, TypeOK
  <1>8. ASSUME NEW o \in Orders, CommitCheckout(o) PROVE PlaceInv'
    <2>1. UnplacedOrders'
      <3> SUFFICES ASSUME NEW x \in Orders
                   PROVE  /\ checkout'[x].pc # "idle" => parent'[x] = "NONE"
                          /\ parent'[x] = "NONE" =>
                               \A s \in Sellers : status'[<<x, s>>] = "NONE"
        BY DEF UnplacedOrders, Placed
      <3>1. CASE x = o
        BY <1>8, <3>1, FreshCheckout DEF Idle
      <3>2. CASE x # o
        <4>1. checkout'[x] = checkout[x] /\ parent'[x] = parent[x]
          BY <1>8, <3>2, FreshCheckout
        <4>2. \A s \in Sellers : << x, s >> \in SellerOrders /\ << x, s >>[1] # o
          BY <3>2 DEF SellerOrders
        <4>3. \A s \in Sellers : status'[<<x, s>>] = status[<<x, s>>]
          BY <1>8, <4>2, FreshCheckout
        <4> QED
          BY <4>1, <4>3 DEF PlaceInv, UnplacedOrders, Placed
      <3> QED
        BY <3>1, <3>2
    <2>2. \A so \in SellerOrders : status[so] # "NONE" => status'[so] # "NONE"
      BY <1>8, FreshCheckout DEF Placed
    <2>3. call' = call /\ job' = job
      BY <1>8, FreshCheckout
    <2>4. \A c \in Callers : call[c].pc # "idle" => status'[call[c].so] # "NONE"
      BY <1>1, <2>2, CallSellerOrder DEF PlaceInv, WorkIsPlaced, Placed
    <2>5. job.pc = "writing" => status'[job.so] # "NONE"
      BY <1>1, <2>2, JobFields DEF PlaceInv, WorkIsPlaced, Placed
    <2> QED
      BY <1>1, <2>1, <2>3, <2>4, <2>5 DEF PlaceInv, WorkIsPlaced, Placed
  <1>9. ASSUME NEW c \in Callers, NEW so \in SellerOrders, NEW to \in Statuses,
               CheckTransition(c, so, to)
        PROVE  PlaceInv'
    <2>1. /\ UNCHANGED << checkout, status, parent, job >> /\ Placed(so)
          /\ call'[c].so = so
          /\ \A d \in Callers : d # c => call'[d] = call[d]
      BY <1>1, <1>9 DEF CheckTransition, TypeOK
    <2> QED
      BY <1>4, <2>1 DEF PlaceInv, WorkIsPlaced, Placed
  <1>10. ASSUME NEW c \in Callers, LockSellerOrder(c) \/ RollBackTransition(c)
         PROVE  PlaceInv'
    <2>1. /\ UNCHANGED << checkout, status, parent, job >>
          /\ call[c].pc # "idle"
          /\ call'[c].pc # "idle" => call'[c].so = call[c].so
          /\ \A d \in Callers : d # c => call'[d] = call[d]
      BY <1>1, <1>10 DEF LockSellerOrder, RollBackTransition, TypeOK, Idle
    <2> QED
      BY <1>4, <2>1 DEF PlaceInv, WorkIsPlaced, Placed
  <1>11. ASSUME NEW so, NEW s, NEW aggregate, Moves(so, s, aggregate),
                \A c \in Callers : call'[c].pc # "idle" => call'[c] = call[c],
                job'.pc = "writing" => job' = job
         PROVE  PlaceInv'
    <2>1. \A x \in SellerOrders : status[x] # "NONE" => status'[x] # "NONE"
      BY <1>1, <1>11, MovedRows DEF Placed
    <2>2. \A c \in Callers : call[c].pc # "idle" => status'[call[c].so] # "NONE"
      BY <1>1, <2>1, CallSellerOrder DEF PlaceInv, WorkIsPlaced, Placed
    <2>3. job.pc = "writing" => status'[job.so] # "NONE"
      BY <1>1, <2>1, JobFields DEF PlaceInv, WorkIsPlaced, Placed
    <2>4. UnplacedOrders'
      BY <1>11, MoveKeepsUnplaced
    <2> QED
      BY <1>1, <1>11, <2>2, <2>3, <2>4 DEF PlaceInv, WorkIsPlaced, Placed
  <1>12. ASSUME NEW c \in Callers, CommitTransition(c) PROVE PlaceInv'
    <2>1. \A d \in Callers : call'[d].pc # "idle" => call'[d] = call[d]
      BY <1>1, <1>12, TransitionMoves DEF TypeOK, Idle
    <2> QED
      BY <1>11, <1>12, <2>1, TransitionMoves
  <1>13. ASSUME NEW so \in SellerOrders, BeginAdvance(so) PROVE PlaceInv'
    BY <1>4, <1>13 DEF BeginAdvance, PlaceInv, WorkIsPlaced, Placed
  <1>14. CASE CommitAdvance
    BY <1>11, <1>14, AdvanceMoves DEF Idle
  <1>15. CASE RollBackAdvance
    BY <1>4, <1>15 DEF RollBackAdvance, PlaceInv, WorkIsPlaced, Placed, Idle
  <1>16. \/ UNCHANGED << checkout, status, parent, call, job >>
         \/ \E o \in Orders, b \in Buyers : LoadCart(o, b)
         \/ \E o \in Orders : Validate(o) \/ RollBackCheckout(o)
         \/ \E o \in Orders : CommitCheckout(o)
         \/ \E c \in Callers, so \in SellerOrders, to \in Statuses :
              CheckTransition(c, so, to)
         \/ \E c \in Callers : LockSellerOrder(c) \/ RollBackTransition(c)
         \/ \E c \in Callers : CommitTransition(c)
         \/ \E so \in SellerOrders : BeginAdvance(so)
         \/ CommitAdvance
         \/ RollBackAdvance
    BY DEF Next, vars, AddItem, ChangeItem, Archive, Restore, SkipAdvance
  <1> QED
    BY <1>5, <1>6, <1>7, <1>8, <1>9, <1>10, <1>12, <1>13, <1>14, <1>15, <1>16

-----------------------------------------------------------------------------
(* The parent of an order with one seller *)

(* The transactions under way that are about to write s to so and the       *)
(* aggregate they have read to its order.                                    *)
WillWrite(so, s, aggregate) ==
  \/ \E c \in Callers :
       /\ call[c].pc = "writing" /\ call[c].so = so
       /\ call[c].to = s /\ call[c].aggregate = aggregate
  \/ /\ job.pc = "writing" /\ job.so = so
     /\ s = "PROCESSING" /\ job.aggregate = aggregate

LEMMA WritesArePlaced ==
  ASSUME PlaceInv, NEW so, NEW s, NEW aggregate, WillWrite(so, s, aggregate)
  PROVE  /\ so \in SellerOrders /\ Placed(so)
         /\ s \in Statuses /\ aggregate \in OrderStatuses
  <1>1. CASE \E c \in Callers :
               /\ call[c].pc = "writing" /\ call[c].so = so
               /\ call[c].to = s /\ call[c].aggregate = aggregate
    BY <1>1, CallFields DEF PlaceInv, WorkIsPlaced
  <1>2. CASE /\ job.pc = "writing" /\ job.so = so
             /\ s = "PROCESSING" /\ job.aggregate = aggregate
    BY <1>2, JobFields DEF PlaceInv, WorkIsPlaced, Statuses
  <1> QED
    BY <1>1, <1>2 DEF WillWrite

(* A transaction that is about to write was so before, or has just read the  *)
(* siblings.                                                                *)
Reads(so, s, aggregate) ==
  /\ so \in SellerOrders /\ s \in Statuses /\ aggregate = AggregateWith(so, s)
  /\ UNCHANGED << status, parent >>

LEMMA WritesAreRead ==
  ASSUME TypeOK, [Next]_vars, NEW so, NEW s, NEW aggregate, WillWrite(so, s, aggregate)'
  PROVE  WillWrite(so, s, aggregate) \/ Reads(so, s, aggregate)
  <1>1. ASSUME \A c \in Callers : call'[c].pc = "writing" => call'[c] = call[c],
               job'.pc = "writing" => job' = job
        PROVE  WillWrite(so, s, aggregate)
    BY <1>1 DEF WillWrite
  <1>2. ASSUME NEW c \in Callers, LockSellerOrder(c)
        PROVE  WillWrite(so, s, aggregate) \/ Reads(so, s, aggregate)
    <2>1. /\ call[c].so \in SellerOrders /\ call[c].to \in Statuses
      BY <1>2, CallFields DEF LockSellerOrder
    <2>2. /\ call'[c].so = call[c].so /\ call'[c].to = call[c].to
          /\ call'[c].aggregate = AggregateWith(call[c].so, call[c].to)
          /\ \A d \in Callers : d # c => call'[d] = call[d]
          /\ UNCHANGED << job, status, parent >>
      BY <1>2 DEF LockSellerOrder, TypeOK
    <2> QED
      BY <2>1, <2>2 DEF WillWrite, Reads
  <1>3. ASSUME NEW x \in SellerOrders, BeginAdvance(x)
        PROVE  WillWrite(so, s, aggregate) \/ Reads(so, s, aggregate)
    BY <1>3 DEF BeginAdvance, WillWrite, Reads, Statuses
  <1>4. ASSUME NEW c \in Callers,
               \/ \E x \in SellerOrders, to \in Statuses : CheckTransition(c, x, to)
               \/ CommitTransition(c) \/ RollBackTransition(c)
        PROVE  WillWrite(so, s, aggregate)
    <2>1. /\ call'[c].pc # "writing" /\ job' = job
          /\ \A d \in Callers : d # c => call'[d] = call[d]
      BY <1>4 DEF CheckTransition, CommitTransition, RollBackTransition, TypeOK, Idle
    <2> QED
      BY <1>1, <2>1
  <1>5. CASE CommitAdvance \/ RollBackAdvance
    BY <1>1, <1>5 DEF CommitAdvance, RollBackAdvance, Idle
  <1>6. CASE UNCHANGED << call, job >>
    BY <1>1, <1>6
  <1> QED
    BY <1>2, <1>3, <1>4, <1>5, <1>6
    DEF Next, vars, AddItem, ChangeItem, Archive, Restore, LoadCart, Validate,
        CommitCheckout, RollBackCheckout, SkipAdvance

(* What a step may do to the rows. *)
LEMMA RowSteps ==
  ASSUME PlaceInv, [Next]_vars
  PROVE  \/ UNCHANGED << status, parent >>
         \/ \E o \in Orders : CommitCheckout(o)
         \/ \E so, s, aggregate :
              WillWrite(so, s, aggregate) /\ Moves(so, s, aggregate)
  <1>1. ASSUME NEW c \in Callers, CommitTransition(c)
        PROVE  \E so, s, aggregate :
                 WillWrite(so, s, aggregate) /\ Moves(so, s, aggregate)
    <2>1. WillWrite(call[c].so, call[c].to, call[c].aggregate)
      BY <1>1 DEF CommitTransition, WillWrite
    <2> QED
      BY <1>1, <2>1, TransitionMoves
  <1>2. ASSUME CommitAdvance
        PROVE  \E so, s, aggregate :
                 WillWrite(so, s, aggregate) /\ Moves(so, s, aggregate)
    <2>1. WillWrite(job.so, "PROCESSING", job.aggregate)
      BY <1>2 DEF CommitAdvance, WillWrite
    <2> QED
      BY <1>2, <2>1, AdvanceMoves
  <1> QED
    BY <1>1, <1>2
    DEF Next, vars, AddItem, ChangeItem, Archive, Restore, LoadCart, Validate,
        RollBackCheckout, CheckTransition, LockSellerOrder, RollBackTransition,
        BeginAdvance, RollBackAdvance, SkipAdvance

Alone(so) == Siblings(so) = {so}

ExactInv ==
  /\ PlaceInv /\ SingleSellerParentIsExact
  /\ \A so, s, aggregate :
       WillWrite(so, s, aggregate) /\ Alone(so) => aggregate = Aggregate({s})

(* Whoever reads a SellerOrder without siblings reads its own write alone. *)
LEMMA ReadAlone ==
  ASSUME NEW so, NEW s, Alone(so)
  PROVE  AggregateWith(so, s) = Aggregate({s})
  <1>1. {s} \union {status[other] : other \in Siblings(so) \ {so}} = {s}
    BY DEF Alone
  <1> QED
    BY <1>1 DEF AggregateWith

(* No SellerOrder of an order comes or goes once the order is placed. *)
LEMMA SiblingsStay ==
  ASSUME PlaceInv, [Next]_vars, NEW so \in SellerOrders, Placed(so)
  PROVE  Siblings(so)' = Siblings(so)
  <1>1. \A x \in SellerOrders : x[1] = so[1] =>
          (status'[x] = "NONE" <=> status[x] = "NONE")
    <2>1. CASE UNCHANGED << status, parent >>
      BY <2>1
    <2>2. ASSUME NEW o \in Orders, CommitCheckout(o)
          PROVE  \A x \in SellerOrders : x[1] = so[1] => status'[x] = status[x]
      BY <2>2, FreshCheckout
    <2>3. ASSUME NEW x, NEW s, NEW aggregate, Moves(x, s, aggregate)
          PROVE  \A y \in SellerOrders : status'[y] = "NONE" <=> status[y] = "NONE"
      BY <2>3, MovedRows DEF PlaceInv, Placed
    <2> QED
      BY <2>1, <2>2, <2>3, RowSteps
  <1> QED
    BY <1>1 DEF Siblings, Placed

(* A move writes the parent the aggregate of its one SellerOrder. *)
LEMMA MoveKeepsExact ==
  ASSUME PlaceInv, [Next]_vars, SingleSellerParentIsExact,
         NEW so, NEW s, NEW aggregate, Moves(so, s, aggregate),
         Alone(so) => aggregate = Aggregate({s})
  PROVE  SingleSellerParentIsExact'
  <1> SUFFICES ASSUME NEW x \in SellerOrders, Siblings(x)' = {x}
               PROVE  parent'[x[1]] = Aggregate({status'[x]})
    BY DEF SingleSellerParentIsExact, Aggregate
  <1>1. TypeOK
    BY DEF PlaceInv
  <1>2. Placed(x) /\ x[1] \in Orders
    <2>1. status'[x] # "NONE"
      BY DEF Siblings, Placed
    <2>2. Placed(x)
      BY <1>1, <2>1, MovedRows DEF Placed
    <2> QED
      BY <2>2, PlacedOrder DEF PlaceInv
  <1>3. Siblings(x) = {x}
    BY <1>2, SiblingsStay
  <1>4. CASE x = so
    BY <1>1, <1>3, <1>4, MovedRows DEF Alone
  <1>5. CASE x # so
    <2>1. so \in SellerOrders /\ Placed(so)
      BY DEF Moves
    <2>2. x[1] # so[1]
      BY <1>3, <1>5, <2>1 DEF Siblings
    <2>3. parent'[x[1]] = parent[x[1]] /\ status'[x] = status[x]
      BY <1>1, <1>2, <1>5, <2>2, MovedRows
    <2> QED
      BY <1>3, <2>3 DEF SingleSellerParentIsExact
  <1> QED
    BY <1>4, <1>5

LEMMA CheckoutKeepsExact ==
  ASSUME PlaceInv, [Next]_vars, SingleSellerParentIsExact,
         NEW o \in Orders, CommitCheckout(o)
  PROVE  SingleSellerParentIsExact'
  <1> SUFFICES ASSUME NEW x \in SellerOrders, Siblings(x)' = {x}
               PROVE  parent'[x[1]] = Aggregate({status'[x]})
    BY DEF SingleSellerParentIsExact, Aggregate
  <1>1. status'[x] # "NONE"
    BY DEF Siblings, Placed
  <1>2. CASE x[1] = o
    <2>1. status'[x] = "NEW" /\ parent'[x[1]] = "NEW"
      BY <1>1, <1>2, FreshCheckout
    <2> QED
      BY <2>1 DEF Aggregate
  <1>3. CASE x[1] # o
    <2>1. status'[x] = status[x]
      BY <1>3, FreshCheckout
    <2>2. x[1] \in Orders /\ Placed(x)
      BY <1>1, <2>1 DEF SellerOrders, Placed
    <2>3. parent'[x[1]] = parent[x[1]] /\ Siblings(x) = {x}
      BY <1>3, <2>2, FreshCheckout, SiblingsStay
    <2> QED
      BY <2>1, <2>3 DEF SingleSellerParentIsExact
  <1> QED
    BY <1>2, <1>3

LEMMA ExactStep == ExactInv /\ [Next]_vars => ExactInv'
  <1> SUFFICES ASSUME ExactInv, [Next]_vars PROVE ExactInv'
    OBVIOUS
  <1>1. PlaceInv /\ PlaceInv' /\ TypeOK /\ SingleSellerParentIsExact
    BY PlaceStep DEF ExactInv, PlaceInv
  <1>2. SingleSellerParentIsExact'
    <2>1. CASE UNCHANGED << status, parent >>
      BY <1>1, <2>1 DEF SingleSellerParentIsExact, Siblings, Placed
    <2>2. ASSUME NEW so, NEW s, NEW aggregate,
                 WillWrite(so, s, aggregate), Moves(so, s, aggregate)
          PROVE  SingleSellerParentIsExact'
      BY <1>1, <2>2, MoveKeepsExact DEF ExactInv
    <2> QED
      BY <1>1, <2>1, <2>2, RowSteps, CheckoutKeepsExact
  <1>3. ASSUME NEW so, NEW s, NEW aggregate, WillWrite(so, s, aggregate)', Alone(so)'
        PROVE  aggregate = Aggregate({s})
    <2>1. CASE WillWrite(so, s, aggregate)
      <3>1. so \in SellerOrders /\ Placed(so)
        BY <1>1, <2>1, WritesArePlaced
      <3>2. Siblings(so)' = Siblings(so)
        BY <1>1, <3>1, SiblingsStay
      <3> QED
        BY <1>3, <2>1, <3>2 DEF ExactInv, Alone
    <2>2. CASE Reads(so, s, aggregate)
      <3>1. Alone(so)
        BY <1>3, <2>2 DEF Reads, Alone, Siblings, Placed
      <3> QED
        BY <2>2, <3>1, ReadAlone DEF Reads
    <2> QED
      BY <1>1, <1>3, <2>1, <2>2, WritesAreRead
  <1> QED
    BY <1>1, <1>2, <1>3 DEF ExactInv

(* An order of one seller has the status of its one SellerOrder, though the  *)
(* seller, an admin and the consumer all read before they write, and two of  *)
(* them may have read the same: whoever commits writes both.                 *)
THEOREM OneSellerIsExact == Spec => []SingleSellerParentIsExact
  <1>1. Init => ExactInv
    <2>1. ASSUME Init PROVE SingleSellerParentIsExact
      BY <2>1 DEF Init, SingleSellerParentIsExact, Siblings, Placed
    <2>2. ASSUME Init, NEW so, NEW s, NEW aggregate PROVE ~WillWrite(so, s, aggregate)
      BY <2>2 DEF Init, WillWrite, Idle
    <2> QED
      BY <2>1, <2>2, PlaceInit DEF ExactInv
  <1>2. ExactInv => SingleSellerParentIsExact
    BY DEF ExactInv
  <1> QED
    BY <1>1, <1>2, ExactStep, PTL DEF Spec

-----------------------------------------------------------------------------
(* Moves of a SellerOrder that callers change one at a time *)

(* Callers who are about to change one SellerOrder have raced for it, and   *)
(* what was once raced for is known for good.                               *)
OwnSellerOrder ==
  \A c, d \in Callers :
    c # d /\ call[c].pc # "idle" /\ call[d].pc # "idle" /\ call[c].so = call[d].so =>
      call[c].so \in raced

LEMMA RacedStay == [Next]_vars => raced \subseteq raced'
  BY DEF Next, vars, AddItem, ChangeItem, Archive, Restore, LoadCart, Validate,
         CommitCheckout, RollBackCheckout, CheckTransition, LockSellerOrder,
         CommitTransition, RollBackTransition, BeginAdvance, CommitAdvance,
         RollBackAdvance, SkipAdvance

(* What a caller decided on is still so, unless its SellerOrder was raced   *)
(* for; but the consumer may have moved a NEW one to PROCESSING.            *)
DecisionHolds(c) ==
  /\ Allowed(c, call[c].from, call[c].to)
  /\ \/ status[call[c].so] = call[c].from
     \/ call[c].from = "NEW" /\ status[call[c].so] = "PROCESSING"
DecisionsHold ==
  \A c \in Callers : call[c].pc # "idle" /\ call[c].so \notin raced => DecisionHolds(c)

(* The row lock keeps the consumer's SellerOrder NEW until it commits,      *)
(* whoever else is about to change it.                                      *)
AdvanceHolds ==
  job.pc = "writing" =>
    /\ status[job.so] = "NEW"
    /\ \A c \in Callers : call[c].pc = "writing" => call[c].so # job.so

MoveInv ==
  /\ PlaceInv
  /\ OwnSellerOrder /\ DecisionsHold /\ AdvanceHolds

LEMMA MoveInit == Init => MoveInv
  BY PlaceInit DEF Init, MoveInv, OwnSellerOrder, DecisionsHold, AdvanceHolds, Idle

(* A caller's decision, and an unchanged world, carry over. *)
LEMMA KeptDecision ==
  ASSUME NEW c \in Callers, DecisionHolds(c), call'[c] = call[c] \/
           (call'[c].so = call[c].so /\ call'[c].from = call[c].from
              /\ call'[c].to = call[c].to),
         status'[call[c].so] = status[call[c].so]
  PROVE  DecisionHolds(c)'
  BY DEF DecisionHolds, Allowed

LEMMA MoveStep ==
  ASSUME MoveInv, [Next]_vars
  PROVE  MoveInv'
  <1>1. PlaceInv /\ PlaceInv' /\ TypeOK /\ raced \subseteq raced'
    BY PlaceStep, RacedStay DEF MoveInv, PlaceInv
  <1> USE DEF MoveInv
  <1>2. CASE UNCHANGED << status, call, job >>
    BY <1>1, <1>2
    DEF OwnSellerOrder, DecisionsHold, DecisionHolds, Allowed, AdvanceHolds
  <1>3. ASSUME NEW o \in Orders, CommitCheckout(o) PROVE MoveInv'
    <2>1. UNCHANGED << call, job >>
      BY <1>1, <1>3, FreshCheckout
    <2>2. \A so \in SellerOrders :
            status[so] # "NONE" => status'[so] = status[so]
      BY <1>1, <1>3, FreshCheckout DEF Placed
    <2>3. DecisionsHold'
      <3> SUFFICES ASSUME NEW c \in Callers, call[c].pc # "idle", call[c].so \notin raced
                   PROVE  DecisionHolds(c)'
        BY <1>1, <2>1 DEF DecisionsHold
      <3>1. call[c].so \in SellerOrders /\ call[c].from \in Statuses
        BY <1>1, CallFields DEF TypeOK, StatusCall, Idle
      <3>2. DecisionHolds(c)
        BY DEF DecisionsHold
      <3>3. status[call[c].so] # "NONE"
        BY <3>1, <3>2 DEF DecisionHolds, Statuses
      <3> QED
        BY <2>1, <2>2, <3>1, <3>2, <3>3, KeptDecision
    <2>4. AdvanceHolds'
      BY <1>1, <2>1, <2>2, JobFields DEF AdvanceHolds
    <2> QED
      BY <1>1, <2>1, <2>3, <2>4 DEF OwnSellerOrder
  <1>4. ASSUME NEW c \in Callers, NEW so \in SellerOrders, NEW to \in Statuses,
               CheckTransition(c, so, to)
        PROVE  MoveInv'
    <2>1. /\ UNCHANGED << checkout, status, parent, job >>
          /\ call'[c] = [pc |-> "checked", so |-> so, from |-> status[so],
                         to |-> to]
          /\ \A d \in Callers : d # c => call'[d] = call[d]
      BY <1>1, <1>4 DEF CheckTransition, TypeOK
    <2>2. OwnSellerOrder'
      <3>1. \A d \in Callers : call[d].pc # "idle" /\ call[d].so = so => so \in raced'
        BY <1>4 DEF CheckTransition
      <3> QED
        BY <1>1, <2>1, <3>1 DEF OwnSellerOrder
    <2>3. DecisionsHold'
      <3> SUFFICES ASSUME NEW d \in Callers, call'[d].pc # "idle", call'[d].so \notin raced
                   PROVE  DecisionHolds(d)'
        BY <1>1 DEF DecisionsHold
      <3>1. CASE d = c
        BY <1>4, <2>1, <3>1 DEF CheckTransition, DecisionHolds, Allowed
      <3>2. CASE d # c
        BY <2>1, <3>2, KeptDecision DEF DecisionsHold
      <3> QED
        BY <3>1, <3>2
    <2>4. AdvanceHolds'
      BY <2>1 DEF AdvanceHolds
    <2> QED
      BY <1>1, <2>2, <2>3, <2>4
  <1>5. ASSUME NEW c \in Callers, LockSellerOrder(c) PROVE MoveInv'
    <2>1. /\ UNCHANGED << checkout, status, parent, job >>
          /\ call[c].pc = "checked"
          /\ call'[c] = [pc |-> "writing", so |-> call[c].so,
                         from |-> call[c].from, to |-> call[c].to,
                         aggregate |-> AggregateWith(call[c].so, call[c].to)]
          /\ \A d \in Callers : d # c => call'[d] = call[d]
      BY <1>1, <1>5 DEF LockSellerOrder, TypeOK
    <2>2. OwnSellerOrder'
      BY <1>1, <2>1 DEF OwnSellerOrder
    <2>3. DecisionsHold'
      <3> SUFFICES ASSUME NEW d \in Callers, call'[d].pc # "idle", call'[d].so \notin raced
                   PROVE  DecisionHolds(d)'
        BY <1>1 DEF DecisionsHold
      <3>1. DecisionHolds(d)
        BY <2>1 DEF DecisionsHold
      <3>2. /\ call'[d].so = call[d].so
            /\ call'[d].from = call[d].from
            /\ call'[d].to = call[d].to
        BY <2>1
      <3> QED
        BY <2>1, <3>1, <3>2, KeptDecision
    <2>4. AdvanceHolds'
      <3>1. job.pc = "writing" => job.so # call[c].so
        BY <1>5 DEF LockSellerOrder, Locked
      <3> QED
        BY <2>1, <3>1 DEF AdvanceHolds
    <2> QED
      BY <1>1, <2>2, <2>3, <2>4
  <1>6. ASSUME NEW c \in Callers, CommitTransition(c) PROVE MoveInv'
    <2>1. call[c] \in [pc : {"writing"}, so : SellerOrders, from : Statuses,
                       to : Statuses, aggregate : OrderStatuses]
      BY <1>1, <1>6, CallFields DEF CommitTransition
    <2> DEFINE so == call[c].so
    <2>2. /\ UNCHANGED << checkout, job >>
          /\ status' = [status EXCEPT ![so] = call[c].to]
          /\ parent' = [parent EXCEPT ![so[1]] = call[c].aggregate]
          /\ call'[c] = Idle
          /\ \A d \in Callers : d # c => call'[d] = call[d]
      BY <1>1, <1>6 DEF CommitTransition, TypeOK
    <2>4. OwnSellerOrder'
      BY <1>1, <2>2 DEF OwnSellerOrder, Idle
    <2>5. DecisionsHold'
      <3> SUFFICES ASSUME NEW d \in Callers, call'[d].pc # "idle", call'[d].so \notin raced
                   PROVE  DecisionHolds(d)'
        BY <1>1 DEF DecisionsHold
      <3>1. d # c /\ call'[d] = call[d]
        BY <2>2 DEF Idle
      <3>2. call[d].so # so
        BY <1>6, <2>1, <3>1 DEF OwnSellerOrder, CommitTransition, Idle
      <3>3. call[d].so \in SellerOrders
        BY <1>1, <3>1, CallFields DEF TypeOK, StatusCall, Idle
      <3>4. status'[call[d].so] = status[call[d].so]
        BY <1>1, <2>2, <3>2, <3>3 DEF TypeOK
      <3> QED
        BY <3>1, <3>4, KeptDecision DEF DecisionsHold
    <2>6. AdvanceHolds'
      <3> SUFFICES ASSUME job.pc = "writing"
                   PROVE  /\ status'[job.so] = "NEW"
                          /\ \A d \in Callers :
                               call'[d].pc = "writing" => call'[d].so # job.so
        BY <2>2 DEF AdvanceHolds
      <3>1. job.so \in SellerOrders /\ job.so # so
        BY <1>1, <2>1, JobFields DEF AdvanceHolds
      <3>2. status'[job.so] = status[job.so]
        BY <1>1, <2>2, <3>1 DEF TypeOK
      <3> QED
        BY <2>2, <3>2 DEF AdvanceHolds, Idle
    <2> QED
      BY <1>1, <2>4, <2>5, <2>6
  <1>7. ASSUME NEW c \in Callers, RollBackTransition(c) PROVE MoveInv'
    <2>1. /\ UNCHANGED << checkout, status, parent, job >>
          /\ call'[c] = Idle
          /\ \A d \in Callers : d # c => call'[d] = call[d]
      BY <1>1, <1>7 DEF RollBackTransition, TypeOK
    <2>2. OwnSellerOrder' /\ AdvanceHolds'
      BY <1>1, <2>1 DEF OwnSellerOrder, AdvanceHolds, Idle
    <2>3. DecisionsHold'
      <3> SUFFICES ASSUME NEW d \in Callers, call'[d].pc # "idle", call'[d].so \notin raced
                   PROVE  DecisionHolds(d)'
        BY <1>1 DEF DecisionsHold
      <3>1. call'[d] = call[d]
        BY <2>1 DEF Idle
      <3> QED
        BY <2>1, <3>1, KeptDecision DEF DecisionsHold
    <2> QED
      BY <1>1, <2>2, <2>3
  <1>8. ASSUME NEW so \in SellerOrders, BeginAdvance(so) PROVE MoveInv'
    <2>1. /\ UNCHANGED << checkout, status, parent, call >>
          /\ job'.so = so
          /\ status[so] = "NEW"
          /\ \A c \in Callers : call[c].pc = "writing" => call[c].so # so
      BY <1>8 DEF BeginAdvance, Locked
    <2> QED
      BY <1>1, <2>1
      DEF AdvanceHolds, OwnSellerOrder, DecisionsHold,
          DecisionHolds, Allowed
  <1>9. ASSUME CommitAdvance PROVE MoveInv'
    <2>1. job \in [pc : {"writing"}, so : SellerOrders,
                   aggregate : OrderStatuses]
      BY <1>1, <1>9, JobFields DEF CommitAdvance
    <2> DEFINE so == job.so
    <2>2. /\ UNCHANGED << checkout, call >>
          /\ status' = [status EXCEPT ![so] = "PROCESSING"]
          /\ parent' = [parent EXCEPT ![so[1]] = job.aggregate]
          /\ job' = Idle
      BY <1>9 DEF CommitAdvance
    <2>3. status[so] = "NEW"
      BY <2>1 DEF AdvanceHolds
    <2>4. DecisionsHold'
      <3> SUFFICES ASSUME NEW d \in Callers, call[d].pc # "idle", call[d].so \notin raced
                   PROVE  DecisionHolds(d)'
        BY <1>1, <2>2 DEF DecisionsHold
      <3>1. DecisionHolds(d)
        BY DEF DecisionsHold
      <3>2. call[d].so \in SellerOrders
        BY <1>1, CallFields DEF TypeOK, StatusCall, Idle
      <3>3. CASE call[d].so = so
        <4>1. status'[so] = "PROCESSING"
          BY <1>1, <2>1, <2>2 DEF TypeOK
        <4>2. call[d].from = "NEW"
          BY <2>3, <3>1, <3>3 DEF DecisionHolds
        <4> QED
          BY <2>2, <3>1, <3>3, <4>1, <4>2 DEF DecisionHolds, Allowed
      <3>4. CASE call[d].so # so
        <4>1. status'[call[d].so] = status[call[d].so]
          BY <1>1, <2>2, <3>2, <3>4 DEF TypeOK
        <4> QED
          BY <2>2, <3>1, <4>1, KeptDecision
      <3> QED
        BY <3>3, <3>4
    <2> QED
      BY <1>1, <2>2, <2>4 DEF OwnSellerOrder, AdvanceHolds, Idle
  <1>10. ASSUME RollBackAdvance PROVE MoveInv'
    BY <1>1, <1>10
    DEF RollBackAdvance, OwnSellerOrder, DecisionsHold,
        DecisionHolds, Allowed, AdvanceHolds, Idle
  <1>11. \/ UNCHANGED << status, call, job >>
         \/ \E o \in Orders : CommitCheckout(o)
         \/ \E c \in Callers, so \in SellerOrders, to \in Statuses :
              CheckTransition(c, so, to)
         \/ \E c \in Callers : LockSellerOrder(c)
         \/ \E c \in Callers : CommitTransition(c)
         \/ \E c \in Callers : RollBackTransition(c)
         \/ \E so \in SellerOrders : BeginAdvance(so)
         \/ CommitAdvance
         \/ RollBackAdvance
    BY DEF Next, vars, AddItem, ChangeItem, Archive, Restore, LoadCart, Validate,
           RollBackCheckout, SkipAdvance
  <1> QED
    BY <1>2, <1>3, <1>4, <1>5, <1>6, <1>7, <1>8, <1>9, <1>10,
       <1>11

(* What a step may do to the status of a SellerOrder. *)
LEMMA StatusSteps ==
  ASSUME MoveInv, [Next]_vars, NEW so \in SellerOrders, so \notin raced
  PROVE  \/ status'[so] = status[so] /\ reversals'[so] = reversals[so]
         \/ /\ status[so] = "NONE" /\ status'[so] = "NEW"
            /\ reversals'[so] = reversals[so]
         \/ /\ Placed(so) /\ status[so] # "CANCELLED"
            /\ \/ status'[so] = status[so]
               \/ Allowed(Admin, status[so], status'[so])
            /\ reversals'[so] = IF status'[so] = "CANCELLED"
                                THEN reversals[so] + 1
                                ELSE reversals[so]
  <1>1. TypeOK
    BY DEF MoveInv, PlaceInv
  <1>2. ASSUME NEW o \in Orders, CommitCheckout(o)
        PROVE  /\ reversals'[so] = reversals[so]
               /\ \/ status'[so] = status[so]
                  \/ status[so] = "NONE" /\ status'[so] = "NEW"
    <2>1. so[1] = o => status[so] = "NONE"
      BY <1>2, FreshCheckout DEF MoveInv, Placed
    <2> QED
      BY <1>2, <2>1 DEF CommitCheckout
  <1>3. ASSUME NEW c \in Callers, CommitTransition(c), so = call[c].so
        PROVE  /\ Placed(so) /\ status[so] # "CANCELLED"
               /\ \/ status'[so] = status[so]
                  \/ Allowed(Admin, status[so], status'[so])
               /\ reversals'[so] = IF status'[so] = "CANCELLED"
                                   THEN reversals[so] + 1
                                   ELSE reversals[so]
    <2>1. call[c] \in [pc : {"writing"}, so : SellerOrders, from : Statuses,
                       to : Statuses, aggregate : OrderStatuses]
      BY <1>1, <1>3, CallFields DEF CommitTransition
    <2>2. DecisionHolds(c)
      BY <1>3 DEF CommitTransition, MoveInv, DecisionsHold
    <2>3. Allowed(Admin, call[c].from, call[c].to)
      BY <2>2 DEF DecisionHolds, Allowed
    <2>4. call[c].from # "CANCELLED"
      BY <2>1, <2>3 DEF Allowed, ValidTransition, Shipped
    <2>5. Placed(so) /\ status[so] # "CANCELLED"
      BY <1>3, <2>1, <2>2, <2>4 DEF DecisionHolds, Placed, Statuses
    <2>6. /\ status'[so] = call[c].to
          /\ reversals'[so] = IF call[c].to = "CANCELLED"
                              THEN reversals[so] + 1
                              ELSE reversals[so]
      BY <1>1, <1>3 DEF CommitTransition, TypeOK
    <2>7. \/ status[so] = call[c].from
          \/ call[c].from = "NEW" /\ status[so] = "PROCESSING"
      <3>1. so = call[c].so
        BY <1>3
      <3> QED
        BY <2>2, <3>1 DEF DecisionHolds
    <2>8. \/ call[c].to = status[so]
          \/ Allowed(Admin, status[so], call[c].to)
      BY <2>1, <2>3, <2>7 DEF Allowed, ValidTransition, Shipped
    <2> QED
      BY <2>5, <2>6, <2>8
  <1>4. ASSUME NEW c \in Callers, CommitTransition(c), so # call[c].so
        PROVE  status'[so] = status[so] /\ reversals'[so] = reversals[so]
    BY <1>1, <1>4 DEF CommitTransition, TypeOK
  <1>5. ASSUME CommitAdvance
        PROVE  /\ reversals'[so] = reversals[so]
               /\ \/ status'[so] = status[so]
                  \/ /\ status[so] = "NEW" /\ status'[so] = "PROCESSING"
    BY <1>1, <1>5 DEF CommitAdvance, MoveInv, AdvanceHolds, TypeOK
  <1>6. "PROCESSING" # "CANCELLED" /\ Allowed(Admin, "NEW", "PROCESSING")
    BY DEF Allowed, ValidTransition
  <1>7. \/ UNCHANGED << status, reversals >>
        \/ \E o \in Orders : CommitCheckout(o)
        \/ \E c \in Callers : CommitTransition(c)
        \/ CommitAdvance
    BY DEF Next, vars, AddItem, ChangeItem, Archive, Restore, LoadCart,
           Validate, RollBackCheckout, CheckTransition, LockSellerOrder,
           RollBackTransition, BeginAdvance, RollBackAdvance, SkipAdvance
  <1>8. CASE UNCHANGED << status, reversals >>
    BY <1>8
  <1>9. CASE CommitAdvance
    BY <1>5, <1>6, <1>9 DEF Placed
  <1> QED
    BY <1>2, <1>3, <1>4, <1>7, <1>8, <1>9

(* Unless two callers changed a SellerOrder at once, its ledger entries are *)
(* reversed exactly once, when it is cancelled: neither the consumer, nor   *)
(* the checkouts, nor callers who race for its siblings reverse them again  *)
(* or move it out of CANCELLED.                                             *)
THEOREM CancelledIsReversedOnce == Spec => []ReversedOnce
  <1>1. Init => MoveInv /\ ReversedOnce
    BY MoveInit DEF Init, ReversedOnce
  <1>2. MoveInv /\ ReversedOnce /\ [Next]_vars => MoveInv' /\ ReversedOnce'
    <2> SUFFICES ASSUME MoveInv, ReversedOnce, [Next]_vars
                 PROVE  MoveInv' /\ ReversedOnce'
      OBVIOUS
    <2>1. ASSUME NEW so \in SellerOrders, so \notin raced'
          PROVE  reversals'[so] = IF status'[so] = "CANCELLED" THEN 1 ELSE 0
      <3>1. so \notin raced
        BY <2>1, RacedStay
      <3>2. reversals[so] = IF status[so] = "CANCELLED" THEN 1 ELSE 0
        BY <3>1 DEF ReversedOnce
      <3> QED
        BY <3>1, <3>2, StatusSteps
    <2> QED
      BY <2>1, MoveStep DEF ReversedOnce
  <1> QED
    BY <1>1, <1>2, PTL DEF Spec

(* No step takes a SellerOrder off the transition table before two callers  *)
(* have changed it at once: CANCELLED is final, and a late                  *)
(* SellerOrderCreated event never moves it back.                            *)
THEOREM EveryMoveIsLegal == Spec => MovesAreLegal
  <1>1. MoveInv /\ [Next]_vars => MoveInv'
    BY MoveStep
  <1>2. MoveInv /\ [Next]_vars =>
          [\A so \in SellerOrders \ raced :
             \/ status'[so] = status[so]
             \/ status[so] = "NONE" /\ status'[so] = "NEW"
             \/ Placed(so) /\ Allowed(Admin, status[so], status'[so])]_vars
    BY StatusSteps
  <1> QED
    BY MoveInit, <1>1, <1>2, PTL DEF Spec, MovesAreLegal

-----------------------------------------------------------------------------
(* The parent of an order whose SellerOrders are changed one at a time *)

(* What an aggregate says has happened in the statuses it is taken from, and *)
(* no move takes it back.                                                    *)
LEMMA AggregateIsReached ==
  ASSUME NEW S \in SUBSET Statuses
  PROVE  S \subseteq Reached[Aggregate(S)]
  <1>1. Aggregate(S) \in {"NEW", "PROCESSING", "PARTIALLY_SHIPPED"} =>
          Reached[Aggregate(S)] = Statuses
    BY DEF Reached
  <1>2. \/ Aggregate(S) \in {"NEW", "PROCESSING", "PARTIALLY_SHIPPED"}
        \/ Aggregate(S) = "CANCELLED" /\ S = {"CANCELLED"}
        \/ Aggregate(S) = "COMPLETED" /\ S = {"COMPLETED"}
        \/ Aggregate(S) = "PARTIALLY_CANCELLED" /\ S \subseteq {"COMPLETED", "CANCELLED"}
        \/ Aggregate(S) = "SHIPPED" /\ S \subseteq {"SHIPPED", "COMPLETED", "CANCELLED"}
    BY DEF Aggregate
  <1> QED
    BY <1>1, <1>2 DEF Reached

LEMMA ReachedIsKept ==
  ASSUME NEW P \in OrderStatuses, NEW s \in Reached[P], NEW t \in Statuses,
         Allowed(Admin, s, t)
  PROVE  t \in Reached[P]
  BY DEF OrderStatuses, Statuses, Reached, Allowed, ValidTransition, Shipped

(* The SellerOrders of an order, all or but so, are as far as P says. *)
AllReached(o, P) == \A x \in SellerOrders : x[1] = o /\ Placed(x) => status[x] \in Reached[P]
OthersReached(so, P) ==
  \A x \in SellerOrders : x[1] = so[1] /\ x # so /\ Placed(x) => status[x] \in Reached[P]

(* No two callers were changing a SellerOrder of o at once. *)
Orderly(o) == \A so \in raced : so[1] # o

AheadInv ==
  /\ MoveInv
  /\ \A o \in Orders : parent[o] # "NONE" /\ Orderly(o) => AllReached(o, parent[o])
  /\ \A so, s, aggregate :
       WillWrite(so, s, aggregate) /\ Orderly(so[1]) =>
         s \in Reached[aggregate] /\ OthersReached(so, aggregate)

LEMMA WasOrderly ==
  ASSUME [Next]_vars, NEW o, Orderly(o)'
  PROVE  Orderly(o)
  BY RacedStay DEF Orderly

(* Whoever reads the siblings reads nothing that is not so. *)
LEMMA ReadIsReached ==
  ASSUME TypeOK, NEW so, NEW s \in Statuses
  PROVE  s \in Reached[AggregateWith(so, s)] /\ OthersReached(so, AggregateWith(so, s))
  <1> DEFINE S == {s} \union {status[other] : other \in Siblings(so) \ {so}}
  <1>1. S \in SUBSET Statuses
    BY DEF TypeOK, Siblings, Placed
  <1>2. S \subseteq Reached[AggregateWith(so, s)]
    BY <1>1, AggregateIsReached DEF AggregateWith
  <1>3. \A x \in SellerOrders : x[1] = so[1] /\ x # so /\ Placed(x) => status[x] \in S
    BY DEF Siblings
  <1> HIDE DEF S
  <1>4. s \in S
    BY DEF S
  <1> QED
    BY <1>2, <1>3, <1>4 DEF OthersReached

(* A SellerOrder of a placed order that is as far as P says stays so. *)
LEMMA ReachedStays ==
  ASSUME MoveInv, [Next]_vars, NEW P \in OrderStatuses,
         NEW x \in SellerOrders, x \notin raced, Placed(x), status[x] \in Reached[P]
  PROVE  status'[x] \in Reached[P]
  <1>1. status[x] # "NONE"
    BY DEF Placed
  <1>2. CASE status'[x] = status[x]
    BY <1>2
  <1>3. CASE Allowed(Admin, status[x], status'[x])
    <2>1. status[x] \in Statuses
      BY <1>1 DEF MoveInv, PlaceInv, TypeOK
    <2>2. status'[x] \in Statuses
      BY <1>3, <2>1 DEF Allowed, ValidTransition, Statuses
    <2> QED
      BY <1>3, <2>2, ReachedIsKept
  <1> QED
    BY <1>1, <1>2, <1>3, StatusSteps

LEMMA AheadStep ==
  ASSUME AheadInv, [Next]_vars
  PROVE  AheadInv'
  <1>1. MoveInv /\ MoveInv' /\ PlaceInv /\ TypeOK /\ PlaceInv'
    BY MoveStep DEF AheadInv, MoveInv, PlaceInv
  <1>2. ASSUME NEW so, NEW P \in OrderStatuses, so \in SellerOrders, Placed(so),
               Orderly(so[1]), OthersReached(so, P)
        PROVE  OthersReached(so, P)'
    <2> SUFFICES ASSUME NEW x \in SellerOrders, x[1] = so[1], x # so, status'[x] # "NONE"
                 PROVE  status'[x] \in Reached[P]
      BY DEF OthersReached, Placed
    <2>1. x \in Siblings(so)'
      BY DEF Siblings, Placed
    <2>2. x \in Siblings(so)
      BY <1>1, <1>2, <2>1, SiblingsStay
    <2>3. Placed(x) /\ status[x] \in Reached[P] /\ x \notin raced
      BY <1>2, <2>2 DEF Siblings, OthersReached, Orderly
    <2> QED
      BY <1>1, <2>3, ReachedStays
  <1>3. ASSUME NEW so, NEW s, NEW aggregate, WillWrite(so, s, aggregate)',
               Orderly(so[1])'
        PROVE  s \in Reached[aggregate] /\ OthersReached(so, aggregate)'
    <2>1. CASE WillWrite(so, s, aggregate)
      <3>1. Orderly(so[1])
        BY <1>3, WasOrderly
      <3> QED
        BY <1>1, <1>2, <2>1, <3>1, WritesArePlaced DEF AheadInv
    <2>2. CASE Reads(so, s, aggregate)
      <3>1. s \in Reached[aggregate] /\ OthersReached(so, aggregate)
        BY <1>1, <2>2, ReadIsReached DEF Reads
      <3> QED
        BY <2>2, <3>1 DEF Reads, OthersReached, Placed
    <2> QED
      BY <1>1, <1>3, <2>1, <2>2, WritesAreRead
  <1>4. ASSUME NEW o \in Orders, parent'[o] # "NONE", Orderly(o)',
               NEW x \in SellerOrders, x[1] = o, status'[x] # "NONE"
        PROVE  status'[x] \in Reached[parent'[o]]
    <2> Orderly(o)
      BY <1>4, WasOrderly
    <2>1. ASSUME parent'[o] = parent[o], status'[x] = status[x]
          PROVE  status'[x] \in Reached[parent'[o]]
      BY <1>4, <2>1 DEF AheadInv, AllReached, Placed
    <2>2. ASSUME NEW new \in Orders, CommitCheckout(new)
          PROVE  status'[x] \in Reached[parent'[o]]
      <3>1. CASE new = o
        BY <1>1, <1>4, <2>2, <3>1, FreshCheckout DEF Reached, Statuses
      <3>2. CASE new # o
        BY <1>1, <1>4, <2>1, <2>2, <3>2, FreshCheckout
      <3> QED
        BY <3>1, <3>2
    <2>3. ASSUME NEW so, NEW s, NEW aggregate,
                 WillWrite(so, s, aggregate), Moves(so, s, aggregate)
          PROVE  status'[x] \in Reached[parent'[o]]
      <3>1. /\ so \in SellerOrders /\ Placed(so) /\ aggregate \in OrderStatuses
            /\ o = so[1] => s \in Reached[aggregate] /\ OthersReached(so, aggregate)
        BY <1>1, <2>3, WritesArePlaced DEF AheadInv
      <3>2. CASE o # so[1]
        BY <1>1, <1>4, <2>1, <2>3, <3>2, MovedRows
      <3>3. CASE o = so[1] /\ x = so
        BY <1>1, <2>3, <3>1, <3>3, MovedRows
      <3>4. CASE o = so[1] /\ x # so
        <4>1. OthersReached(so, aggregate)'
          BY <1>2, <3>1, <3>4
        <4>2. status'[x] \in Reached[aggregate]
          BY <1>4, <3>4, <4>1 DEF OthersReached, Placed
        <4> QED
          BY <1>1, <2>3, <3>4, <4>2, MovedRows
      <3> QED
        BY <3>2, <3>3, <3>4
    <2> QED
      BY <1>1, <2>1, <2>2, <2>3, RowSteps
  <1> QED
    BY <1>1, <1>3, <1>4 DEF AheadInv, AllReached, Placed

(* Unless two callers changed one of an order's SellerOrders at once, the    *)
(* parent's status never says of the order what has not happened to all of  *)
(* it, though transactions on its SellerOrders read each other too early     *)
(* and may leave it behind.                                                  *)
THEOREM ParentOnlyLags == Spec => []ParentNeverAhead
  <1>1. Init => AheadInv
    <2>1. ASSUME Init, NEW so, NEW s, NEW aggregate PROVE ~WillWrite(so, s, aggregate)
      BY <2>1 DEF Init, WillWrite, Idle
    <2>2. ASSUME Init, NEW o \in Orders PROVE parent[o] = "NONE"
      BY <2>2 DEF Init
    <2> QED
      BY <2>1, <2>2, MoveInit DEF AheadInv
  <1>2. AheadInv /\ [Next]_vars => AheadInv'
    BY AheadStep
  <1>3. AheadInv => ParentNeverAhead
    BY DEF AheadInv, AllReached, Orderly, ParentNeverAhead, StatusesOf
  <1> QED
    BY <1>1, <1>2, <1>3, PTL DEF Spec

-----------------------------------------------------------------------------
(* The units of a product whose SellerOrders are changed one at a time *)

(* The units of product p in order o. *)
Line(p, o) == {o} \X (1 .. items[o][p])

(* A set of n units. *)
LEMMA UnitsOfOne ==
  ASSUME NEW o, NEW n \in Nat
  PROVE  IsFiniteSet({o} \X (1 .. n)) /\ Cardinality({o} \X (1 .. n)) = n
  <1>1. IsFiniteSet({o}) /\ Cardinality({o}) = 1
    BY FS_Singleton
  <1>2. IsFiniteSet(1 .. n) /\ Cardinality(1 .. n) = n
    BY FS_Interval
  <1>3. /\ IsFiniteSet({o} \X (1 .. n))
        /\ Cardinality({o} \X (1 .. n)) = Cardinality({o}) * Cardinality(1 .. n)
    BY <1>1, <1>2, FS_Product
  <1> QED
    BY <1>1, <1>2, <1>3

LEMMA LineSize ==
  ASSUME TypeOK, NEW p \in Products, NEW o \in Orders
  PROVE  IsFiniteSet(Line(p, o)) /\ Cardinality(Line(p, o)) = items[o][p]
  <1>1. items[o][p] \in Nat
    BY QuantityAssumption DEF TypeOK, Lines
  <1> QED
    BY <1>1, UnitsOfOne DEF Line

LEMMA LinesAreApart ==
  ASSUME NEW p, NEW S
  PROVE  /\ \A u : u \in UnitsIn(p, S) <=>
                  \E o \in Orders : status[<< o, Seller[p] >>] \in S /\ u \in Line(p, o)
         /\ \A o, x, u : u \in Line(p, o) /\ u \in Line(p, x) => o = x
  BY DEF UnitsIn, Line

(* Adding to a finite set what is apart from it, and taking away a part. *)
LEMMA AddedSize ==
  ASSUME NEW U, NEW L, IsFiniteSet(U), IsFiniteSet(L), U \intersect L = {}
  PROVE  /\ IsFiniteSet(U \union L)
         /\ Cardinality(U \union L) = Cardinality(U) + Cardinality(L)
  <1>1. Cardinality(U) \in Nat /\ Cardinality(L) \in Nat
    BY FS_CardinalityType
  <1>2. Cardinality(U \intersect L) = 0
    BY FS_EmptySet, Zenon
  <1>3. /\ IsFiniteSet(U \union L)
        /\ Cardinality(U \union L)
             = Cardinality(U) + Cardinality(L) - Cardinality(U \intersect L)
    BY FS_Union
  <1> QED
    BY <1>1, <1>2, <1>3

LEMMA RemovedSize ==
  ASSUME NEW U, NEW L, IsFiniteSet(U), IsFiniteSet(L), L \subseteq U
  PROVE  /\ IsFiniteSet(U \ L)
         /\ Cardinality(U) = Cardinality(U \ L) + Cardinality(L)
  <1>1. IsFiniteSet(U \ L)
    BY FS_Subset
  <1>2. (U \ L) \union L = U /\ (U \ L) \intersect L = {}
    OBVIOUS
  <1> QED
    BY <1>1, <1>2, AddedSize

(* What the move of a SellerOrder does to the units of a product of its     *)
(* seller, and of another.                                                  *)
LEMMA UnitsMove ==
  ASSUME TypeOK, items' = items, NEW p \in Products, NEW S, NEW o \in Orders, NEW s,
         status' = [status EXCEPT ![<< o, Seller[p] >>] = s]
  PROVE  /\ UnitsIn(p, S)' = IF s \in S THEN UnitsIn(p, S) \union Line(p, o)
                                        ELSE UnitsIn(p, S) \ Line(p, o)
         /\ IF status[<< o, Seller[p] >>] \in S
            THEN Line(p, o) \subseteq UnitsIn(p, S)
            ELSE UnitsIn(p, S) \intersect Line(p, o) = {}
  <1>1. \A x \in Orders : << x, Seller[p] >> \in SellerOrders
    BY DEF SellerOrders, Sellers
  <1>2. /\ status'[<< o, Seller[p] >>] = s
        /\ \A x \in Orders \ {o} : status'[<< x, Seller[p] >>] = status[<< x, Seller[p] >>]
    BY <1>1 DEF TypeOK
  <1>3. \A x \in Orders : Line(p, x)' = Line(p, x)
    BY DEF Line
  <1>4. \A u : u \in UnitsIn(p, S) <=>
          \E x \in Orders : status[<< x, Seller[p] >>] \in S /\ u \in Line(p, x)
    BY LinesAreApart
  <1>5. \A u : u \in UnitsIn(p, S)' <=>
          \E x \in Orders : status'[<< x, Seller[p] >>] \in S /\ u \in Line(p, x)
    BY <1>3 DEF UnitsIn, Line
  <1>6. \A x \in Orders \ {o} : Line(p, x) \intersect Line(p, o) = {}
    BY LinesAreApart
  <1>7. \A u : u \in UnitsIn(p, S)' <=> IF s \in S THEN u \in UnitsIn(p, S) \/ u \in Line(p, o)
                                       ELSE u \in UnitsIn(p, S) /\ u \notin Line(p, o)
    BY <1>2, <1>4, <1>5, <1>6
  <1>8. UnitsIn(p, S)' = IF s \in S THEN UnitsIn(p, S) \union Line(p, o)
                                   ELSE UnitsIn(p, S) \ Line(p, o)
    BY <1>7
  <1>9. IF status[<< o, Seller[p] >>] \in S
        THEN Line(p, o) \subseteq UnitsIn(p, S)
        ELSE UnitsIn(p, S) \intersect Line(p, o) = {}
    BY <1>4, <1>6
  <1> QED
    BY <1>8, <1>9

LEMMA UnitsStay ==
  ASSUME NEW p \in Products, NEW S, items' = items,
         \A x \in Orders : status'[<< x, Seller[p] >>] = status[<< x, Seller[p] >>]
  PROVE  UnitsIn(p, S)' = UnitsIn(p, S)
  BY DEF UnitsIn

(* A step takes the units of one line of p from one place to another.  The  *)
(* stock follows the units, so they remain accounted for.                   *)
UnitsFollow(p) ==
  \/ UNCHANGED << OpenUnits(p), ShippedUnits(p), stock[p] >>
  \/ \E L : /\ IsFiniteSet(L)
            /\ \/ /\ OpenUnits(p) \intersect L = {}
                  /\ OpenUnits(p)' = OpenUnits(p) \union L
                  /\ ShippedUnits(p)' = ShippedUnits(p)
                  /\ stock'[p] = Reserve(stock[p], Cardinality(L))
               \/ /\ L \subseteq OpenUnits(p)
                  /\ OpenUnits(p)' = OpenUnits(p) \ L
                  /\ ShippedUnits(p)' = ShippedUnits(p)
                  /\ stock'[p] = Release(stock[p], Cardinality(L))
               \/ /\ L \subseteq OpenUnits(p)
                  /\ OpenUnits(p)' = OpenUnits(p) \ L
                  /\ ShippedUnits(p) \intersect L = {}
                  /\ ShippedUnits(p)' = ShippedUnits(p) \union L
                  /\ stock'[p] = Consume(stock[p], Cardinality(L))
               \/ /\ L \subseteq ShippedUnits(p)
                  /\ ShippedUnits(p)' = ShippedUnits(p) \ L
                  /\ OpenUnits(p)' = OpenUnits(p)
                  /\ stock'[p] = Return(stock[p], Cardinality(L))

(* UnitsAccounted for one product, of finitely many units. *)
Accounted(p) ==
  /\ IsFiniteSet(OpenUnits(p)) /\ IsFiniteSet(ShippedUnits(p))
  /\ stock[p].reserved = Cardinality(OpenUnits(p))
  /\ stock[p].available + stock[p].reserved + Cardinality(ShippedUnits(p)) = InitialStock

LEMMA FollowedStaysAccounted ==
  ASSUME TypeOK, NEW p \in Products, Accounted(p), UnitsFollow(p)
  PROVE  Accounted(p)'
  <1> DEFINE U == OpenUnits(p)
             V == ShippedUnits(p)
  <1>1. /\ Cardinality(U) \in Nat /\ Cardinality(V) \in Nat
        /\ stock[p].available \in Nat /\ stock[p].reserved \in Nat
        /\ InitialStock \in Nat
    BY FS_CardinalityType, QuantityAssumption DEF Accounted, TypeOK, InventoryRow
  <1>2. CASE UNCHANGED << U, V, stock[p] >>
    BY <1>2 DEF Accounted
  <1>3. ASSUME NEW L, IsFiniteSet(L), U \intersect L = {}, U' = U \union L, V' = V,
               stock'[p] = Reserve(stock[p], Cardinality(L))
        PROVE  Accounted(p)'
    <2>1. IsFiniteSet(U \union L) /\ Cardinality(U \union L) = Cardinality(U) + Cardinality(L)
      BY <1>3, AddedSize DEF Accounted
    <2>2. IsFiniteSet(U') /\ Cardinality(U') = Cardinality(U) + Cardinality(L)
      BY <1>3, <2>1
    <2>3. /\ stock'[p].available = stock[p].available - Cardinality(L)
          /\ stock'[p].reserved = stock[p].reserved + Cardinality(L)
      BY <1>3 DEF Reserve
    <2>4. Cardinality(L) \in Nat
      BY <1>3, FS_CardinalityType
    <2>5. IsFiniteSet(V') /\ Cardinality(V') = Cardinality(V)
      BY <1>3 DEF Accounted
    <2> HIDE DEF U, V
    <2>6. /\ stock[p].reserved = Cardinality(U)
          /\ stock[p].available + stock[p].reserved + Cardinality(V) = InitialStock
      BY DEF Accounted, U, V
    <2>7. /\ stock'[p].reserved = Cardinality(U')
          /\ stock'[p].available + stock'[p].reserved + Cardinality(V') = InitialStock
      BY <1>1, <2>2, <2>3, <2>4, <2>5, <2>6
    <2> QED
      BY <2>2, <2>5, <2>7 DEF Accounted, U, V
  <1>4. ASSUME NEW L, IsFiniteSet(L), L \subseteq U, U' = U \ L, V' = V,
               stock'[p] = Release(stock[p], Cardinality(L))
        PROVE  Accounted(p)'
    <2>1. IsFiniteSet(U \ L) /\ Cardinality(U) = Cardinality(U \ L) + Cardinality(L)
      BY <1>4, RemovedSize DEF Accounted
    <2>2. /\ IsFiniteSet(U') /\ Cardinality(U) = Cardinality(U') + Cardinality(L)
          /\ Cardinality(U') \in Nat /\ Cardinality(L) \in Nat
      BY <1>4, <2>1, FS_CardinalityType
    <2>3. IsFiniteSet(V') /\ Cardinality(V') = Cardinality(V)
      BY <1>4 DEF Accounted
    <2> HIDE DEF U, V
    <2>4. /\ stock[p].reserved = Cardinality(U)
          /\ stock[p].available + stock[p].reserved + Cardinality(V) = InitialStock
      BY DEF Accounted, U, V
    <2>5. stock[p].reserved >= Cardinality(L)
      BY <2>2, <2>4
    <2>6. /\ stock'[p].available = stock[p].available + Cardinality(L)
          /\ stock'[p].reserved = stock[p].reserved - Cardinality(L)
      BY <1>4, <2>5 DEF Release
    <2>7. /\ stock'[p].reserved = Cardinality(U')
          /\ stock'[p].available + stock'[p].reserved + Cardinality(V') = InitialStock
      BY <1>1, <2>2, <2>3, <2>4, <2>6
    <2> QED
      BY <2>2, <2>3, <2>7 DEF Accounted, U, V
  <1>5. ASSUME NEW L, IsFiniteSet(L), L \subseteq U, U' = U \ L,
               V \intersect L = {}, V' = V \union L,
               stock'[p] = Consume(stock[p], Cardinality(L))
        PROVE  Accounted(p)'
    <2>1. /\ IsFiniteSet(U \ L) /\ Cardinality(U) = Cardinality(U \ L) + Cardinality(L)
          /\ IsFiniteSet(V \union L)
          /\ Cardinality(V \union L) = Cardinality(V) + Cardinality(L)
      BY <1>5, RemovedSize, AddedSize DEF Accounted
    <2>2. /\ IsFiniteSet(U') /\ Cardinality(U) = Cardinality(U') + Cardinality(L)
          /\ Cardinality(U') \in Nat /\ Cardinality(L) \in Nat
      BY <1>5, <2>1, FS_CardinalityType
    <2>3. IsFiniteSet(V') /\ Cardinality(V') = Cardinality(V) + Cardinality(L)
      BY <1>5, <2>1
    <2> HIDE DEF U, V
    <2>4. /\ stock[p].reserved = Cardinality(U)
          /\ stock[p].available + stock[p].reserved + Cardinality(V) = InitialStock
      BY DEF Accounted, U, V
    <2>5. stock[p].reserved >= Cardinality(L) /\ stock[p] \in InventoryRow
      BY <2>2, <2>4 DEF TypeOK
    <2>6. /\ stock'[p].available = stock[p].available
          /\ stock'[p].reserved = stock[p].reserved - Cardinality(L)
      BY <1>5, <2>5 DEF Consume, InventoryRow
    <2>7. /\ stock'[p].reserved = Cardinality(U')
          /\ stock'[p].available + stock'[p].reserved + Cardinality(V') = InitialStock
      BY <1>1, <2>2, <2>3, <2>4, <2>6
    <2> QED
      BY <2>2, <2>3, <2>7 DEF Accounted, U, V
  <1>6. ASSUME NEW L, IsFiniteSet(L), L \subseteq V, V' = V \ L, U' = U,
               stock'[p] = Return(stock[p], Cardinality(L))
        PROVE  Accounted(p)'
    <2>1. IsFiniteSet(V \ L) /\ Cardinality(V) = Cardinality(V \ L) + Cardinality(L)
      BY <1>6, RemovedSize DEF Accounted
    <2>2. /\ IsFiniteSet(V') /\ Cardinality(V) = Cardinality(V') + Cardinality(L)
          /\ Cardinality(V') \in Nat /\ Cardinality(L) \in Nat
      BY <1>6, <2>1, FS_CardinalityType
    <2>3. IsFiniteSet(U') /\ Cardinality(U') = Cardinality(U)
      BY <1>6 DEF Accounted
    <2> HIDE DEF U, V
    <2>4. /\ stock[p].reserved = Cardinality(U)
          /\ stock[p].available + stock[p].reserved + Cardinality(V) = InitialStock
      BY DEF Accounted, U, V
    <2>5. stock[p] \in InventoryRow
      BY DEF TypeOK
    <2>6. /\ stock'[p].available = stock[p].available + Cardinality(L)
          /\ stock'[p].reserved = stock[p].reserved
      BY <1>6, <2>5 DEF Return, InventoryRow
    <2>7. /\ stock'[p].reserved = Cardinality(U')
          /\ stock'[p].available + stock'[p].reserved + Cardinality(V') = InitialStock
      BY <1>1, <2>2, <2>3, <2>4, <2>6
    <2> QED
      BY <2>2, <2>3, <2>7 DEF Accounted, U, V
  <1> QED
    BY <1>2, <1>3, <1>4, <1>5, <1>6 DEF UnitsFollow

(* The checkout reserves what its order's SellerOrders will hold. *)
LEMMA CheckoutFollows ==
  ASSUME MoveInv, NEW o \in Orders, CommitCheckout(o), NEW p \in Products
  PROVE  UnitsFollow(p)
  <1> DEFINE lines == checkout[o].lines
             L == {o} \X (1 .. lines[p])
  <1>1. TypeOK /\ PlaceInv
    BY DEF MoveInv, PlaceInv
  <1>2. lines \in Lines /\ lines[p] \in Nat
    BY <1>1, CheckoutFields, QuantityAssumption DEF CommitCheckout, Lines
  <1>3. \A x \in Orders : << x, Seller[p] >> \in SellerOrders
    BY DEF SellerOrders, Sellers
  <1>4. status[<< o, Seller[p] >>] = "NONE"
    BY <1>1, <1>3, FreshCheckout DEF Placed
  <1>5. /\ \A x \in Orders \ {o} : /\ status'[<< x, Seller[p] >>] = status[<< x, Seller[p] >>]
                                   /\ items'[x] = items[x]
        /\ items'[o] = lines
        /\ status'[<< o, Seller[p] >>] \in {"NONE", "NEW"}
        /\ lines[p] > 0 => status'[<< o, Seller[p] >>] = "NEW"
        /\ stock'[p] = Reserve(stock[p], lines[p])
    BY <1>1, <1>3, <1>4 DEF CommitCheckout, TypeOK
  <1>6. IsFiniteSet(L) /\ Cardinality(L) = lines[p]
    BY <1>2, UnitsOfOne
  <1>7. \A x \in Orders \ {o} : Line(p, x)' = Line(p, x)
    BY <1>5 DEF Line
  <1>8. Line(p, o)' = L
    BY <1>5 DEF Line
  <1> HIDE DEF lines, L
  <1>9. \A S, u : u \in UnitsIn(p, S)' <=>
          \E x \in Orders : status'[<< x, Seller[p] >>] \in S /\ u \in Line(p, x)'
    BY DEF UnitsIn, Line
  <1>10. /\ \A x \in Orders \ {o} : L \intersect Line(p, x) = {}
         /\ lines[p] = 0 => L = {}
    BY DEF L, Line
  <1>11. OpenUnits(p) \intersect L = {}
    <2>1. \A u : u \in OpenUnits(p) <=>
            \E x \in Orders : /\ status[<< x, Seller[p] >>] \in {"NEW", "PROCESSING"}
                              /\ u \in Line(p, x)
      BY LinesAreApart DEF OpenUnits
    <2>2. \A u \in OpenUnits(p) : \E x \in Orders \ {o} : u \in Line(p, x)
      BY <1>4, <2>1
    <2> QED
      BY <1>10, <2>2
  <1>12. OpenUnits(p)' = OpenUnits(p) \union L
    <2>1. \A u : u \in OpenUnits(p) <=>
            \E x \in Orders : /\ status[<< x, Seller[p] >>] \in {"NEW", "PROCESSING"}
                              /\ u \in Line(p, x)
      BY LinesAreApart DEF OpenUnits
    <2>2. \A u : u \in OpenUnits(p)' <=>
            \E x \in Orders : /\ status'[<< x, Seller[p] >>] \in {"NEW", "PROCESSING"}
                              /\ u \in Line(p, x)'
      BY <1>9 DEF OpenUnits
    <2>3. lines[p] > 0 \/ L = {}
      BY <1>2, <1>10
    <2>4. \A u : u \in OpenUnits(p)' <=> u \in OpenUnits(p) \/ u \in L
      BY <1>4, <1>5, <1>7, <1>8, <2>1, <2>2, <2>3
    <2> QED
      BY <2>4
  <1>13. ShippedUnits(p)' = ShippedUnits(p)
    <2>1. \A u : u \in ShippedUnits(p) <=>
            \E x \in Orders : /\ status[<< x, Seller[p] >>] \in {"SHIPPED", "COMPLETED"}
                              /\ u \in Line(p, x)
      BY LinesAreApart DEF ShippedUnits
    <2>2. \A u : u \in ShippedUnits(p)' <=>
            \E x \in Orders : /\ status'[<< x, Seller[p] >>] \in {"SHIPPED", "COMPLETED"}
                              /\ u \in Line(p, x)'
      BY <1>9 DEF ShippedUnits
    <2>3. \A x \in Orders :
            /\ status'[<< x, Seller[p] >>] \in {"SHIPPED", "COMPLETED"}
                 <=> status[<< x, Seller[p] >>] \in {"SHIPPED", "COMPLETED"}
            /\ status[<< x, Seller[p] >>] \in {"SHIPPED", "COMPLETED"} => Line(p, x)' = Line(p, x)
      BY <1>4, <1>5, <1>7
    <2>4. \A u : u \in ShippedUnits(p)' <=> u \in ShippedUnits(p)
      BY <2>1, <2>2, <2>3
    <2> QED
      BY <2>4
  <1> QED
    BY <1>5, <1>6, <1>11, <1>12, <1>13 DEF UnitsFollow

(* No two callers were changing a SellerOrder with units of p at once. *)
OneByOne(p) == \A o \in Orders : << o, Seller[p] >> \notin raced

(* A status change moves the units its status still allows it to move: what *)
(* it read before its transaction is what it overwrites.                    *)
LEMMA TransitionFollows ==
  ASSUME MoveInv, NEW c \in Callers, CommitTransition(c), NEW p \in Products, OneByOne(p)
  PROVE  UnitsFollow(p)
  <1> DEFINE so == call[c].so
             from == call[c].from
             to == call[c].to
  <1>1. TypeOK
    BY DEF MoveInv, PlaceInv
  <1>2. call[c] \in [pc : {"writing"}, so : SellerOrders, from : Statuses,
                     to : Statuses, aggregate : OrderStatuses]
    BY <1>1, CallFields DEF CommitTransition
  <1>3. /\ so[1] \in Orders /\ so = << so[1], so[2] >> /\ so \in SellerOrders
        /\ from \in Statuses /\ to \in Statuses
    BY <1>2 DEF SellerOrders
  <1>4. Seller[p] = so[2] =>
          /\ Allowed(Admin, from, to)
          /\ \/ status[so] = from
             \/ from = "NEW" /\ status[so] = "PROCESSING"
    <2>1. Seller[p] = so[2] => so \notin raced
      BY <1>3 DEF OneByOne
    <2> QED
      BY <2>1 DEF CommitTransition, MoveInv, DecisionsHold, DecisionHolds, Allowed
  <1>5. /\ items' = items /\ status' = [status EXCEPT ![so] = to]
        /\ stock'[p] = IF Seller[p] = so[2]
                       THEN StockMove(stock[p], items[so[1]][p], from, to)
                       ELSE stock[p]
    BY DEF CommitTransition
  <1> HIDE DEF so, from, to
  <1>6. CASE Seller[p] # so[2]
    <2>1. \A x \in Orders : status'[<< x, Seller[p] >>] = status[<< x, Seller[p] >>]
      BY <1>1, <1>3, <1>5, <1>6 DEF TypeOK, SellerOrders, Sellers
    <2> QED
      BY <1>5, <1>6, <2>1, UnitsStay DEF UnitsFollow, OpenUnits, ShippedUnits
  <1>7. CASE Seller[p] = so[2]
    <2> DEFINE L == Line(p, so[1])
    <2>1. IsFiniteSet(L) /\ Cardinality(L) = items[so[1]][p]
      BY <1>1, <1>3, LineSize
    <2>2. status' = [status EXCEPT ![<< so[1], Seller[p] >>] = to]
      BY <1>3, <1>5, <1>7
    <2>3. status[<< so[1], Seller[p] >>] = status[so]
      BY <1>3, <1>7
    <2>4. \A S : /\ UnitsIn(p, S)' = IF to \in S THEN UnitsIn(p, S) \union L
                                               ELSE UnitsIn(p, S) \ L
                 /\ IF status[so] \in S THEN L \subseteq UnitsIn(p, S)
                    ELSE UnitsIn(p, S) \intersect L = {}
      <3>1. items' = items /\ so[1] \in Orders
        BY <1>3, <1>5
      <3> DEFINE o == so[1]
      <3> HIDE DEF o
      <3>2. /\ o \in Orders
            /\ status' = [status EXCEPT ![<< o, Seller[p] >>] = to]
            /\ status[<< o, Seller[p] >>] = status[so]
        BY <2>2, <2>3, <3>1 DEF o
      <3>3. L = Line(p, o)
        BY DEF o
      <3> HIDE DEF L
      <3>4. ASSUME NEW S
            PROVE  /\ UnitsIn(p, S)' = IF to \in S THEN UnitsIn(p, S) \union Line(p, o)
                                       ELSE UnitsIn(p, S) \ Line(p, o)
                   /\ IF status[<< o, Seller[p] >>] \in S
                      THEN Line(p, o) \subseteq UnitsIn(p, S)
                      ELSE UnitsIn(p, S) \intersect Line(p, o) = {}
        BY <1>1, <3>1, <3>2, UnitsMove
      <3> QED
        BY <3>2, <3>3, <3>4
    <2> HIDE DEF L
    <2>5. /\ OpenUnits(p)' = IF to \in {"NEW", "PROCESSING"}
                             THEN OpenUnits(p) \union L ELSE OpenUnits(p) \ L
          /\ IF status[so] \in {"NEW", "PROCESSING"}
             THEN L \subseteq OpenUnits(p) ELSE OpenUnits(p) \intersect L = {}
          /\ ShippedUnits(p)' = IF to \in {"SHIPPED", "COMPLETED"}
                                THEN ShippedUnits(p) \union L ELSE ShippedUnits(p) \ L
          /\ IF status[so] \in {"SHIPPED", "COMPLETED"}
             THEN L \subseteq ShippedUnits(p) ELSE ShippedUnits(p) \intersect L = {}
      BY <2>4 DEF OpenUnits, ShippedUnits
    <2>6. stock'[p] = StockMove(stock[p], Cardinality(L), from, to)
      BY <1>5, <1>7, <2>1
    <2>7. CASE to = "CANCELLED" /\ status[so] \in {"NEW", "PROCESSING"}
      <3>1. from \in {"NEW", "PROCESSING"}
        BY <1>4, <1>7, <2>7
      <3>2. stock'[p] = Release(stock[p], Cardinality(L))
        BY <2>6, <2>7, <3>1 DEF StockMove, Shipped
      <3>3. /\ L \subseteq OpenUnits(p) /\ OpenUnits(p)' = OpenUnits(p) \ L
            /\ ShippedUnits(p)' = ShippedUnits(p)
        BY <2>5, <2>7
      <3> QED
        BY <2>1, <3>2, <3>3 DEF UnitsFollow
    <2>8. CASE to = "CANCELLED" /\ status[so] \in {"SHIPPED", "COMPLETED"}
      <3>1. from \in {"SHIPPED", "COMPLETED"}
        BY <1>4, <1>7, <2>8
      <3>2. stock'[p] = Return(stock[p], Cardinality(L))
        BY <2>6, <2>8, <3>1 DEF StockMove, Shipped
      <3>3. /\ L \subseteq ShippedUnits(p) /\ ShippedUnits(p)' = ShippedUnits(p) \ L
            /\ OpenUnits(p)' = OpenUnits(p)
        BY <2>5, <2>8
      <3> QED
        BY <2>1, <3>2, <3>3 DEF UnitsFollow
    <2>9. CASE to = "SHIPPED" /\ status[so] = "PROCESSING"
      <3>1. stock'[p] = Consume(stock[p], Cardinality(L))
        BY <2>6, <2>9 DEF StockMove
      <3>2. /\ L \subseteq OpenUnits(p) /\ OpenUnits(p)' = OpenUnits(p) \ L
            /\ ShippedUnits(p) \intersect L = {}
            /\ ShippedUnits(p)' = ShippedUnits(p) \union L
        BY <2>5, <2>9
      <3> QED
        BY <2>1, <3>1, <3>2 DEF UnitsFollow
    <2>10. CASE \/ to = "COMPLETED" /\ status[so] = "SHIPPED"
                \/ to = "PROCESSING" /\ status[so] \in {"NEW", "PROCESSING"}
      <3>1. stock'[p] = stock[p]
        BY <2>6, <2>10 DEF StockMove
      <3>2. OpenUnits(p)' = OpenUnits(p) /\ ShippedUnits(p)' = ShippedUnits(p)
        BY <2>5, <2>10
      <3> QED
        BY <3>1, <3>2 DEF UnitsFollow
    <2> QED
      BY <1>3, <1>4, <1>7, <2>7, <2>8, <2>9, <2>10
      DEF Allowed, ValidTransition, Shipped, Statuses
  <1> QED
    BY <1>6, <1>7

(* From NEW to PROCESSING the units stay where they are. *)
LEMMA AdvanceFollows ==
  ASSUME MoveInv, CommitAdvance, NEW p \in Products
  PROVE  UnitsFollow(p)
  <1>1. TypeOK
    BY DEF MoveInv, PlaceInv
  <1>2. job.so \in SellerOrders /\ status[job.so] = "NEW"
    BY <1>1, JobFields DEF CommitAdvance, MoveInv, AdvanceHolds
  <1>3. \A x \in Orders : << x, Seller[p] >> \in SellerOrders
    BY DEF SellerOrders, Sellers
  <1>4. /\ items' = items /\ stock' = stock
        /\ \A x \in Orders : \/ status'[<< x, Seller[p] >>] = status[<< x, Seller[p] >>]
                             \/ /\ status[<< x, Seller[p] >>] = "NEW"
                                /\ status'[<< x, Seller[p] >>] = "PROCESSING"
    BY <1>1, <1>2, <1>3 DEF CommitAdvance, TypeOK
  <1> QED
    BY <1>4 DEF UnitsFollow, OpenUnits, ShippedUnits, UnitsIn

UnitInv == MoveInv /\ \A p \in Products : OneByOne(p) => Accounted(p)

(* Unless two callers changed one SellerOrder of its seller at once, no unit *)
(* of a product is lost, sold twice or given back twice, whatever checkouts  *)
(* compete for the stock, whenever the consumer's advance falls between      *)
(* them and whoever races for the SellerOrders of other sellers.             *)
THEOREM UnitsAreAccounted == Spec => []UnitsAccounted
  <1>1. Init => UnitInv
    <2>1. ASSUME Init, NEW p \in Products
          PROVE  /\ OpenUnits(p) = {} /\ ShippedUnits(p) = {}
                 /\ stock[p].reserved = 0 /\ stock[p].available = InitialStock
      BY <2>1 DEF Init, OpenUnits, ShippedUnits, UnitsIn, SellerOrders, Sellers
    <2>2. ASSUME Init, NEW p \in Products PROVE Accounted(p)
      <3>1. IsFiniteSet({}) /\ Cardinality({}) = 0
        BY FS_EmptySet
      <3>2. IsFiniteSet(OpenUnits(p)) /\ Cardinality(OpenUnits(p)) = 0
        BY <2>1, <2>2, <3>1, Zenon
      <3>3. IsFiniteSet(ShippedUnits(p)) /\ Cardinality(ShippedUnits(p)) = 0
        BY <2>1, <2>2, <3>1, Zenon
      <3> QED
        BY <2>1, <2>2, <3>2, <3>3, QuantityAssumption DEF Accounted
    <2> QED
      BY <2>2, MoveInit DEF UnitInv
  <1>2. UnitInv /\ [Next]_vars => UnitInv'
    <2> SUFFICES ASSUME UnitInv, [Next]_vars PROVE UnitInv'
      OBVIOUS
    <2>1. MoveInv /\ MoveInv' /\ TypeOK
      BY MoveStep DEF UnitInv, MoveInv, PlaceInv
    <2>2. \/ UNCHANGED << status, items, stock >>
          \/ \E o \in Orders : CommitCheckout(o)
          \/ \E c \in Callers : CommitTransition(c)
          \/ CommitAdvance
      BY DEF Next, vars, AddItem, ChangeItem, Archive, Restore, LoadCart,
             Validate, RollBackCheckout, CheckTransition, LockSellerOrder,
             RollBackTransition, BeginAdvance, RollBackAdvance, SkipAdvance
    <2>3. ASSUME NEW p \in Products, UNCHANGED << status, items, stock >>
          PROVE  UnitsFollow(p)
      BY <2>3 DEF UnitsFollow, OpenUnits, ShippedUnits, UnitsIn
    <2>4. \A p \in Products : OneByOne(p) => UnitsFollow(p)
      BY <2>1, <2>2, <2>3, CheckoutFollows, TransitionFollows, AdvanceFollows
    <2>5. \A p \in Products : OneByOne(p)' => OneByOne(p)
      BY RacedStay DEF OneByOne
    <2>6. \A p \in Products : OneByOne(p)' => Accounted(p)'
      BY <2>1, <2>4, <2>5, FollowedStaysAccounted DEF UnitInv
    <2> QED
      BY <2>1, <2>6 DEF UnitInv
  <1>3. UnitInv => UnitsAccounted
    BY DEF UnitInv, OneByOne, Accounted, UnitsAccounted
  <1> QED
    BY <1>1, <1>2, <1>3, PTL DEF Spec

=============================================================================
