------------------------------ MODULE Shopping ------------------------------
(***************************************************************************)
(* A buyer's tab and the two ways it changes the cart: optimistic edits    *)
(* (features/cart), which guess the result and reconcile it with the       *)
(* server's, and the checkout (features/checkout), which carries the       *)
(* Idempotency-Key of the page it is sent from (IdempotencyInterceptor,    *)
(* IdempotencyKeyService).                                                 *)
(*                                                                         *)
(* Requests may be lost, answered late or never, and arrive in any order;  *)
(* the server may crash.                                                   *)
(***************************************************************************)
EXTENDS Naturals, Sequences, FiniteSets

CONSTANTS
  Goods,
  MaxQuantity, \* bound: units of a product in the cart
  Edits,       \* cart edits in progress at once
  Attempts,    \* checkout requests in progress at once
  Keys,        \* Idempotency-Keys
  MaxOrders,   \* bound: orders placed
  Nothing      \* no key, no attempt, no cart in the cache

ASSUME NothingAssumption == Nothing \notin Attempts \union Keys
ASSUME QuantityAssumption == MaxQuantity \in Nat /\ MaxOrders \in Nat

VARIABLES
  cart,      \* the cart in PostgreSQL
  keys,      \* keys[k]: the IdempotencyKey row
  orders,    \* the orders placed, each with the key it came under
  attempt,   \* attempt[a]: a checkout request at the server
  edit,      \* edit[e]: a cart edit, from onMutate to onSettled
  view,      \* the cart in the tab's query cache
  fetch,     \* the cart query's request
  stale,     \* the query's isInvalidated flag
  key,       \* the key of the checkout page the tab shows
  awaited,   \* the attempt whose answer the tab waits for
  receipts,  \* receipts[k]: the orders the tab was told of under k
  unseen     \* history: the tab is about to show, or shows, a cart that the
             \* server has changed since, and has no reason to ask again

serverVars == << cart, keys, orders >>
tabVars == << view, fetch, stale, key, awaited, receipts >>
shoppingVars == << serverVars, attempt, edit, tabVars, unseen >>

-----------------------------------------------------------------------------
(* Types *)

Quantities == 0 .. MaxQuantity
Carts == [Goods -> Quantities]
EmptyCart == [p \in Goods |-> 0]

AtRest == [pc |-> "idle"]

KeyRow ==
  {[status |-> "ABSENT"], [status |-> "PROCESSING"]}
    \union [status : {"COMPLETED"}, order : Nat]

(* lost: the commit took effect, but the handler saw an error. *)
OrderRow == [key : Keys, lost : BOOLEAN]

(* answered, recorded: what became of the answer and of complete. *)
AttemptState ==
  {AtRest}
    \union [pc : {"sent", "conflict", "begun", "read", "failing", "refused"}, key : Keys]
    \union [pc : {"replay"}, key : Keys, order : Nat]
    \union [pc : {"placed"}, key : Keys, order : Nat,
            answered : BOOLEAN, recorded : BOOLEAN]

Changes ==
  [op : {"add", "remove"}, product : Goods]
    \union [op : {"set"}, product : Goods, quantity : 1 .. MaxQuantity]

(* orphaned: the tab has given the edit up, the server has not. *)
EditState ==
  {AtRest}
    \union [pc : {"sent", "done", "refused"}, change : Changes,
            before : Carts \union {Nothing}]
    \union [pc : {"orphaned"}, change : Changes]

FetchState == {AtRest, [pc |-> "sent"]} \union [pc : {"read"}, cart : Carts]

ShoppingTypeOK ==
  /\ cart \in Carts
  /\ keys \in [Keys -> KeyRow]
  /\ orders \in Seq(OrderRow)
  /\ attempt \in [Attempts -> AttemptState]
  /\ edit \in [Edits -> EditState]
  /\ view \in Carts \union {Nothing}
  /\ fetch \in FetchState
  /\ stale \in BOOLEAN
  /\ key \in Keys \union {Nothing}
  /\ awaited \in Attempts \union {Nothing}
  /\ receipts \in [Keys -> SUBSET Nat]
  /\ unseen \in BOOLEAN

-----------------------------------------------------------------------------
(* The cart query *)

(* invalidateQueries refetches at once, in place of a fetch under way: but  *)
(* as long as there is no cart to show it joins that fetch, which may have   *)
(* been answered already.                                                   *)
Joins == view = Nothing /\ fetch.pc # "idle"
Invalidate ==
  /\ stale' = TRUE
  /\ fetch' = IF Joins THEN fetch ELSE [pc |-> "sent"]
  /\ unseen' = (unseen \/ (Joins /\ fetch.pc = "read" /\ fetch.cart # cart))

ReadCart ==
  /\ fetch.pc = "sent"
  /\ fetch' = [pc |-> "read", cart |-> cart]
  /\ UNCHANGED << serverVars, attempt, edit, view, stale, key, awaited, receipts, unseen >>

ShowCart ==
  /\ fetch.pc = "read"
  /\ view' = fetch.cart
  /\ stale' = FALSE
  /\ fetch' = AtRest
  /\ unseen' = (unseen /\ fetch.cart # cart)
  /\ UNCHANGED << serverVars, attempt, edit, key, awaited, receipts >>

FailFetch ==
  /\ fetch.pc # "idle"
  /\ fetch' = AtRest
  /\ UNCHANGED << serverVars, attempt, edit, view, stale, key, awaited, receipts, unseen >>

(* A window focus or a remount asks again. *)
Refetch ==
  /\ fetch.pc = "idle"
  /\ stale \/ view = Nothing \/ unseen
  /\ fetch' = [pc |-> "sent"]
  /\ UNCHANGED << serverVars, attempt, edit, view, stale, key, awaited, receipts, unseen >>

-----------------------------------------------------------------------------
(* Edits: useAddToCart, useUpdateCartItem, useRemoveCartItem *)

(* The tab's guess; a line that is not shown is neither set nor removed. *)
Changed(c, change) ==
  LET p == change.product
  IN CASE change.op = "add"    -> [c EXCEPT ![p] = @ + 1]
       [] change.op = "remove" -> [c EXCEPT ![p] = 0]
       [] change.op = "set"    -> [c EXCEPT ![p] = IF @ = 0 THEN 0 ELSE change.quantity]

Fits(c, change) == change.op = "add" => c[change.product] < MaxQuantity

(* onMutate: cancel the fetch, take the snapshot, show the guess, send. *)
StartEdit(e, change) ==
  /\ edit[e].pc = "idle"
  /\ view # Nothing => Fits(view, change)
  /\ fetch' = AtRest
  /\ view' = IF view = Nothing THEN Nothing ELSE Changed(view, change)
  /\ stale' = (stale /\ view = Nothing)
  /\ edit' = [edit EXCEPT ![e] = [pc |-> "sent", change |-> change, before |-> view]]
  /\ UNCHANGED << serverVars, attempt, key, awaited, receipts, unseen >>

(* CartService.addItem, updateItemQuantity, removeItem: a missing line is a *)
(* 404.                                                                     *)
Applies(change) == change.op = "add" \/ cart[change.product] > 0

ApplyEdit(e) ==
  /\ edit[e].pc \in {"sent", "orphaned"}
  /\ Applies(edit[e].change)
  /\ Fits(cart, edit[e].change)
  /\ cart' = Changed(cart, edit[e].change)
  /\ IF edit[e].pc = "sent"
     THEN edit' = [edit EXCEPT ![e].pc = "done"] /\ UNCHANGED unseen
     ELSE edit' = [edit EXCEPT ![e] = AtRest] /\ unseen' = TRUE
  /\ UNCHANGED << keys, orders, attempt, tabVars >>

(* Refused, or dropped on the way. *)
RefuseEdit(e) ==
  /\ edit[e].pc \in {"sent", "orphaned"}
  /\ edit' = [edit EXCEPT ![e] = IF @.pc = "sent" THEN [@ EXCEPT !.pc = "refused"] ELSE AtRest]
  /\ UNCHANGED << serverVars, attempt, tabVars, unseen >>

(* onSettled: the server's numbers replace the guess. *)
Reconcile_AfterFailure(failed) ==
  IF failed THEN Invalidate ELSE UNCHANGED << stale, fetch, unseen >>
Reconcile(failed) == Invalidate

RollBack(before) == view' = IF before = Nothing THEN view ELSE before

EndEdit(e) ==
  /\ edit[e].pc \in {"done", "refused"}
  /\ IF edit[e].pc = "done" THEN UNCHANGED view ELSE RollBack(edit[e].before)
  /\ Reconcile(edit[e].pc = "refused")
  /\ edit' = [edit EXCEPT ![e] = AtRest]
  /\ UNCHANGED << serverVars, attempt, key, awaited, receipts >>

(* The answer is lost, whether or not the server has applied the edit. *)
LoseEdit(e) ==
  /\ edit[e].pc \in {"sent", "done"}
  /\ RollBack(edit[e].before)
  /\ Reconcile(TRUE)
  /\ edit' = [edit EXCEPT ![e] =
                IF @.pc = "done" THEN AtRest ELSE [pc |-> "orphaned", change |-> @.change]]
  /\ UNCHANGED << serverVars, attempt, key, awaited, receipts >>

-----------------------------------------------------------------------------
(* Checkout in the tab: useCartCheckout *)

(* One key per mount of the page. *)
OpenCheckout(k) ==
  /\ key = Nothing
  /\ keys[k].status = "ABSENT" /\ receipts[k] = {}
  /\ \A a \in Attempts : attempt[a].pc # "idle" => attempt[a].key # k
  /\ \A n \in DOMAIN orders : orders[n].key # k
  /\ key' = k
  /\ UNCHANGED << serverVars, attempt, edit, view, fetch, stale, awaited, receipts, unseen >>

LeaveCheckout ==
  /\ key # Nothing
  /\ key' = Nothing
  /\ UNCHANGED << serverVars, attempt, edit, view, fetch, stale, awaited, receipts, unseen >>

(* A click, the first or one after an error, reuses the key. *)
Click(a) ==
  /\ key # Nothing /\ awaited = Nothing
  /\ attempt[a].pc = "idle"
  /\ attempt' = [attempt EXCEPT ![a] = [pc |-> "sent", key |-> key]]
  /\ awaited' = a
  /\ UNCHANGED << serverVars, edit, view, fetch, stale, key, receipts, unseen >>

(* What an attempt leaves behind: a placed order is finished when it is     *)
(* answered and recorded.                                                   *)
Answered(a) ==
  IF attempt[a].pc = "placed" /\ ~attempt[a].recorded
  THEN [attempt[a] EXCEPT !.answered = TRUE] ELSE AtRest

ReceiveOrder(a) ==
  /\ awaited = a
  /\ attempt[a].pc \in {"placed", "replay"}
  /\ receipts' = [receipts EXCEPT ![attempt[a].key] = @ \union {attempt[a].order}]
  /\ attempt' = [attempt EXCEPT ![a] = Answered(a)]
  /\ awaited' = Nothing
  /\ Invalidate
  /\ UNCHANGED << serverVars, edit, view, key >>

ReceiveError(a) ==
  /\ awaited = a
  /\ attempt[a].pc = "refused"
  /\ attempt' = [attempt EXCEPT ![a] = AtRest]
  /\ awaited' = Nothing
  /\ UNCHANGED << serverVars, edit, view, fetch, stale, key, receipts, unseen >>

(* The connection is lost, and the server goes on. *)
LoseCheckout(a) ==
  /\ awaited = a
  /\ awaited' = Nothing
  /\ attempt' = [attempt EXCEPT ![a] =
                   IF @.pc \in {"placed", "replay", "refused"} THEN Answered(a) ELSE @]
  /\ unseen' = (unseen \/ attempt[a].pc = "placed")
  /\ UNCHANGED << serverVars, edit, view, fetch, stale, key, receipts >>

-----------------------------------------------------------------------------
(* Checkout at the server *)

Goes(a, state) == attempt' = [attempt EXCEPT ![a] = state]

(* An error goes to whoever still waits for it. *)
Refuse(a) ==
  Goes(a, IF awaited = a THEN [pc |-> "refused", key |-> attempt[a].key] ELSE AtRest)

(* begin: the unique index on (key, userId) decides. *)
Taken_NoIndex(k) == keys[k].status = "COMPLETED"
Taken(k) == keys[k].status # "ABSENT"

Begin(a) ==
  /\ attempt[a].pc = "sent"
  /\ LET k == attempt[a].key
     IN \/ /\ Taken(k)
           /\ Goes(a, [pc |-> "conflict", key |-> k])
           /\ UNCHANGED keys
        \/ /\ ~Taken(k)
           /\ keys' = [keys EXCEPT ![k] = [status |-> "PROCESSING"]]
           /\ Goes(a, [pc |-> "begun", key |-> k])
  /\ UNCHANGED << cart, orders, edit, tabVars, unseen >>

(* Replay what is COMPLETED; a row in PROCESSING, or gone by now, is a 409. *)
LookUp(a) ==
  /\ attempt[a].pc = "conflict"
  /\ LET row == keys[attempt[a].key]
     IN IF row.status = "COMPLETED"
        THEN Goes(a, IF awaited = a
                     THEN [pc |-> "replay", key |-> attempt[a].key, order |-> row.order]
                     ELSE AtRest)
        ELSE Refuse(a)
  /\ UNCHANGED << serverVars, edit, tabVars, unseen >>

(* OrdersService.checkout reads the cart before its transaction; an empty   *)
(* one is an error.                                                         *)
ReadLines(a) ==
  /\ attempt[a].pc = "begun"
  /\ Goes(a, [attempt[a] EXCEPT !.pc = IF cart = EmptyCart THEN "failing" ELSE "read"])
  /\ UNCHANGED << serverVars, edit, tabVars, unseen >>

(* The order is placed and the cart emptied; the handler may take a commit  *)
(* that took effect for a failed one.                                       *)
Place(a, lost) ==
  /\ attempt[a].pc = "read"
  /\ Len(orders) < MaxOrders
  /\ orders' = Append(orders, [key |-> attempt[a].key, lost |-> lost])
  /\ cart' = EmptyCart
  /\ Goes(a, IF lost THEN [attempt[a] EXCEPT !.pc = "failing"]
             ELSE [pc |-> "placed", key |-> attempt[a].key, order |-> Len(orders) + 1,
                   answered |-> awaited # a, recorded |-> FALSE])
  /\ unseen' = (unseen \/ lost \/ awaited # a)
  /\ UNCHANGED << keys, edit, tabVars >>

(* No stock, an archived product, a lost connection. *)
FailCheckout(a) ==
  /\ attempt[a].pc \in {"begun", "read"}
  /\ Goes(a, [attempt[a] EXCEPT !.pc = "failing"])
  /\ UNCHANGED << serverVars, edit, tabVars, unseen >>

(* release swallows its own errors: the row may stay. *)
ReleaseKey(a) ==
  /\ attempt[a].pc = "failing"
  /\ \/ keys' = [keys EXCEPT ![attempt[a].key] = [status |-> "ABSENT"]]
     \/ UNCHANGED keys
  /\ Refuse(a)
  /\ UNCHANGED << cart, orders, edit, tabVars, unseen >>

(* complete is not waited for: it comes before or after the answer. *)
Complete(a) ==
  /\ attempt[a].pc = "placed" /\ ~attempt[a].recorded
  /\ keys' = [keys EXCEPT ![attempt[a].key] =
                [status |-> "COMPLETED", order |-> attempt[a].order]]
  /\ Goes(a, IF attempt[a].answered THEN AtRest ELSE [attempt[a] EXCEPT !.recorded = TRUE])
  /\ UNCHANGED << cart, orders, edit, tabVars, unseen >>

(* The instance dies with its requests: rows in PROCESSING stay.  The tab's  *)
(* connection breaks, and what was placed it does not learn.                 *)
Crash ==
  /\ \E a \in Attempts : attempt[a].pc # "idle"
  /\ attempt' = [a \in Attempts |-> AtRest]
  /\ awaited' = Nothing
  /\ unseen' = (unseen \/ \E a \in Attempts : awaited = a /\ attempt[a].pc = "placed")
  /\ UNCHANGED << serverVars, edit, view, fetch, stale, key, receipts >>

-----------------------------------------------------------------------------
ShoppingInit ==
  /\ cart \in Carts
  /\ keys = [k \in Keys |-> [status |-> "ABSENT"]]
  /\ orders = << >>
  /\ attempt = [a \in Attempts |-> AtRest]
  /\ edit = [e \in Edits |-> AtRest]
  /\ view = Nothing
  /\ fetch = [pc |-> "sent"]
  /\ stale = FALSE
  /\ key = Nothing
  /\ awaited = Nothing
  /\ receipts = [k \in Keys |-> {}]
  /\ unseen = FALSE

QueryStep == ReadCart \/ ShowCart \/ FailFetch \/ Refetch
EditStep(e) ==
  \/ \E change \in Changes : StartEdit(e, change)
  \/ ApplyEdit(e) \/ RefuseEdit(e) \/ EndEdit(e) \/ LoseEdit(e)
TabStep(a) == Click(a) \/ ReceiveOrder(a) \/ ReceiveError(a) \/ LoseCheckout(a)
ServerStep(a) ==
  \/ Begin(a) \/ LookUp(a) \/ ReadLines(a)
  \/ \E lost \in BOOLEAN : Place(a, lost)
  \/ FailCheckout(a) \/ ReleaseKey(a) \/ Complete(a)

ShoppingNext ==
  \/ QueryStep
  \/ \E e \in Edits : EditStep(e)
  \/ \E a \in Attempts : TabStep(a) \/ ServerStep(a)
  \/ \E k \in Keys : OpenCheckout(k)
  \/ LeaveCheckout
  \/ Crash

ShoppingSpec == ShoppingInit /\ [][ShoppingNext]_shoppingVars

-----------------------------------------------------------------------------
(* Properties *)

(* However often the buyer clicks, and whatever is lost on the way, one key  *)
(* places one order, unless a commit was taken for a failure; and every      *)
(* answer under the key names that order (IdempotencyKeyService).            *)
OneOrderPerKey ==
  \A k \in Keys :
    LET placed == {n \in DOMAIN orders : orders[n].key = k /\ ~orders[n].lost}
    IN Cardinality(placed) <= 1 /\ receipts[k] \subseteq placed

(* When nothing the tab started is under way it shows the server's cart,     *)
(* in whatever order edits, failures and answers came, unless the cart       *)
(* changed after the tab had given up on the change, or while the answer to   *)
(* the very first load was on its way (use-cart-mutations).                  *)
CartViewSettles ==
  /\ ~unseen /\ ~stale /\ fetch.pc = "idle" /\ view # Nothing
  /\ awaited = Nothing
  /\ \A e \in Edits : edit[e].pc \in {"idle", "orphaned"}
  => view = cart

=============================================================================
