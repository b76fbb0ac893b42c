------------------------------- MODULE Catalog -------------------------------
(***************************************************************************)
(* The write side of the product catalogue (ProductsService): creation,    *)
(* edits, images, archiving, restoring and moderation of listings, and the *)
(* seller's own stock edit next to the moves of checkouts and shipments.   *)
(*                                                                         *)
(* Every write but creation reads the row before its transaction, decides  *)
(* on what it read, and updates the row unconditionally.  The event of a   *)
(* write commits with it.                                                  *)
(***************************************************************************)
EXTENDS Inventory, FiniteSets

CONSTANTS
  Products,
  Slug,        \* Slug[p]: the public URL the seller chose for p
  Slots,       \* requests handled at once
  Counts,      \* stock figures a seller types
  MaxRev,      \* bound: writes of one product
  MaxMoves     \* bound: changes of one Inventory row

ASSUME RevAssumption == MaxRev \in Nat /\ MaxMoves \in Nat
ASSUME CountAssumption == Counts \subseteq Nat

VARIABLES
  product,  \* product[p]: its row
  stock,    \* stock[p]: its Inventory row and the row's version
  slot,     \* slot[r]: the request that slot r is handling
  events    \* product events recorded and not yet handled

catalogVars == << product, stock, slot, events >>

-----------------------------------------------------------------------------
(* Types *)

(* rev counts the writes: two rows of one product differ in it.  DRAFT is   *)
(* in the schema and no code writes it.                                     *)
ProductRow == [status : {"NONE", "ACTIVE", "ARCHIVED"},
               moderated : BOOLEAN, rev : 0 .. MaxRev]
NoProduct == [status |-> "NONE", moderated |-> FALSE, rev |-> 0]

StockRow == [row : InventoryRow, version : 0 .. MaxMoves]

(* update: edits and images alike.  An admin may do what the owner may; of  *)
(* their requests only restore tells them apart.  Another seller is refused *)
(* whatever the row says (assertOwnsProductOrIsAdmin).                      *)
Operations == {"update", "stock", "archive", "restore", "restoreByAdmin",
               "takedown", "reinstate"}

(* archived: the search document goes; updated: it is written again. *)
Event == [product : Products, kind : {"updated", "archived"}, id : Nat]

(* What is left to do on the cache once the write has committed. *)
Invalidations == SUBSET {"page", "listings"}

Free == [pc |-> "idle"]
SlotState ==
  {Free}
    \union [pc : {"checked"}, op : Operations, product : Products,
            seen : ProductRow]
    \union [pc : {"editing"}, product : Products, quantity : Counts,
            version : 0 .. MaxMoves]
    \union [pc : {"written"}, product : Products, left : Invalidations]

CatalogTypeOK ==
  /\ product \in [Products -> ProductRow]
  /\ stock \in [Products -> StockRow]
  /\ slot \in [Slots -> SlotState]
  /\ events \in SUBSET Event

-----------------------------------------------------------------------------
(* Helpers *)

Exists(p) == product[p].status # "NONE"
Archived(p) == product[p].status = "ARCHIVED"

(* What restore and moderate refuse, looking at the row they read. *)
Refused_ModerationIgnored(op, seen) ==
  \/ op \in {"restore", "restoreByAdmin"} /\ seen.status # "ARCHIVED"
  \/ op = "takedown" /\ seen.status = "ARCHIVED"
  \/ op = "reinstate" /\ seen.status = "ACTIVE"
Refused(op, seen) ==
  \/ op \in {"restore", "restoreByAdmin"} /\ seen.status # "ARCHIVED"
  \/ op = "restore" /\ seen.moderated
  \/ op = "takedown" /\ seen.status = "ARCHIVED"
  \/ op = "reinstate" /\ seen.status = "ACTIVE"

(* The UPDATE of an operation.  moderatedAt is set by both moderations and  *)
(* never cleared.                                                           *)
After(op, row) ==
  [status |-> CASE op \in {"archive", "takedown"} -> "ARCHIVED"
                [] op \in {"restore", "restoreByAdmin", "reinstate"} -> "ACTIVE"
                [] OTHER -> row.status,
   moderated |-> row.moderated \/ op \in {"takedown", "reinstate"},
   rev |-> row.rev + 1]

EventOf(op, p, n) ==
  [product |-> p, id |-> n,
   kind |-> IF op \in {"archive", "takedown"} THEN "archived" ELSE "updated"]

(* The row lock a stock edit holds from its UPDATE of the product row on.   *)
Locked(p) == \E r \in Slots : slot[r].pc = "editing" /\ slot[r].product = p

-----------------------------------------------------------------------------
(* Requests *)

(* create: the unique index on slug refuses the second of two at once.  Only *)
(* the cached listings change.                                               *)
Create(r, p) ==
  /\ slot[r].pc = "idle"
  /\ ~Exists(p)
  /\ \A q \in Products : Slug[q] = Slug[p] => ~Exists(q)
  /\ product' = [product EXCEPT ![p] =
                   [status |-> "ACTIVE", moderated |-> FALSE, rev |-> 0]]
  /\ \E q \in Counts :
       stock' = [stock EXCEPT ![p] =
                   [row |-> [available |-> q, reserved |-> 0], version |-> 0]]
  /\ events' = events \union {EventOf("create", p, 0)}
  /\ slot' = [slot EXCEPT ![r] =
                   [pc |-> "written", product |-> p, left |-> {"listings"}]]

(* findById, the ownership check and the checks on the row.  What was read  *)
(* is kept for restore alone: no write uses it.                             *)
Check(r, op, p) ==
  /\ slot[r].pc = "idle"
  /\ Exists(p)
  /\ ~Refused(op, product[p])
  /\ slot' = [slot EXCEPT ![r] =
                   [pc |-> "checked", op |-> op, product |-> p,
                    seen |-> IF op = "restore" THEN product[p] ELSE NoProduct]]
  /\ UNCHANGED << product, stock, events >>

Update(r, p) == Check(r, "update", p) \/ Check(r, "stock", p)
UpdateImage(r, p) == Check(r, "update", p)
ArchiveProduct(r, p) == Check(r, "archive", p)
RestoreProduct(r, p) == Check(r, "restore", p) \/ Check(r, "restoreByAdmin", p)
Moderate(r, p) == Check(r, "takedown", p) \/ Check(r, "reinstate", p)

(* The write of op and its event, and the invalidation that follows. *)
Written(r, op, p) ==
  /\ product' = [product EXCEPT ![p] = After(op, @)]
  /\ events' = events \union {EventOf(op, p, product[p].rev + 1)}
  /\ slot' = [slot EXCEPT ![r] =
                   [pc |-> "written", product |-> p,
                    left |-> {"page", "listings"}]]

CommitWrite(r) ==
  /\ slot[r].pc = "checked"
  /\ slot[r].op # "stock"
  /\ LET p == slot[r].product
     IN /\ ~Locked(p)
        /\ product[p].rev < MaxRev
        /\ Written(r, slot[r].op, p)
  /\ UNCHANGED stock

(* update with a stock figure: the product row first, then the read of the  *)
(* Inventory row in setStock.                                               *)
BeginEdit(r) ==
  /\ slot[r].pc = "checked"
  /\ slot[r].op = "stock"
  /\ LET p == slot[r].product
     IN /\ ~Locked(p)
        /\ product[p].rev < MaxRev
        /\ \E q \in Counts :
             slot' = [slot EXCEPT ![r] =
                           [pc |-> "editing", product |-> p, quantity |-> q,
                            version |-> stock[p].version]]
  /\ UNCHANGED << product, stock, events >>

(* The conditional UPDATE of setStock found the version it had read. *)
CommitEdit(r) ==
  /\ slot[r].pc = "editing"
  /\ LET p == slot[r].product
     IN /\ stock[p].version = slot[r].version
        /\ stock[p].version < MaxMoves
        /\ stock' = [stock EXCEPT ![p].row.available = slot[r].quantity,
                                  ![p].version = @ + 1]
        /\ Written(r, "stock", p)

(* ... or another one: 409, and the edit of the product goes with it. *)
RollBackEdit(r) ==
  /\ slot[r].pc = "editing"
  /\ stock[slot[r].product].version # slot[r].version
  /\ slot' = [slot EXCEPT ![r] = Free]
  /\ UNCHANGED << product, stock, events >>

(* Checkouts, cancellations, shipments and auctions move the stock. *)
MoveStock(p) ==
  /\ Exists(p)
  /\ stock[p].version < MaxMoves
  /\ \E row \in {IF CanReserve(stock[p].row, 1) THEN Reserve(stock[p].row, 1)
                                                ELSE stock[p].row,
                 Release(stock[p].row, 1), Consume(stock[p].row, 1),
                 Return(stock[p].row, 1)} :
       /\ row # stock[p].row
       /\ stock' = [stock EXCEPT ![p] = [row |-> row, version |-> @.version + 1]]
  /\ UNCHANGED << product, slot, events >>

-----------------------------------------------------------------------------
CatalogInit ==
  /\ product \in [Products -> {NoProduct} \union
                   [status : {"ACTIVE", "ARCHIVED"}, moderated : {FALSE}, rev : {0}]]
  /\ stock = [p \in Products |->
                [row |-> [available |-> 1, reserved |-> 0], version |-> 0]]
  /\ slot = [r \in Slots |-> Free]
  /\ events = {}

CatalogNext ==
  \/ \E r \in Slots, p \in Products :
       \/ Create(r, p)
       \/ Update(r, p) \/ UpdateImage(r, p)
       \/ ArchiveProduct(r, p) \/ RestoreProduct(r, p)
       \/ Moderate(r, p)
  \/ \E r \in Slots :
       CommitWrite(r) \/ BeginEdit(r) \/ CommitEdit(r) \/ RollBackEdit(r)
  \/ \E p \in Products : MoveStock(p)

=============================================================================
