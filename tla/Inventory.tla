----------------------------- MODULE Inventory -----------------------------
(***************************************************************************)
(* One product's Inventory row, as the UPDATE statements of                *)
(* PrismaProductsRepository change it.  An operator below is one statement *)
(* together with what its caller does when the WHERE clause matches no     *)
(* row: PostgreSQL serialises the statements on the row, and each is       *)
(* evaluated on the row's latest committed value.                          *)
(***************************************************************************)
EXTENDS Naturals

(* quantityAvailable: can still be bought; quantityReserved: spoken for,   *)
(* not yet shipped.                                                        *)
InventoryRow == [available : Nat, reserved : Nat]

(* The WHERE clause of reserveStock, and what the UPDATE does.             *)
CanReserve(s, q) == s.available >= q

Reserve(s, q) == [available |-> s.available - q, reserved |-> s.reserved + q]

(* releaseReservation: WHERE quantityReserved >= quantity; when no row     *)
(* matches, the caller logs and goes on.                                   *)
Release(s, q) ==
  IF s.reserved >= q
  THEN [available |-> s.available + q, reserved |-> s.reserved - q]
  ELSE s

(* commitReservation, the shipment: the same guard, the same caller.       *)
Consume(s, q) ==
  IF s.reserved >= q THEN [s EXCEPT !.reserved = s.reserved - q] ELSE s

(* returnStock: units that had been shipped are put on sale again.         *)
Return(s, q) == [s EXCEPT !.available = s.available + q]

=============================================================================
