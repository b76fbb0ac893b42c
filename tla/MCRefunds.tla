----------------------------- MODULE MCRefunds ------------------------------
(* Small instances of Refunds for TLC. *)
EXTENDS Refunds, TLC

CONSTANTS e1, e2, s1, i1, i2

(* One SellerOrder cancelled once, or twice by two callers at once. *)
CancelledOnce == e1 :> s1
CancelledTwice == e1 :> s1 @@ e2 :> s1

(* No definition tells the instances apart. *)
Symmetry == Permutations({i1, i2})

=============================================================================
