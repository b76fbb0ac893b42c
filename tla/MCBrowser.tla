----------------------------- MODULE MCBrowser -----------------------------
(***************************************************************************)
(* What a browser does, in small instances for TLC.  Of Sessions: in       *)
(* "calls" two calls of one tab race through refreshes and a logout, in    *)
(* "tabs" two tabs refresh the one stored pair.  Of Shopping: in "edits"   *)
(* two edits race on the cart, in "checkout" the cart is filled next to    *)
(* one checkout, in "keys" two checkouts race and the tab's cart is left   *)
(* alone.  The two modules have no state in common.                        *)
(***************************************************************************)
EXTENDS Sessions, Shopping, TLC

CONSTANTS b1, t1, t2, c1, c2, e1, e2, a1, a2, k1, k2, p1

(* Two tabs of one browser, one of them with two calls at once. *)
OneBrowser == t1 :> b1 @@ t2 :> b1
OneTab == c1 :> t1 @@ c2 :> t1

VARIABLE scene

Rests(c) == call'[c].pc = "idle"
Adds(e) == edit'[e].pc # "idle" => edit'[e].change.op = "add"

(* An access token the browser no longer has may as well live on. *)
OnlyStoredExpire ==
  \A i \in DOMAIN pairs : pairs'[i].expired # pairs[i].expired => storage[b1] = i

(* Three pairs let two tabs fork one; two do for the calls. *)
SignedInScene ==
  CASE scene = "calls" -> refreshing'[t2] = 0 /\ Len(pairs') < 3
    [] scene = "tabs"  -> Rests(c1) /\ Rests(c2) /\ OnlyStoredExpire

ShoppingScene ==
  CASE scene = "edits"    -> key' = Nothing
    [] scene = "checkout" -> Adds(e1) /\ edit'[e2] = AtRest /\ attempt'[a2] = AtRest /\ key' # k2
    [] scene = "keys"     -> edit' = edit /\ view' = view

MCInit ==
  /\ Init
  /\ ShoppingInit
  /\ scene \in {"calls", "tabs", "edits", "checkout", "keys"}
  /\ cart[p1] = IF scene \in {"checkout", "keys"} THEN 1 ELSE 0

MCNext ==
  \/ /\ scene \in {"calls", "tabs"}
     /\ Next /\ SignedInScene
     /\ UNCHANGED << shoppingVars, scene >>
  \/ /\ scene \in {"edits", "checkout", "keys"}
     /\ ShoppingNext /\ ShoppingScene
     /\ UNCHANGED << vars, scene >>

MCSpec == MCInit /\ [][MCNext]_<< vars, shoppingVars, scene >> /\ Fairness

=============================================================================
