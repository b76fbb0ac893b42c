------------------------------ MODULE Sessions ------------------------------
(***************************************************************************)
(* The session of one account: the token pairs AuthService issues, rotates *)
(* and revokes, the browsers that keep one pair each in local storage, and *)
(* the tabs whose API calls refresh it (http-client, auth-session).        *)
(*                                                                         *)
(* What the role in an access token opens is in Access.                    *)
(*                                                                         *)
(* Pairs are numbered as they are issued.  0 is no pair.                   *)
(***************************************************************************)
EXTENDS Naturals, Sequences, FiniteSets

CONSTANTS
  Browsers,
  Tabs,
  BrowserOf,  \* BrowserOf[t]: the browser tab t is open in
  Calls,      \* API calls in progress at once
  TabOf,      \* TabOf[c]: the tab that makes call c
  MaxPairs,   \* bound: pairs issued
  MaxRefreshes \* bound: refresh requests at the server at once

ASSUME BrowserAssumption == BrowserOf \in [Tabs -> Browsers]
ASSUME CallAssumption == TabOf \in [Calls -> Tabs]
ASSUME BoundAssumption == MaxPairs \in Nat /\ MaxRefreshes \in Nat

VARIABLES
  pairs,       \* the pairs issued: the RefreshToken row and the access token
  storage,     \* storage[b]: the pair in the local storage of b
  refreshing,  \* refreshing[t]: the request t's shared refresh promise waits for
  handler,     \* handler[r]: what the server does with refresh request r
  call,        \* call[c]: an apiRequest
  signedOut    \* history: every session was ended, and no sign-in followed

vars == << pairs, storage, refreshing, handler, call, signedOut >>

-----------------------------------------------------------------------------
(* Types *)

(* rotatedBy: the tabs in whose name the refresh token was rotated. *)
PairRow == [revoked : BOOLEAN, rotatedBy : SUBSET Tabs, expired : BOOLEAN]

Pairs == 1 .. MaxPairs
Refreshes == 1 .. MaxRefreshes

Idle == [pc |-> "idle"]

(* A refused refresh is a 401, a failed one any other error. *)
HandlerState ==
  {Idle}
    \union [pc : {"received", "found", "rotating", "issued"}, pair : Pairs, tab : Tabs]
    \union [pc : {"refused", "failed"}, tab : Tabs]

Kinds == {"use", "logout"}

CallState ==
  {Idle}
    \union [pc : {"sent"}, kind : Kinds, retried : BOOLEAN, pair : 0 .. MaxPairs]
    \union [pc : {"waiting", "admitted", "done"}, kind : Kinds]

TypeOK ==
  /\ pairs \in Seq(PairRow) /\ Len(pairs) <= MaxPairs
  /\ storage \in [Browsers -> 0 .. Len(pairs)]
  /\ refreshing \in [Tabs -> 0 .. MaxRefreshes]
  /\ handler \in [Refreshes -> HandlerState]
  /\ call \in [Calls -> CallState]
  /\ signedOut \in BOOLEAN

-----------------------------------------------------------------------------
(* The server's tokens *)

Issued == [revoked |-> FALSE, rotatedBy |-> {}, expired |-> FALSE]

Revoked(rows) == [i \in DOMAIN rows |-> [rows[i] EXCEPT !.revoked = TRUE]]

(* revokeAllForUser. *)
RevokeAll ==
  /\ pairs' = Revoked(pairs)
  /\ signedOut' = TRUE

(* register, login and loginWithGoogleProfile: the login page is for        *)
(* visitors without a session.                                              *)
Login(b) ==
  /\ storage[b] = 0
  /\ Len(pairs) < MaxPairs
  /\ pairs' = Append(pairs, Issued)
  /\ storage' = [storage EXCEPT ![b] = Len(pairs) + 1]
  /\ signedOut' = FALSE
  /\ UNCHANGED << refreshing, handler, call >>

(* Fifteen minutes after it was issued. *)
ExpireAccessToken(i) ==
  /\ ~pairs[i].expired
  /\ pairs' = [pairs EXCEPT ![i].expired = TRUE]
  /\ UNCHANGED << storage, refreshing, handler, call, signedOut >>

Answer(r, pc) == handler' = [handler EXCEPT ![r] = [pc |-> pc, tab |-> @.tab]]

(* refresh: findByHash, and reuse of a revoked token ends every session. *)
FindToken(r) ==
  /\ handler[r].pc = "received"
  /\ LET i == handler[r].pair
     IN \/ /\ pairs[i].revoked
           /\ RevokeAll
           /\ Answer(r, "refused")
        \/ /\ ~pairs[i].revoked
           /\ handler' = [handler EXCEPT ![r].pc = "found"]
           /\ UNCHANGED << pairs, signedOut >>
  /\ UNCHANGED << storage, refreshing, call >>

(* revoke updates the row by its id alone: two refreshes that both found    *)
(* the token live both go on.                                               *)
Rotate(r) ==
  /\ handler[r].pc = "found"
  /\ LET i == handler[r].pair
     IN pairs' = [pairs EXCEPT ![i].revoked = TRUE,
                               ![i].rotatedBy = @ \union {handler[r].tab}]
  /\ handler' = [handler EXCEPT ![r].pc = "rotating"]
  /\ UNCHANGED << storage, refreshing, call, signedOut >>

(* A sign-out that overtook the refresh does not reach the pair it issues. *)
Issue(r) ==
  /\ handler[r].pc = "rotating"
  /\ Len(pairs) < MaxPairs
  /\ pairs' = Append(pairs, Issued)
  /\ handler' = [handler EXCEPT ![r].pc = "issued", ![r].pair = Len(pairs) + 1]
  /\ UNCHANGED << storage, refreshing, call, signedOut >>

(* The token has expired, or the database or the instance fails. *)
FailRefresh(r) ==
  /\ \/ handler[r].pc = "received" /\ Answer(r, "refused")
     \/ handler[r].pc \in {"received", "found", "rotating"} /\ Answer(r, "failed")
  /\ UNCHANGED << pairs, storage, refreshing, call, signedOut >>

-----------------------------------------------------------------------------
(* The tab: apiRequest and its shared refresh promise *)

Stored(t) == storage[BrowserOf[t]]
Store(t, i) == storage' = [storage EXCEPT ![BrowserOf[t]] = i]

Sent(k, retried, i) == [pc |-> "sent", kind |-> k, retried |-> retried, pair |-> i]

Send(c, k) ==
  /\ call[c].pc = "idle"
  /\ Stored(TabOf[c]) # 0
  /\ call' = [call EXCEPT ![c] = Sent(k, FALSE, Stored(TabOf[c]))]
  /\ UNCHANGED << pairs, storage, refreshing, handler, signedOut >>

(* JwtAccessStrategy looks at the token alone: a revoked session keeps its  *)
(* access token until that expires.                                         *)
Authentic(c) == call[c].pair # 0 /\ ~pairs[call[c].pair].expired

(* refreshOnce: while a promise is there, nobody starts another refresh. *)
Starts_Anew(t) == Stored(t) # 0
Starts(t) == refreshing[t] = 0 /\ Stored(t) # 0

(* The stored refresh token is presented, in a request of its own. *)
Present(t) ==
  \E r \in Refreshes :
    /\ handler[r].pc = "idle"
    /\ \A q \in 1 .. r - 1 : handler[q].pc # "idle"
    /\ refreshing' = [refreshing EXCEPT ![t] = r]
    /\ handler' = [handler EXCEPT ![r] =
                     [pc |-> "received", pair |-> Stored(t), tab |-> t]]

(* AuthProvider restores a session on load through the same gate. *)
Restore(t) ==
  /\ Starts(t)
  /\ pairs[Stored(t)].expired
  /\ Present(t)
  /\ UNCHANGED << pairs, storage, call, signedOut >>

(* A first 401 waits for the tab's refresh, which it may have to start. *)
AwaitRefresh(c) ==
  /\ call[c].pc = "sent" /\ ~Authentic(c) /\ ~call[c].retried
  /\ LET t == TabOf[c]
     IN \/ Starts(t) /\ Present(t)
        \/ ~Starts(t) /\ refreshing[t] # 0 /\ UNCHANGED << refreshing, handler >>
  /\ call' = [call EXCEPT ![c] = [pc |-> "waiting", kind |-> @.kind]]
  /\ UNCHANGED << pairs, storage, signedOut >>

(* onAuthFailure: a 401 after the retry, or nothing to refresh with. *)
GiveUp(c) ==
  /\ call[c].pc = "sent" /\ ~Authentic(c)
  /\ LET t == TabOf[c]
     IN /\ call[c].retried \/ (refreshing[t] = 0 /\ Stored(t) = 0)
        /\ Store(t, 0)
  /\ call' = [call EXCEPT ![c] = Idle]
  /\ UNCHANGED << pairs, refreshing, handler, signedOut >>

(* The refresh call skips this handling: its own 401 is a failure, where    *)
(* waiting for the promise would be waiting for itself.                     *)
Settled_AwaitsItself(r) == handler[r].pc \in {"issued", "failed"}
Settled(r) == handler[r].pc \in {"issued", "refused", "failed"}

(* The promise settles: the calls that shared it retry with the new pair,   *)
(* or fail and clear the storage.                                           *)
Settle(t, i) ==
  /\ Store(t, i)
  /\ refreshing' = [refreshing EXCEPT ![t] = 0]
  /\ call' = [c \in Calls |->
                IF TabOf[c] = t /\ call[c].pc = "waiting"
                THEN IF i = 0 THEN Idle ELSE Sent(call[c].kind, TRUE, i)
                ELSE call[c]]
  /\ UNCHANGED << pairs, signedOut >>

EndRefresh(r) ==
  /\ Settled(r)
  /\ refreshing[handler[r].tab] = r
  /\ Settle(handler[r].tab, IF handler[r].pc = "issued" THEN handler[r].pair ELSE 0)
  /\ handler' = [handler EXCEPT ![r] = Idle]

(* The answer is lost, and the server may still be at work. *)
LoseRefresh(t) ==
  /\ refreshing[t] # 0
  /\ Settle(t, 0)
  /\ UNCHANGED handler

(* Nobody waits for the answer any more. *)
Forget(r) ==
  /\ handler[r].pc \in {"issued", "refused", "failed"}
  /\ refreshing[handler[r].tab] # r
  /\ handler' = [handler EXCEPT ![r] = Idle]
  /\ UNCHANGED << pairs, storage, refreshing, call, signedOut >>

-----------------------------------------------------------------------------
(* Routes: the guards, then the service *)

Admit(c) ==
  /\ call[c].pc = "sent" /\ Authentic(c)
  /\ call' = [call EXCEPT ![c] = [pc |-> "admitted", kind |-> @.kind]]
  /\ UNCHANGED << pairs, storage, refreshing, handler, signedOut >>

Serve(c) ==
  /\ call[c].pc = "admitted" /\ call[c].kind = "use"
  /\ call' = [call EXCEPT ![c] = Idle]
  /\ UNCHANGED << pairs, storage, refreshing, handler, signedOut >>

(* logout revokes the sessions, and then the tab clears the storage. *)
Logout(c) ==
  /\ call[c].pc = "admitted" /\ call[c].kind = "logout"
  /\ RevokeAll
  /\ call' = [call EXCEPT ![c] = [pc |-> "done", kind |-> "logout"]]
  /\ UNCHANGED << storage, refreshing, handler >>

(* Best effort: the storage is cleared whatever became of the call. *)
ClearStorage(c) ==
  /\ \/ call[c].pc = "done"
     \/ call[c].pc \in {"sent", "admitted"} /\ call[c].kind = "logout"
  /\ Store(TabOf[c], 0)
  /\ call' = [call EXCEPT ![c] = Idle]
  /\ UNCHANGED << pairs, refreshing, handler, signedOut >>

-----------------------------------------------------------------------------
Init ==
  /\ pairs = << >>
  /\ storage = [b \in Browsers |-> 0]
  /\ refreshing = [t \in Tabs |-> 0]
  /\ handler = [r \in Refreshes |-> Idle]
  /\ call = [c \in Calls |-> Idle]
  /\ signedOut = FALSE

RefreshStep(r) ==
  FindToken(r) \/ Rotate(r) \/ Issue(r) \/ FailRefresh(r) \/ EndRefresh(r) \/ Forget(r)
CallStep(c) ==
  \/ AwaitRefresh(c) \/ GiveUp(c) \/ Admit(c) \/ Serve(c)
  \/ Logout(c) \/ ClearStorage(c)

Next ==
  \/ \E b \in Browsers : Login(b)
  \/ \E i \in DOMAIN pairs : ExpireAccessToken(i)
  \/ \E r \in Refreshes : RefreshStep(r)
  \/ \E t \in Tabs : LoseRefresh(t) \/ Restore(t)
  \/ \E c \in Calls : CallStep(c)
  \/ \E c \in Calls, k \in Kinds : Send(c, k)

Spec == Init /\ [][Next]_vars

(* The server answers, and a tab's promises and requests go on. *)
Fairness ==
  /\ \A r \in Refreshes : WF_vars(RefreshStep(r))
  /\ \A c \in Calls : WF_vars(CallStep(c))

FairSpec == Spec /\ Fairness

-----------------------------------------------------------------------------
(* Properties *)

(* No tab presents a refresh token that was already rotated in its own       *)
(* name: however many of its calls meet a 401 at once, reuse detection is    *)
(* left to other tabs and to thieves (http-client, refreshOnce).             *)
NoTabReusesItsToken ==
  \A r \in Refreshes :
    handler[r].pc \in {"received", "found"} =>
      handler[r].tab \notin pairs[handler[r].pair].rotatedBy

(* "Kill every active session for this user" (auth.service.ts:75), which a   *)
(* logout does as well: until somebody signs in again no refresh token of   *)
(* the account is good (AuthService.logout, refresh).                       *)
SignOutEndsSessions ==
  signedOut => \A i \in DOMAIN pairs : pairs[i].revoked

(* Every API call is answered or fails: the 401 handling neither loops nor   *)
(* waits for itself (http-client, apiRequest).                               *)
EveryCallAnswered == \A c \in Calls : call[c].pc # "idle" ~> call[c].pc = "idle"

=============================================================================
