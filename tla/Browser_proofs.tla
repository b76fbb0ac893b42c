--------------------------- MODULE Browser_proofs ---------------------------
(***************************************************************************)
(* Proofs about the two modules of what a browser does, and about the      *)
(* catalogue it is shown, for any number of browsers, tabs, calls, pairs,  *)
(* products, edits, checkouts, keys, requests, readers and bounds.         *)
(*                                                                         *)
(* Sessions: that a tab never presents the token of a pair it has rotated  *)
(* rests on where a pair may be.  From its issue until the tab stores it,  *)
(* it is in one answer alone; and while it is stored, a tab that may start *)
(* a refresh has not used it yet.                                          *)
(*                                                                         *)
(* Shopping: that a key places one order rests on its row.  Whoever took   *)
(* the row works alone under it, and until the row names the order the     *)
(* attempt that placed it still does.  That the view settles rests on what *)
(* may be under way: an edit, a placed order not answered yet, or a fetch. *)
(*                                                                         *)
(* Storefront: what a write of the catalogue leaves to do (Writes) is what *)
(* excuses a copy that is behind: a bump of the version for a listing, an  *)
(* event of the product for a search document.                             *)
(***************************************************************************)
EXTENDS Sessions, Shopping, Storefront, SequenceTheorems, FiniteSetTheorems, TLAPS

-----------------------------------------------------------------------------
(* The rows of the pairs *)

LEMMA RewrittenPair ==
  ASSUME pairs \in Seq(PairRow), NEW i \in DOMAIN pairs, NEW row \in PairRow
  PROVE  /\ [pairs EXCEPT ![i] = row] \in Seq(PairRow)
         /\ Len([pairs EXCEPT ![i] = row]) = Len(pairs)
         /\ DOMAIN [pairs EXCEPT ![i] = row] = DOMAIN pairs
         /\ [pairs EXCEPT ![i] = row][i] = row
         /\ \A j \in DOMAIN pairs \ {i} : [pairs EXCEPT ![i] = row][j] = pairs[j]
  <1>1. i \in 1 .. Len(pairs)
    OBVIOUS
  <1> QED
    BY <1>1, ExceptSeq

LEMMA RevokedPairs ==
  ASSUME pairs \in Seq(PairRow)
  PROVE  /\ Revoked(pairs) \in Seq(PairRow) /\ Len(Revoked(pairs)) = Len(pairs)
         /\ DOMAIN Revoked(pairs) = DOMAIN pairs
         /\ \A i \in DOMAIN pairs : Revoked(pairs)[i] = [pairs[i] EXCEPT !.revoked = TRUE]
         /\ \A i \in DOMAIN pairs : Revoked(pairs)[i].revoked
  <1>1. /\ DOMAIN pairs = 1 .. Len(pairs) /\ Len(pairs) \in Nat
        /\ \A i \in DOMAIN pairs : pairs[i] \in PairRow
    OBVIOUS
  <1>2. \A i \in DOMAIN pairs : /\ [pairs[i] EXCEPT !.revoked = TRUE] \in PairRow
                                /\ [pairs[i] EXCEPT !.revoked = TRUE].revoked
    BY <1>1 DEF PairRow
  <1>3. Revoked(pairs) = [i \in 1 .. Len(pairs) |-> [pairs[i] EXCEPT !.revoked = TRUE]]
    BY <1>1 DEF Revoked
  <1>4. Revoked(pairs) \in [1 .. Len(pairs) -> PairRow]
    BY <1>1, <1>2, <1>3
  <1>5. Revoked(pairs) \in Seq(PairRow) /\ Len(Revoked(pairs)) = Len(pairs)
    BY <1>1, <1>4
  <1> QED
    BY <1>1, <1>2, <1>3, <1>5

LEMMA IssuedPair ==
  ASSUME pairs \in Seq(PairRow)
  PROVE  /\ Append(pairs, Issued) \in Seq(PairRow)
         /\ Len(Append(pairs, Issued)) = Len(pairs) + 1
         /\ DOMAIN pairs \subseteq DOMAIN Append(pairs, Issued)
         /\ Len(pairs) + 1 \in DOMAIN Append(pairs, Issued)
         /\ \A i \in DOMAIN pairs : Append(pairs, Issued)[i] = pairs[i]
         /\ Append(pairs, Issued)[Len(pairs) + 1] = Issued
  <1>1. Issued \in PairRow
    BY DEF Issued, PairRow
  <1>2. /\ DOMAIN pairs = 1 .. Len(pairs) /\ Len(pairs) \in Nat
    OBVIOUS
  <1> HIDE DEF Issued
  <1>3. /\ Append(pairs, Issued) \in Seq(PairRow)
        /\ Len(Append(pairs, Issued)) = Len(pairs) + 1
        /\ \A i \in 1 .. Len(pairs) : Append(pairs, Issued)[i] = pairs[i]
        /\ Append(pairs, Issued)[Len(pairs) + 1] = Issued
    BY <1>1, AppendProperties
  <1>4. DOMAIN Append(pairs, Issued) = 1 .. Len(pairs) + 1
    BY <1>3
  <1> QED
    BY <1>2, <1>3, <1>4

-----------------------------------------------------------------------------
(* Types of the session, and the pairs that exist *)

Holding == {"received", "found", "rotating", "issued"}

PairsExist ==
  /\ \A r \in Refreshes : handler[r].pc \in Holding => handler[r].pair \in DOMAIN pairs
  /\ \A c \in Calls : call[c].pc = "sent" => call[c].pair \in 0 .. Len(pairs)

SessionInv == TypeOK /\ PairsExist

LEMMA HandlerFields ==
  ASSUME TypeOK, NEW r \in Refreshes
  PROVE  /\ handler[r].pc \in Holding \union {"idle", "refused", "failed"}
         /\ handler[r].pc \in Holding =>
              handler[r] \in [pc : Holding, pair : Pairs, tab : Tabs]
         /\ handler[r].pc \in {"refused", "failed"} =>
              handler[r] \in [pc : {"refused", "failed"}, tab : Tabs]
         /\ handler[r].pc # "idle" => handler[r].tab \in Tabs
  <1>1. handler[r] \in HandlerState
    BY DEF TypeOK
  <1> QED
    BY <1>1 DEF HandlerState, Idle, Holding

LEMMA CallFields ==
  ASSUME TypeOK, NEW c \in Calls
  PROVE  /\ call[c].pc \in {"idle", "sent", "waiting", "admitted", "done"}
         /\ call[c].pc = "sent" =>
              call[c] \in [pc : {"sent"}, kind : Kinds, retried : BOOLEAN, pair : 0 .. MaxPairs]
         /\ call[c].pc \in {"waiting", "admitted", "done"} =>
              call[c] \in [pc : {"waiting", "admitted", "done"}, kind : Kinds]
  <1>1. call[c] \in CallState
    BY DEF TypeOK
  <1> QED
    BY <1>1 DEF CallState, Idle

LEMMA StoredPair ==
  ASSUME TypeOK, NEW t \in Tabs
  PROVE  /\ BrowserOf[t] \in Browsers /\ Len(pairs) \in Nat /\ DOMAIN pairs = 1 .. Len(pairs)
         /\ DOMAIN pairs \subseteq Pairs
         /\ Stored(t) \in 0 .. Len(pairs)
         /\ Stored(t) # 0 => Stored(t) \in DOMAIN pairs
  <1>1. BrowserOf[t] \in Browsers /\ pairs \in Seq(PairRow) /\ Len(pairs) <= MaxPairs
    BY BrowserAssumption DEF TypeOK
  <1>2. Len(pairs) \in Nat /\ DOMAIN pairs = 1 .. Len(pairs)
    BY <1>1
  <1>3. Stored(t) \in 0 .. Len(pairs)
    BY <1>1 DEF Stored, TypeOK
  <1> QED
    BY <1>1, <1>2, <1>3, BoundAssumption DEF Pairs

(* A presented token is the stored one. *)
LEMMA Presenting ==
  ASSUME SessionInv, NEW t \in Tabs, Stored(t) # 0, Present(t)
  PROVE  \E r \in Refreshes :
           /\ handler[r].pc = "idle"
           /\ refreshing' = [refreshing EXCEPT ![t] = r]
           /\ handler' = [handler EXCEPT ![r] =
                            [pc |-> "received", pair |-> Stored(t), tab |-> t]]
           /\ [pc |-> "received", pair |-> Stored(t), tab |-> t] \in HandlerState
           /\ refreshing' \in [Tabs -> 0 .. MaxRefreshes]
           /\ handler' \in [Refreshes -> HandlerState]
  <1>1. PICK r \in Refreshes :
          /\ handler[r].pc = "idle"
          /\ refreshing' = [refreshing EXCEPT ![t] = r]
          /\ handler' = [handler EXCEPT ![r] =
                           [pc |-> "received", pair |-> Stored(t), tab |-> t]]
    BY DEF Present
  <1>2. Stored(t) \in Pairs
    BY StoredPair DEF SessionInv
  <1> DEFINE new == [pc |-> "received", pair |-> Stored(t), tab |-> t]
  <1>3. new \in HandlerState
    BY <1>2 DEF HandlerState
  <1> HIDE DEF new
  <1>4. handler' \in [Refreshes -> HandlerState]
    BY <1>1, <1>3 DEF new, SessionInv, TypeOK
  <1>5. r \in 0 .. MaxRefreshes
    BY BoundAssumption DEF Refreshes
  <1>6. refreshing' \in [Tabs -> 0 .. MaxRefreshes]
    BY <1>1, <1>5 DEF SessionInv, TypeOK
  <1> QED
    BY <1>1, <1>3, <1>4, <1>6 DEF new

LEMMA PresentingKeeps ==
  ASSUME SessionInv, NEW t \in Tabs, Stored(t) # 0, Present(t),
         UNCHANGED << pairs, storage, signedOut >>,
         call' \in [Calls -> CallState],
         \A c \in Calls : call'[c].pc = "sent" => call'[c] = call[c]
  PROVE  SessionInv'
  <1>1. PICK r \in Refreshes :
          /\ handler' = [handler EXCEPT ![r] =
                           [pc |-> "received", pair |-> Stored(t), tab |-> t]]
          /\ refreshing' \in [Tabs -> 0 .. MaxRefreshes]
          /\ handler' \in [Refreshes -> HandlerState]
    BY Presenting
  <1>2. TypeOK'
    BY <1>1 DEF SessionInv, TypeOK
  <1>3. Stored(t) \in DOMAIN pairs
    BY StoredPair DEF SessionInv
  <1>4. \A q \in Refreshes : handler'[q].pc \in Holding => handler'[q].pair \in DOMAIN pairs
    BY <1>1, <1>3 DEF SessionInv, TypeOK, PairsExist
  <1> QED
    BY <1>2, <1>4 DEF SessionInv, PairsExist

(* A settled promise stores a pair there is, or none. *)
LEMMA Settling ==
  ASSUME SessionInv, NEW t \in Tabs, NEW i \in 0 .. Len(pairs), Settle(t, i),
         handler' \in [Refreshes -> HandlerState],
         \A r \in Refreshes : handler'[r] = handler[r] \/ handler'[r].pc = "idle"
  PROVE  SessionInv'
  <1>1. TypeOK /\ PairsExist
    BY DEF SessionInv
  <1>2. BrowserOf[t] \in Browsers /\ i \in 0 .. MaxPairs
    BY <1>1, BoundAssumption, StoredPair DEF TypeOK
  <1>3. \A c \in Calls :
          LET new == IF TabOf[c] = t /\ call[c].pc = "waiting"
                     THEN IF i = 0 THEN Idle ELSE Sent(call[c].kind, TRUE, i)
                     ELSE call[c]
          IN  /\ new \in CallState
              /\ new.pc = "sent" => new.pair \in 0 .. Len(pairs)
    <2> TAKE c \in Calls
    <2>1. CASE TabOf[c] = t /\ call[c].pc = "waiting"
      <3>1. call[c].kind \in Kinds
        BY <1>1, <2>1, CallFields
      <3>2. Sent(call[c].kind, TRUE, i) \in CallState /\ Idle \in CallState
        BY <1>2, <3>1 DEF Sent, CallState
      <3> QED
        BY <2>1, <3>2 DEF Sent, Idle
    <2>2. CASE ~(TabOf[c] = t /\ call[c].pc = "waiting")
      BY <1>1, <2>2 DEF TypeOK, PairsExist
    <2> QED
      BY <2>1, <2>2
  <1>4. call' \in [Calls -> CallState]
    BY <1>3 DEF Settle
  <1>5. \A c \in Calls : call'[c].pc = "sent" => call'[c].pair \in 0 .. Len(pairs)
    BY <1>3 DEF Settle
  <1>6. storage' \in [Browsers -> 0 .. Len(pairs)] /\ refreshing' \in [Tabs -> 0 .. MaxRefreshes]
    BY <1>1, <1>2, BoundAssumption DEF Settle, Store, TypeOK
  <1>7. TypeOK'
    BY <1>1, <1>4, <1>6 DEF Settle, TypeOK
  <1>8. \A r \in Refreshes : handler'[r].pc \in Holding => handler'[r].pair \in DOMAIN pairs
    BY <1>1 DEF PairsExist, Holding
  <1> QED
    BY <1>5, <1>7, <1>8 DEF SessionInv, PairsExist, Settle

(* When the pairs only grow or are written over, what was held still exists. *)
PairsGrow ==
  pairs' \in Seq(PairRow) /\ Len(pairs) <= Len(pairs') /\ Len(pairs') <= MaxPairs

LEMMA HeldStays ==
  ASSUME SessionInv, PairsGrow
  PROVE  /\ DOMAIN pairs \subseteq DOMAIN pairs'
         /\ 0 .. Len(pairs) \subseteq 0 .. Len(pairs')
         /\ storage \in [Browsers -> 0 .. Len(pairs')]
         /\ Len(pairs) \in Nat /\ Len(pairs') \in Nat
  <1>1. /\ pairs \in Seq(PairRow) /\ storage \in [Browsers -> 0 .. Len(pairs)]
    BY DEF SessionInv, TypeOK
  <1>2. /\ Len(pairs) \in Nat /\ DOMAIN pairs = 1 .. Len(pairs)
        /\ Len(pairs') \in Nat /\ DOMAIN pairs' = 1 .. Len(pairs')
    BY <1>1 DEF PairsGrow
  <1> QED
    BY <1>1, <1>2 DEF PairsGrow

(* One call moves on, and nothing else does. *)
LEMMA CallMoves ==
  ASSUME SessionInv, NEW c \in Calls, NEW new \in CallState,
         call' = [call EXCEPT ![c] = new],
         new.pc = "sent" => new.pair \in 0 .. Len(pairs),
         UNCHANGED << pairs, refreshing, handler, signedOut >>,
         storage' \in [Browsers -> 0 .. Len(pairs)]
  PROVE  SessionInv'
  <1>1. TypeOK'
    BY DEF SessionInv, TypeOK
  <1>2. \A d \in Calls : call'[d].pc = "sent" => call'[d].pair \in 0 .. Len(pairs)
    BY DEF SessionInv, PairsExist, TypeOK
  <1> QED
    BY <1>1, <1>2 DEF SessionInv, PairsExist

(* One request moves on at the server, and nothing else but the pairs does. *)
LEMMA HandlerMoves ==
  ASSUME SessionInv, NEW r \in Refreshes, NEW new \in HandlerState,
         handler' = [handler EXCEPT ![r] = new],
         PairsGrow,
         new.pc \in Holding => new.pair \in DOMAIN pairs',
         UNCHANGED << storage, refreshing, call >>, signedOut' \in BOOLEAN
  PROVE  SessionInv'
  <1>1. /\ DOMAIN pairs \subseteq DOMAIN pairs' /\ 0 .. Len(pairs) \subseteq 0 .. Len(pairs')
        /\ storage \in [Browsers -> 0 .. Len(pairs')]
    BY HeldStays
  <1>2. TypeOK'
    BY <1>1 DEF SessionInv, TypeOK, PairsGrow
  <1>3. /\ \A q \in Refreshes : handler'[q].pc \in Holding => handler'[q].pair \in DOMAIN pairs'
        /\ \A c \in Calls : call'[c].pc = "sent" => call'[c].pair \in 0 .. Len(pairs')
    BY <1>1 DEF SessionInv, PairsExist, TypeOK
  <1> QED
    BY <1>2, <1>3 DEF SessionInv, PairsExist

LEMMA SessionInit == Init => SessionInv
  <1> SUFFICES ASSUME Init PROVE SessionInv
    OBVIOUS
  <1>1. pairs \in Seq(PairRow) /\ Len(pairs) = 0 /\ 0 <= MaxPairs
    BY EmptySeq, BoundAssumption DEF Init
  <1>2. /\ storage \in [Browsers -> 0 .. Len(pairs)]
        /\ refreshing \in [Tabs -> 0 .. MaxRefreshes]
    BY <1>1, BoundAssumption DEF Init
  <1>3. /\ handler \in [Refreshes -> HandlerState] /\ call \in [Calls -> CallState]
        /\ signedOut \in BOOLEAN
    BY DEF Init, HandlerState, CallState
  <1>4. PairsExist
    BY DEF Init, PairsExist, Holding, Idle
  <1> QED
    BY <1>1, <1>2, <1>3, <1>4 DEF SessionInv, TypeOK

LEMMA RotatedRow ==
  ASSUME SessionInv, NEW r \in Refreshes, Rotate(r)
  PROVE  /\ handler[r].pair \in DOMAIN pairs /\ handler[r].tab \in Tabs
         /\ \E row \in PairRow :
              /\ pairs' = [pairs EXCEPT ![handler[r].pair] = row]
              /\ row.rotatedBy = pairs[handler[r].pair].rotatedBy \union {handler[r].tab}
              /\ row.revoked
  <1> DEFINE i == handler[r].pair
             t == handler[r].tab
  <1>1. i \in DOMAIN pairs /\ t \in Tabs
    BY HandlerFields DEF Rotate, SessionInv, PairsExist, Holding
  <1>2. pairs[i] \in PairRow
    BY <1>1 DEF SessionInv, TypeOK
  <1>3. pairs' = [pairs EXCEPT ![i].revoked = TRUE, ![i].rotatedBy = @ \union {t}]
    BY DEF Rotate
  <1> HIDE DEF i, t
  <1> DEFINE row == [[pairs[i] EXCEPT !.revoked = TRUE] EXCEPT !.rotatedBy = @ \union {t}]
  <1>4. /\ row \in PairRow /\ row.rotatedBy = pairs[i].rotatedBy \union {t}
        /\ row.revoked
    BY <1>1, <1>2 DEF PairRow
  <1>5. pairs' = [pairs EXCEPT ![i] = row]
    BY <1>1, <1>2, <1>3
  <1> HIDE DEF row
  <1> QED
    BY <1>1, <1>4, <1>5 DEF i, t

LEMMA ExpiredRow ==
  ASSUME SessionInv, NEW i \in DOMAIN pairs, ExpireAccessToken(i)
  PROVE  \E row \in PairRow : /\ pairs' = [pairs EXCEPT ![i] = row]
                              /\ row.rotatedBy = pairs[i].rotatedBy
                              /\ row.revoked = pairs[i].revoked
  <1> DEFINE row == [pairs[i] EXCEPT !.expired = TRUE]
  <1>1. pairs[i] \in PairRow
    BY DEF SessionInv, TypeOK
  <1>2. /\ row \in PairRow /\ row.rotatedBy = pairs[i].rotatedBy
        /\ row.revoked = pairs[i].revoked
    BY <1>1 DEF PairRow
  <1>3. pairs' = [pairs EXCEPT ![i] = row]
    BY DEF ExpireAccessToken
  <1> HIDE DEF row
  <1> QED
    BY <1>2, <1>3

LEMMA SessionStep == SessionInv /\ [Next]_vars => SessionInv'
  <1> SUFFICES ASSUME SessionInv, [Next]_vars PROVE SessionInv'
    OBVIOUS
  <1>1. TypeOK /\ PairsExist /\ pairs \in Seq(PairRow) /\ Len(pairs) \in Nat
    BY DEF SessionInv, TypeOK
  <1>2. ASSUME NEW b \in Browsers, Login(b) PROVE SessionInv'
    <2>1. pairs' \in Seq(PairRow) /\ Len(pairs') = Len(pairs) + 1 /\ Len(pairs') <= MaxPairs
      BY <1>1, <1>2, IssuedPair, BoundAssumption DEF Login, TypeOK
    <2>2. /\ DOMAIN pairs \subseteq DOMAIN pairs' /\ 0 .. Len(pairs) \subseteq 0 .. Len(pairs')
          /\ storage \in [Browsers -> 0 .. Len(pairs')]
      BY <1>1, <2>1, HeldStays DEF PairsGrow
    <2>3. storage' \in [Browsers -> 0 .. Len(pairs')]
      BY <1>1, <1>2, <2>1, <2>2 DEF Login
    <2> QED
      BY <1>1, <1>2, <2>1, <2>2, <2>3 DEF Login, SessionInv, TypeOK, PairsExist
  <1>3. ASSUME NEW i \in DOMAIN pairs, ExpireAccessToken(i) PROVE SessionInv'
    <2>1. pairs' \in Seq(PairRow) /\ Len(pairs') = Len(pairs) /\ DOMAIN pairs' = DOMAIN pairs
      BY <1>1, <1>3, ExpiredRow, RewrittenPair
    <2> QED
      BY <1>1, <1>3, <2>1 DEF ExpireAccessToken, SessionInv, TypeOK, PairsExist
  <1>4. ASSUME NEW r \in Refreshes, FindToken(r) PROVE SessionInv'
    <2>1. /\ handler[r] \in [pc : Holding, pair : Pairs, tab : Tabs] /\ handler[r].pc = "received"
          /\ handler[r].pair \in DOMAIN pairs
      BY <1>1, <1>4, HandlerFields DEF FindToken, Holding, PairsExist
    <2>2. ASSUME Answer(r, "refused"), RevokeAll PROVE SessionInv'
      <3> DEFINE new == [pc |-> "refused", tab |-> handler[r].tab]
      <3>1. /\ handler' = [handler EXCEPT ![r] = new] /\ new \in HandlerState
            /\ new.pc \notin Holding
        BY <2>1, <2>2 DEF Answer, HandlerState, Holding
      <3>2. PairsGrow /\ signedOut' \in BOOLEAN
        BY <1>1, <2>2, RevokedPairs DEF RevokeAll, TypeOK, PairsGrow
      <3> HIDE DEF new
      <3> QED
        BY <1>1, <1>4, <3>1, <3>2, HandlerMoves DEF FindToken
    <2>3. ASSUME handler' = [handler EXCEPT ![r].pc = "found"], UNCHANGED << pairs, signedOut >>
          PROVE  SessionInv'
      <3> DEFINE new == [handler[r] EXCEPT !.pc = "found"]
      <3>1. /\ handler' = [handler EXCEPT ![r] = new] /\ new \in HandlerState
            /\ new.pair \in DOMAIN pairs
        BY <2>1, <2>3 DEF HandlerState
      <3>2. PairsGrow /\ signedOut' \in BOOLEAN
        BY <1>1, <2>3 DEF TypeOK, PairsGrow
      <3> HIDE DEF new
      <3> QED
        BY <1>1, <1>4, <2>3, <3>1, <3>2, HandlerMoves DEF FindToken
    <2> QED
      BY <1>4, <2>2, <2>3 DEF FindToken
  <1>5. ASSUME NEW r \in Refreshes, Rotate(r) PROVE SessionInv'
    <2>1. /\ handler[r] \in [pc : Holding, pair : Pairs, tab : Tabs]
          /\ handler[r].pair \in DOMAIN pairs
      BY <1>1, <1>5, HandlerFields DEF Rotate, Holding, PairsExist
    <2>2. pairs' \in Seq(PairRow) /\ Len(pairs') = Len(pairs) /\ DOMAIN pairs' = DOMAIN pairs
      BY <1>1, <1>5, RotatedRow, RewrittenPair
    <2> DEFINE new == [handler[r] EXCEPT !.pc = "rotating"]
    <2>3. /\ handler' = [handler EXCEPT ![r] = new] /\ new \in HandlerState
          /\ new.pair \in DOMAIN pairs'
      BY <1>5, <2>1, <2>2 DEF Rotate, HandlerState
    <2>4. PairsGrow /\ signedOut' \in BOOLEAN
      BY <1>1, <1>5, <2>2 DEF TypeOK, Rotate, PairsGrow
    <2> HIDE DEF new
    <2> QED
      BY <1>1, <1>5, <2>2, <2>3, <2>4, HandlerMoves DEF Rotate
  <1>6. ASSUME NEW r \in Refreshes, Issue(r) PROVE SessionInv'
    <2>1. handler[r] \in [pc : Holding, pair : Pairs, tab : Tabs]
      BY <1>1, <1>6, HandlerFields DEF Issue, Holding
    <2>2. /\ pairs' \in Seq(PairRow) /\ Len(pairs') = Len(pairs) + 1 /\ Len(pairs') <= MaxPairs
          /\ Len(pairs) + 1 \in DOMAIN pairs' /\ Len(pairs) + 1 \in Pairs
      BY <1>1, <1>6, IssuedPair, BoundAssumption DEF Issue, TypeOK, Pairs
    <2> DEFINE new == [[handler[r] EXCEPT !.pc = "issued"] EXCEPT !.pair = Len(pairs) + 1]
    <2>3. /\ new.pc = "issued" /\ new.pair = Len(pairs) + 1
          /\ new \in [pc : Holding, pair : Pairs, tab : Tabs]
      BY <2>1, <2>2 DEF Holding
    <2>4. new \in HandlerState
      BY <2>3 DEF HandlerState
    <2>5. handler' = [handler EXCEPT ![r] = new]
      <3>1. handler' = [handler EXCEPT ![r].pc = "issued", ![r].pair = Len(pairs) + 1]
        BY <1>6 DEF Issue
      <3> HIDE DEF new
      <3> QED
        BY <1>1, <3>1 DEF TypeOK, new
    <2> HIDE DEF new
    <2>6. signedOut' \in BOOLEAN
      BY <1>1, <1>6 DEF Issue, TypeOK
    <2>7. PairsGrow
      BY <1>1, <2>2 DEF PairsGrow
    <2> QED
      <3>1. new.pair \in DOMAIN pairs' /\ UNCHANGED << storage, refreshing, call >>
        BY <1>6, <2>2, <2>3 DEF Issue
      <3> QED
        BY <2>4, <2>5, <2>6, <2>7, <3>1, HandlerMoves
  <1>7. ASSUME NEW r \in Refreshes, FailRefresh(r) PROVE SessionInv'
    <2>1. PICK pc \in {"refused", "failed"} : Answer(r, pc)
      BY <1>7 DEF FailRefresh
    <2>2. handler[r].tab \in Tabs
      BY <1>1, <1>7, HandlerFields DEF FailRefresh
    <2> DEFINE new == [pc |-> pc, tab |-> handler[r].tab]
    <2>3. /\ handler' = [handler EXCEPT ![r] = new] /\ new \in HandlerState
          /\ new.pc \notin Holding
      BY <2>1, <2>2 DEF Answer, HandlerState, Holding
    <2>4. /\ UNCHANGED << storage, refreshing, call >>
          /\ PairsGrow /\ signedOut' \in BOOLEAN
      BY <1>1, <1>7 DEF FailRefresh, TypeOK, PairsGrow
    <2> HIDE DEF new
    <2> QED
      BY <1>1, <2>3, <2>4, HandlerMoves
  <1>8. ASSUME NEW r \in Refreshes, EndRefresh(r) PROVE SessionInv'
    <2>1. handler[r].tab \in Tabs
      BY <1>1, <1>8, HandlerFields DEF EndRefresh, Settled
    <2>2. PICK i : i = IF handler[r].pc = "issued" THEN handler[r].pair ELSE 0
      OBVIOUS
    <2>3. i \in 0 .. Len(pairs)
      BY <1>1, <2>2 DEF PairsExist, Holding
    <2>4. /\ handler' \in [Refreshes -> HandlerState]
          /\ \A q \in Refreshes : handler'[q] = handler[q] \/ handler'[q].pc = "idle"
      BY <1>1, <1>8 DEF EndRefresh, TypeOK, HandlerState, Idle
    <2>5. Settle(handler[r].tab, i)
      BY <1>8, <2>2 DEF EndRefresh
    <2> QED
      BY <2>1, <2>3, <2>4, <2>5, Settling
  <1>9. ASSUME NEW t \in Tabs, LoseRefresh(t) PROVE SessionInv'
    <2>1. 0 \in 0 .. Len(pairs) /\ handler' = handler /\ handler \in [Refreshes -> HandlerState]
      BY <1>1, <1>9 DEF LoseRefresh, TypeOK
    <2> QED
      BY <1>9, <2>1, Settling DEF LoseRefresh
  <1>10. ASSUME NEW r \in Refreshes, Forget(r) PROVE SessionInv'
    <2>1. Idle \in HandlerState /\ Idle.pc \notin Holding
      BY DEF Idle, HandlerState, Holding
    <2>2. /\ handler' = [handler EXCEPT ![r] = Idle]
          /\ UNCHANGED << storage, refreshing, call >>
          /\ PairsGrow /\ signedOut' \in BOOLEAN
      BY <1>1, <1>10 DEF Forget, TypeOK, PairsGrow
    <2> QED
      BY <2>1, <2>2, HandlerMoves
  <1>11. ASSUME NEW t \in Tabs, Restore(t) PROVE SessionInv'
    BY <1>1, <1>11, PresentingKeeps DEF Restore, Starts, TypeOK
  <1>12. ASSUME NEW c \in Calls, AwaitRefresh(c) PROVE SessionInv'
    <2> DEFINE new == [pc |-> "waiting", kind |-> call[c].kind]
    <2>1. TabOf[c] \in Tabs /\ new \in CallState
      BY <1>1, <1>12, CallFields, CallAssumption DEF AwaitRefresh, CallState
    <2>2. call' = [call EXCEPT ![c] = new] /\ new.pc # "sent"
      BY <1>12 DEF AwaitRefresh
    <2> HIDE DEF new
    <2>3. CASE Starts(TabOf[c]) /\ Present(TabOf[c])
      <3>1. call' \in [Calls -> CallState]
        BY <1>1, <2>1, <2>2 DEF TypeOK
      <3>2. \A d \in Calls : call'[d].pc = "sent" => call'[d] = call[d]
        BY <1>1, <2>1, <2>2 DEF TypeOK
      <3> QED
        BY <1>12, <2>1, <2>3, <3>1, <3>2, PresentingKeeps DEF AwaitRefresh, Starts
    <2>4. CASE UNCHANGED << refreshing, handler >>
      BY <1>1, <1>12, <2>1, <2>2, <2>4, CallMoves DEF AwaitRefresh, TypeOK
    <2> QED
      BY <1>12, <2>3, <2>4 DEF AwaitRefresh
  <1>13. ASSUME NEW c \in Calls, GiveUp(c) \/ ClearStorage(c) PROVE SessionInv'
    <2>1. TabOf[c] \in Tabs /\ BrowserOf[TabOf[c]] \in Browsers
      BY CallAssumption, BrowserAssumption
    <2>2. /\ storage' = [storage EXCEPT ![BrowserOf[TabOf[c]]] = 0]
          /\ call' = [call EXCEPT ![c] = Idle]
          /\ UNCHANGED << pairs, refreshing, handler, signedOut >>
      BY <1>13 DEF GiveUp, ClearStorage, Store
    <2>3. storage' \in [Browsers -> 0 .. Len(pairs)]
      BY <1>1, <2>1, <2>2 DEF TypeOK
    <2>4. Idle \in CallState /\ Idle.pc # "sent"
      BY DEF Idle, CallState
    <2> QED
      BY <2>2, <2>3, <2>4, CallMoves
  <1>14. ASSUME NEW c \in Calls, NEW k \in Kinds, Send(c, k) PROVE SessionInv'
    <2>1. Stored(TabOf[c]) \in 0 .. Len(pairs) /\ Stored(TabOf[c]) \in 0 .. MaxPairs
      BY <1>1, CallAssumption, StoredPair, BoundAssumption DEF TypeOK
    <2> DEFINE new == Sent(k, FALSE, Stored(TabOf[c]))
    <2>2. new \in CallState /\ new.pair \in 0 .. Len(pairs)
      BY <2>1 DEF Sent, CallState
    <2> HIDE DEF new
    <2> QED
      BY <1>1, <1>14, <2>2, CallMoves DEF Send, TypeOK, new
  <1>15. ASSUME NEW c \in Calls, Admit(c) PROVE SessionInv'
    <2>1. call[c].kind \in Kinds
      BY <1>1, <1>15, CallFields DEF Admit
    <2> DEFINE new == [pc |-> "admitted", kind |-> call[c].kind]
    <2>2. new \in CallState /\ new.pc # "sent" /\ call' = [call EXCEPT ![c] = new]
      BY <1>15, <2>1 DEF Admit, CallState
    <2> HIDE DEF new
    <2> QED
      BY <1>1, <1>15, <2>2, CallMoves DEF Admit, TypeOK
  <1>16. ASSUME NEW c \in Calls, Serve(c) PROVE SessionInv'
    <2>1. Idle \in CallState /\ Idle.pc # "sent"
      BY DEF CallState, Idle
    <2> QED
      BY <1>1, <1>16, <2>1, CallMoves DEF Serve, TypeOK
  <1>17. ASSUME NEW c \in Calls, Logout(c) PROVE SessionInv'
    <2>1. [pc |-> "done", kind |-> "logout"] \in CallState
      BY DEF CallState, Kinds
    <2>2. /\ pairs' \in Seq(PairRow) /\ Len(pairs') = Len(pairs) /\ DOMAIN pairs' = DOMAIN pairs
          /\ signedOut' = TRUE
      BY <1>1, <1>17, RevokedPairs DEF Logout, RevokeAll
    <2> QED
      BY <1>1, <1>17, <2>1, <2>2 DEF Logout, SessionInv, TypeOK, PairsExist
  <1>18. CASE UNCHANGED vars
    BY <1>1, <1>18 DEF vars, SessionInv, TypeOK, PairsExist
  <1> QED
    BY <1>2, <1>3, <1>4, <1>5, <1>6, <1>7, <1>8, <1>9, <1>10, <1>11, <1>12, <1>13,
       <1>14, <1>15, <1>16, <1>17, <1>18
    DEF Next, RefreshStep, CallStep

(* No request, call or browser names a pair that was never issued, and all  *)
(* of the session's state keeps its type.                                   *)
THEOREM SessionTypes == Spec => []TypeOK
  <1>1. SessionInv => TypeOK
    BY DEF SessionInv
  <1> QED
    BY <1>1, SessionInit, SessionStep, PTL DEF Spec

-----------------------------------------------------------------------------
(* Where a pair may be *)

(* The answer that brings a new pair is the only place that knows it. *)
IssuedIsFresh ==
  \A r \in Refreshes : handler[r].pc = "issued" =>
    /\ pairs[handler[r].pair].rotatedBy = {}
    /\ \A b \in Browsers : storage[b] # handler[r].pair
    /\ \A q \in Refreshes \ {r} :
         handler[q].pc \in Holding => handler[q].pair # handler[r].pair

Presents(r, t, i) ==
  handler[r].pc \in {"received", "found"} /\ handler[r].tab = t /\ handler[r].pair = i

(* A tab that may start a refresh has not used the pair it would present. *)
StoredIsUnused ==
  \A t \in Tabs : refreshing[t] = 0 /\ Stored(t) # 0 =>
    /\ t \notin pairs[Stored(t)].rotatedBy
    /\ \A r \in Refreshes : ~Presents(r, t, Stored(t))

PresentedOnce ==
  \A r, q \in Refreshes, t \in Tabs, i \in DOMAIN pairs :
    Presents(r, t, i) /\ Presents(q, t, i) => r = q

TokenInv ==
  /\ SessionInv
  /\ IssuedIsFresh /\ StoredIsUnused /\ PresentedOnce /\ NoTabReusesItsToken

(* The pairs there were are used by nobody new. *)
PairsKept ==
  \A i \in DOMAIN pairs : i \in DOMAIN pairs' /\ pairs'[i].rotatedBy = pairs[i].rotatedBy

(* A request goes nowhere with a pair, or passes the check. *)
Calms(r) ==
  \/ handler'[r] = handler[r]
  \/ handler'[r].pc \in {"idle", "refused", "failed"}
  \/ /\ handler[r].pc = "received" /\ handler'[r].pc = "found"
     /\ handler'[r].pair = handler[r].pair /\ handler'[r].tab = handler[r].tab

Calm ==
  /\ PairsKept
  /\ \A r \in Refreshes : Calms(r)
  /\ \A b \in Browsers : storage'[b] = storage[b] \/ storage'[b] = 0
  /\ \A t \in Tabs : refreshing'[t] = refreshing[t] \/ Stored(t)' = 0

LEMMA CalmKeepsTokens ==
  ASSUME TokenInv, SessionInv', Calm
  PROVE  TokenInv'
  <1>1. TypeOK /\ PairsExist
    BY DEF TokenInv, SessionInv
  <1>2. \A t \in Tabs : BrowserOf[t] \in Browsers
    BY BrowserAssumption
  <1>3. \A r \in Refreshes : handler[r].pc \in Holding =>
          handler[r].pair \in DOMAIN pairs /\ handler[r].tab \in Tabs
    BY <1>1, HandlerFields DEF PairsExist, Holding
  <1>4. \A r \in Refreshes : handler'[r].pc \in Holding =>
          /\ handler[r].pc \in Holding
          /\ handler'[r].pair = handler[r].pair /\ handler'[r].tab = handler[r].tab
          /\ pairs'[handler'[r].pair].rotatedBy = pairs[handler[r].pair].rotatedBy
    BY <1>3 DEF Calm, Calms, PairsKept, Holding
  <1>5. \A r \in Refreshes : \A t, i : Presents(r, t, i)' => Presents(r, t, i)
    BY DEF Calm, Calms, Presents
  <1>6. IssuedIsFresh'
    <2> SUFFICES ASSUME NEW r \in Refreshes, handler'[r].pc = "issued"
                 PROVE  /\ pairs'[handler'[r].pair].rotatedBy = {}
                        /\ \A b \in Browsers : storage'[b] # handler'[r].pair
                        /\ \A q \in Refreshes \ {r} :
                             handler'[q].pc \in Holding => handler'[q].pair # handler'[r].pair
      BY DEF IssuedIsFresh
    <2>1. handler[r].pc = "issued" /\ handler'[r] = handler[r]
      BY DEF Calm, Calms
    <2>2. handler[r].pair \in DOMAIN pairs /\ 0 \notin DOMAIN pairs
      BY <1>1, <1>3, <2>1 DEF Holding, TypeOK
    <2> QED
      BY <1>4, <2>1, <2>2 DEF Calm, PairsKept, TokenInv, IssuedIsFresh
  <1>7. StoredIsUnused'
    <2> SUFFICES ASSUME NEW t \in Tabs, refreshing'[t] = 0, Stored(t)' # 0
                 PROVE  /\ t \notin pairs'[Stored(t)'].rotatedBy
                        /\ \A r \in Refreshes : ~Presents(r, t, Stored(t))'
      BY DEF StoredIsUnused, Presents, Stored
    <2>1. Stored(t)' = Stored(t) /\ refreshing[t] = 0
      BY <1>2 DEF Calm, Stored
    <2>2. Stored(t) \in DOMAIN pairs
      BY <1>1, <2>1, StoredPair
    <2>3. /\ t \notin pairs[Stored(t)].rotatedBy
          /\ \A r \in Refreshes : ~Presents(r, t, Stored(t))
      BY <2>1 DEF TokenInv, StoredIsUnused
    <2> QED
      BY <1>5, <2>1, <2>2, <2>3 DEF Calm, PairsKept, Presents
  <1>8. PresentedOnce'
    <2>1. \A r \in Refreshes : \A t, i : Presents(r, t, i) => i \in DOMAIN pairs
      BY <1>3 DEF Presents, Holding
    <2> QED
      BY <1>5, <2>1 DEF TokenInv, PresentedOnce
  <1>9. NoTabReusesItsToken'
    <2>1. \A r \in Refreshes : handler'[r].pc \in {"received", "found"} =>
            /\ handler[r].pc \in {"received", "found"} /\ handler'[r].pc \in Holding
            /\ handler[r].pair = handler'[r].pair
      BY DEF Calm, Calms, Holding
    <2> QED
      BY <1>4, <2>1 DEF TokenInv, NoTabReusesItsToken
  <1> QED
    BY <1>6, <1>7, <1>8, <1>9 DEF TokenInv

(* The stored pair is presented by a tab that has not used it. *)
LEMMA PresentingKeepsTokens ==
  ASSUME TokenInv, SessionInv', NEW t \in Tabs, Starts(t), Present(t),
         UNCHANGED << pairs, storage >>
  PROVE  TokenInv'
  <1>1. SessionInv /\ TypeOK /\ PairsExist /\ Stored(t) # 0 /\ refreshing[t] = 0
    BY DEF TokenInv, SessionInv, Starts
  <1>2. PICK r \in Refreshes :
          /\ handler[r].pc = "idle"
          /\ refreshing' = [refreshing EXCEPT ![t] = r]
          /\ handler' = [handler EXCEPT ![r] =
                           [pc |-> "received", pair |-> Stored(t), tab |-> t]]
    BY <1>1, Presenting
  <1>3. /\ handler'[r].pc = "received" /\ handler'[r].pair = Stored(t) /\ handler'[r].tab = t
        /\ \A q \in Refreshes \ {r} : handler'[q] = handler[q]
        /\ refreshing'[t] # 0
        /\ \A u \in Tabs \ {t} : refreshing'[u] = refreshing[u]
    BY <1>1, <1>2 DEF TypeOK, Refreshes
  <1>4. /\ t \notin pairs[Stored(t)].rotatedBy
        /\ \A q \in Refreshes : ~Presents(q, t, Stored(t))
    BY <1>1 DEF TokenInv, StoredIsUnused
  <1>5. IssuedIsFresh'
    <2> SUFFICES ASSUME NEW p \in Refreshes, handler'[p].pc = "issued"
                 PROVE  /\ pairs[handler'[p].pair].rotatedBy = {}
                        /\ \A b \in Browsers : storage[b] # handler'[p].pair
                        /\ \A q \in Refreshes \ {p} :
                             handler'[q].pc \in Holding => handler'[q].pair # handler'[p].pair
      BY DEF IssuedIsFresh
    <2>1. p # r /\ handler[p].pc = "issued" /\ handler'[p] = handler[p]
      BY <1>3
    <2>2. /\ pairs[handler[p].pair].rotatedBy = {}
          /\ \A b \in Browsers : storage[b] # handler[p].pair
          /\ \A q \in Refreshes \ {p} :
               handler[q].pc \in Holding => handler[q].pair # handler[p].pair
      BY <2>1 DEF TokenInv, IssuedIsFresh
    <2>3. Stored(t) # handler[p].pair
      BY <2>2, BrowserAssumption DEF Stored
    <2> QED
      BY <1>3, <2>1, <2>2, <2>3
  <1>6. StoredIsUnused'
    <2>1. \A u \in Tabs : Stored(u)' = Stored(u)
      BY DEF Stored
    <2>2. \A q \in Refreshes, u \in Tabs \ {t} : \A i : Presents(q, u, i)' => Presents(q, u, i)
      BY <1>3 DEF Presents
    <2> SUFFICES ASSUME NEW u \in Tabs, refreshing'[u] = 0, Stored(u) # 0
                 PROVE  /\ u \notin pairs[Stored(u)].rotatedBy
                        /\ \A q \in Refreshes : ~Presents(q, u, Stored(u))'
      BY <2>1 DEF StoredIsUnused, Presents
    <2>3. u # t /\ refreshing[u] = 0
      BY <1>3
    <2>4. /\ u \notin pairs[Stored(u)].rotatedBy
          /\ \A q \in Refreshes : ~Presents(q, u, Stored(u))
      BY <2>3 DEF TokenInv, StoredIsUnused
    <2> QED
      BY <2>1, <2>2, <2>3, <2>4 DEF Presents
  <1>7. PresentedOnce'
    BY <1>3, <1>4 DEF TokenInv, PresentedOnce, Presents
  <1>8. NoTabReusesItsToken'
    BY <1>3, <1>4 DEF TokenInv, NoTabReusesItsToken
  <1> QED
    BY <1>5, <1>6, <1>7, <1>8 DEF TokenInv

(* Rotating a pair in the name of a tab concerns that tab's one request for *)
(* it, and no pair on its way.                                              *)
LEMMA RotatingKeepsTokens ==
  ASSUME TokenInv, SessionInv', NEW r \in Refreshes, Rotate(r)
  PROVE  TokenInv'
  <1> DEFINE i == handler[r].pair
             t == handler[r].tab
  <1>1. SessionInv /\ TypeOK /\ PairsExist
    BY DEF TokenInv, SessionInv
  <1>2. /\ i \in DOMAIN pairs /\ t \in Tabs /\ DOMAIN pairs' = DOMAIN pairs
        /\ pairs'[i].rotatedBy = pairs[i].rotatedBy \union {t}
        /\ \A j \in DOMAIN pairs \ {i} : pairs'[j] = pairs[j]
    BY <1>1, RotatedRow, RewrittenPair DEF TypeOK
  <1>3. /\ Presents(r, t, i)
        /\ handler'[r].pc = "rotating" /\ handler'[r].pair = i /\ handler'[r].tab = t
        /\ \A q \in Refreshes \ {r} : handler'[q] = handler[q]
        /\ UNCHANGED << storage, refreshing >>
    BY <1>1, HandlerFields DEF Rotate, TypeOK, Presents, Holding
  <1> HIDE DEF i, t
  <1>4. \A q \in Refreshes : handler'[q].pc \in Holding =>
          /\ handler[q].pc \in Holding /\ handler'[q].pair = handler[q].pair
          /\ handler[q].pair \in DOMAIN pairs
    BY <1>1, <1>3 DEF PairsExist, Holding, Presents
  <1>5. \A q \in Refreshes : \A u, j : Presents(q, u, j)' => Presents(q, u, j) /\ q # r
    BY <1>3 DEF Presents
  <1>6. IssuedIsFresh'
    <2> SUFFICES ASSUME NEW p \in Refreshes, handler'[p].pc = "issued"
                 PROVE  /\ pairs'[handler'[p].pair].rotatedBy = {}
                        /\ \A b \in Browsers : storage[b] # handler'[p].pair
                        /\ \A q \in Refreshes \ {p} :
                             handler'[q].pc \in Holding => handler'[q].pair # handler'[p].pair
      BY <1>3 DEF IssuedIsFresh
    <2>1. p # r /\ handler[p].pc = "issued" /\ handler'[p] = handler[p]
      BY <1>3
    <2>2. /\ pairs[handler[p].pair].rotatedBy = {}
          /\ \A b \in Browsers : storage[b] # handler[p].pair
          /\ \A q \in Refreshes \ {p} :
               handler[q].pc \in Holding => handler[q].pair # handler[p].pair
      BY <2>1 DEF TokenInv, IssuedIsFresh
    <2>3. handler[p].pair # i /\ handler[p].pair \in DOMAIN pairs
      BY <1>1, <1>3, <2>1, <2>2 DEF Presents, Holding, PairsExist
    <2> QED
      BY <1>2, <1>4, <2>1, <2>2, <2>3
  <1>7. StoredIsUnused'
    <2>1. \A u \in Tabs : Stored(u)' = Stored(u)
      BY <1>3 DEF Stored
    <2> SUFFICES ASSUME NEW u \in Tabs, refreshing[u] = 0, Stored(u) # 0
                 PROVE  /\ u \notin pairs'[Stored(u)].rotatedBy
                        /\ \A q \in Refreshes : ~Presents(q, u, Stored(u))'
      BY <1>3, <2>1 DEF StoredIsUnused, Presents
    <2>2. /\ u \notin pairs[Stored(u)].rotatedBy
          /\ \A q \in Refreshes : ~Presents(q, u, Stored(u))
      BY DEF TokenInv, StoredIsUnused
    <2>3. Stored(u) \in DOMAIN pairs
      BY <1>1, StoredPair
    <2>4. ~(u = t /\ Stored(u) = i)
      BY <1>3, <2>2
    <2>5. u \notin pairs'[Stored(u)].rotatedBy
      BY <1>2, <2>2, <2>3, <2>4
    <2> QED
      BY <1>5, <2>1, <2>2, <2>5 DEF Presents
  <1>8. PresentedOnce'
    BY <1>2, <1>5 DEF TokenInv, PresentedOnce
  <1>9. NoTabReusesItsToken'
    <2> SUFFICES ASSUME NEW q \in Refreshes, handler'[q].pc \in {"received", "found"}
                 PROVE  handler'[q].tab \notin pairs'[handler'[q].pair].rotatedBy
      BY DEF NoTabReusesItsToken
    <2>1. q # r /\ handler'[q] = handler[q]
      BY <1>3
    <2>2. /\ Presents(q, handler[q].tab, handler[q].pair)
          /\ handler[q].tab \notin pairs[handler[q].pair].rotatedBy
      BY <2>1 DEF Presents, TokenInv, NoTabReusesItsToken
    <2>3. handler[q].pair \in DOMAIN pairs
      BY <1>4, <2>1 DEF Holding
    <2>4. ~(handler[q].tab = t /\ handler[q].pair = i)
      BY <1>2, <1>3, <2>1, <2>2 DEF TokenInv, PresentedOnce
    <2> QED
      BY <1>2, <2>1, <2>2, <2>3, <2>4
  <1> QED
    BY <1>6, <1>7, <1>8, <1>9 DEF TokenInv

(* A new pair, in an answer or stored at once, is nowhere else. *)
LEMMA NewPair ==
  ASSUME SessionInv, pairs' = Append(pairs, Issued)
  PROVE  /\ PairsKept
         /\ DOMAIN pairs = 1 .. Len(pairs) /\ Len(pairs) \in Nat
         /\ DOMAIN pairs' = 1 .. Len(pairs) + 1
         /\ pairs'[Len(pairs) + 1].rotatedBy = {}
         /\ \A r \in Refreshes : handler[r].pc \in Holding => handler[r].pair # Len(pairs) + 1
         /\ \A b \in Browsers : storage[b] # Len(pairs) + 1
  <1>1. TypeOK /\ PairsExist
    BY DEF SessionInv, TypeOK
  <1>2. /\ DOMAIN pairs \subseteq DOMAIN pairs'
        /\ \A i \in DOMAIN pairs : pairs'[i] = pairs[i]
        /\ pairs'[Len(pairs) + 1] = Issued
        /\ pairs' \in Seq(PairRow) /\ Len(pairs') = Len(pairs) + 1
    BY <1>1, IssuedPair DEF TypeOK
  <1>3. /\ DOMAIN pairs = 1 .. Len(pairs) /\ Len(pairs) \in Nat
        /\ DOMAIN pairs' = 1 .. Len(pairs) + 1
    BY <1>1, <1>2 DEF TypeOK
  <1>4. \A r \in Refreshes : handler[r].pc \in Holding => handler[r].pair # Len(pairs) + 1
    BY <1>1, <1>3 DEF PairsExist
  <1>5. \A b \in Browsers : storage[b] # Len(pairs) + 1
    BY <1>1, <1>3 DEF TypeOK
  <1>6. PairsKept
    BY <1>2 DEF PairsKept
  <1>7. Issued.rotatedBy = {}
    BY DEF Issued
  <1> QED
    BY <1>2, <1>3, <1>4, <1>5, <1>6, <1>7

LEMMA IssuingKeepsTokens ==
  ASSUME TokenInv, SessionInv', NEW r \in Refreshes, Issue(r)
  PROVE  TokenInv'
  <1>1. SessionInv /\ TypeOK /\ PairsExist
    BY DEF TokenInv, SessionInv
  <1>2. pairs' = Append(pairs, Issued)
    BY DEF Issue
  <1>3. /\ PairsKept
        /\ DOMAIN pairs = 1 .. Len(pairs) /\ Len(pairs) \in Nat
        /\ pairs'[Len(pairs) + 1].rotatedBy = {}
        /\ \A q \in Refreshes : handler[q].pc \in Holding => handler[q].pair # Len(pairs) + 1
        /\ \A b \in Browsers : storage[b] # Len(pairs) + 1
    BY <1>1, <1>2, NewPair
  <1>4. /\ handler[r].pc = "rotating" /\ handler'[r].pc = "issued"
        /\ handler'[r].pair = Len(pairs) + 1
        /\ \A q \in Refreshes \ {r} : handler'[q] = handler[q]
        /\ UNCHANGED << storage, refreshing >>
    <2>1. handler[r] \in [pc : Holding, pair : Pairs, tab : Tabs]
      BY <1>1, HandlerFields DEF Issue, Holding
    <2> QED
      BY <1>1, <2>1 DEF Issue, TypeOK
  <1>5. \A q \in Refreshes : \A t, i : Presents(q, t, i)' => Presents(q, t, i)
    BY <1>4 DEF Presents
  <1>6. IssuedIsFresh'
    <2> SUFFICES ASSUME NEW p \in Refreshes, handler'[p].pc = "issued"
                 PROVE  /\ pairs'[handler'[p].pair].rotatedBy = {}
                        /\ \A b \in Browsers : storage[b] # handler'[p].pair
                        /\ \A q \in Refreshes \ {p} :
                             handler'[q].pc \in Holding => handler'[q].pair # handler'[p].pair
      BY <1>4 DEF IssuedIsFresh
    <2>1. CASE p = r
      BY <1>3, <1>4, <2>1
    <2>2. CASE p # r
      <3>1. handler[p].pc = "issued" /\ handler'[p] = handler[p]
        BY <1>4, <2>2
      <3>2. /\ pairs[handler[p].pair].rotatedBy = {}
            /\ \A b \in Browsers : storage[b] # handler[p].pair
            /\ \A q \in Refreshes \ {p} :
                 handler[q].pc \in Holding => handler[q].pair # handler[p].pair
        BY <3>1 DEF TokenInv, IssuedIsFresh
      <3>3. handler[p].pair \in DOMAIN pairs /\ handler[p].pair # Len(pairs) + 1
        BY <1>1, <1>3, <3>1 DEF Holding, PairsExist
      <3> QED
        BY <1>3, <1>4, <3>1, <3>2, <3>3 DEF PairsKept
    <2> QED
      BY <2>1, <2>2
  <1>7. StoredIsUnused'
    <2>1. \A t \in Tabs : Stored(t)' = Stored(t) /\ (Stored(t) # 0 => Stored(t) \in DOMAIN pairs)
      BY <1>1, <1>4, StoredPair DEF Stored
    <2> SUFFICES ASSUME NEW t \in Tabs, refreshing[t] = 0, Stored(t) # 0
                 PROVE  /\ t \notin pairs'[Stored(t)].rotatedBy
                        /\ \A q \in Refreshes : ~Presents(q, t, Stored(t))'
      BY <1>4, <2>1 DEF StoredIsUnused, Presents
    <2>2. /\ t \notin pairs[Stored(t)].rotatedBy
          /\ \A q \in Refreshes : ~Presents(q, t, Stored(t))
      BY DEF TokenInv, StoredIsUnused
    <2> QED
      BY <1>3, <1>5, <2>1, <2>2 DEF PairsKept, Presents
  <1>8. PresentedOnce'
    <2>1. \A q \in Refreshes : \A t, i : Presents(q, t, i) => i \in DOMAIN pairs
      BY <1>1 DEF Presents, PairsExist, Holding
    <2> QED
      BY <1>5, <2>1 DEF TokenInv, PresentedOnce
  <1>9. NoTabReusesItsToken'
    <2> SUFFICES ASSUME NEW q \in Refreshes, handler'[q].pc \in {"received", "found"}
                 PROVE  handler'[q].tab \notin pairs'[handler'[q].pair].rotatedBy
      BY DEF NoTabReusesItsToken
    <2>1. handler'[q] = handler[q] /\ handler[q].pair \in DOMAIN pairs
      BY <1>1, <1>4 DEF PairsExist, Holding
    <2> QED
      BY <1>3, <2>1 DEF PairsKept, TokenInv, NoTabReusesItsToken
  <1> QED
    BY <1>6, <1>7, <1>8, <1>9 DEF TokenInv

(* A browser gets a pair that nothing else knows. *)
LEMMA StoringKeepsTokens ==
  ASSUME TokenInv, SessionInv', PairsKept, NEW b \in Browsers, NEW n,
         storage' = [storage EXCEPT ![b] = n],
         pairs'[n].rotatedBy = {},
         \A r \in Refreshes : Calms(r) /\ (handler'[r].pc \in Holding => handler'[r].pair # n),
         \A t \in Tabs : refreshing'[t] = refreshing[t] \/ BrowserOf[t] = b
  PROVE  TokenInv'
  <1>1. SessionInv /\ TypeOK /\ PairsExist
    BY DEF TokenInv, SessionInv
  <1>2. /\ storage'[b] = n
        /\ \A a \in Browsers \ {b} : storage'[a] = storage[a]
    BY <1>1 DEF TypeOK
  <1>3. \A r \in Refreshes : handler'[r].pc \in Holding =>
          /\ handler[r].pc \in Holding /\ handler[r].pair \in DOMAIN pairs
          /\ handler'[r].pair = handler[r].pair /\ handler'[r].tab = handler[r].tab
          /\ pairs'[handler'[r].pair].rotatedBy = pairs[handler[r].pair].rotatedBy
    BY <1>1 DEF Calms, PairsKept, PairsExist, Holding
  <1>4. \A r \in Refreshes : \A t, i : Presents(r, t, i)' => Presents(r, t, i) /\ i # n
    BY DEF Calms, Presents, Holding
  <1>5. IssuedIsFresh'
    <2> SUFFICES ASSUME NEW r \in Refreshes, handler'[r].pc = "issued"
                 PROVE  /\ pairs'[handler'[r].pair].rotatedBy = {}
                        /\ \A a \in Browsers : storage'[a] # handler'[r].pair
                        /\ \A q \in Refreshes \ {r} :
                             handler'[q].pc \in Holding => handler'[q].pair # handler'[r].pair
      BY DEF IssuedIsFresh
    <2>1. handler[r].pc = "issued" /\ handler'[r] = handler[r] /\ handler'[r].pair # n
      BY DEF Calms, Holding
    <2>2. /\ pairs[handler[r].pair].rotatedBy = {}
          /\ \A a \in Browsers : storage[a] # handler[r].pair
          /\ \A q \in Refreshes \ {r} :
               handler[q].pc \in Holding => handler[q].pair # handler[r].pair
      BY <2>1 DEF TokenInv, IssuedIsFresh
    <2>3. handler'[r].pc \in Holding
      BY DEF Holding
    <2> QED
      BY <1>2, <1>3, <2>1, <2>2, <2>3
  <1>6. StoredIsUnused'
    <2> SUFFICES ASSUME NEW t \in Tabs, refreshing'[t] = 0, Stored(t)' # 0
                 PROVE  /\ t \notin pairs'[Stored(t)'].rotatedBy
                        /\ \A r \in Refreshes : ~Presents(r, t, Stored(t))'
      BY DEF StoredIsUnused, Presents, Stored
    <2>1. CASE BrowserOf[t] = b
      <3>1. Stored(t)' = n
        BY <1>2, <2>1 DEF Stored
      <3>2. \A r \in Refreshes : ~(/\ handler'[r].pc \in {"received", "found"}
                                   /\ handler'[r].pair = n)
        BY DEF Holding
      <3> QED
        BY <3>1, <3>2 DEF Presents
    <2>2. CASE BrowserOf[t] # b
      <3>1. Stored(t)' = Stored(t) /\ refreshing[t] = 0
        BY <1>2, <2>2, BrowserAssumption DEF Stored
      <3>2. Stored(t) \in DOMAIN pairs
        BY <1>1, <3>1, StoredPair
      <3>3. /\ t \notin pairs[Stored(t)].rotatedBy
            /\ \A r \in Refreshes : ~Presents(r, t, Stored(t))
        BY <3>1 DEF TokenInv, StoredIsUnused
      <3> QED
        BY <1>4, <3>1, <3>2, <3>3 DEF PairsKept, Presents
    <2> QED
      BY <2>1, <2>2
  <1>7. PresentedOnce'
    <2>1. \A r \in Refreshes : \A t, i : Presents(r, t, i) => i \in DOMAIN pairs
      BY <1>1 DEF Presents, PairsExist, Holding
    <2> QED
      BY <1>4, <2>1 DEF TokenInv, PresentedOnce
  <1>8. NoTabReusesItsToken'
    <2>1. \A r \in Refreshes : handler'[r].pc \in {"received", "found"} =>
            handler[r].pc \in {"received", "found"} /\ handler'[r].pc \in Holding
      BY DEF Calms, Holding
    <2> QED
      BY <1>3, <2>1 DEF TokenInv, NoTabReusesItsToken
  <1> QED
    BY <1>5, <1>6, <1>7, <1>8 DEF TokenInv

LEMMA RevokingKeepsPairs ==
  ASSUME SessionInv, RevokeAll
  PROVE  PairsKept
  <1>1. pairs \in Seq(PairRow) /\ \A j \in DOMAIN pairs : pairs[j] \in PairRow
    BY DEF SessionInv, TypeOK
  <1>2. /\ pairs' = Revoked(pairs) /\ DOMAIN Revoked(pairs) = DOMAIN pairs
        /\ \A j \in DOMAIN pairs : Revoked(pairs)[j] = [pairs[j] EXCEPT !.revoked = TRUE]
    BY <1>1, RevokedPairs DEF RevokeAll
  <1>3. \A row \in PairRow : [row EXCEPT !.revoked = TRUE].rotatedBy = row.rotatedBy
    BY DEF PairRow
  <1> QED
    BY <1>1, <1>2, <1>3 DEF PairsKept

LEMMA TokenStep == TokenInv /\ [Next]_vars => TokenInv'
  <1> SUFFICES ASSUME TokenInv, [Next]_vars PROVE TokenInv'
    OBVIOUS
  <1>1. SessionInv /\ SessionInv' /\ TypeOK /\ PairsExist
    BY SessionStep DEF TokenInv, SessionInv
  <1>2. \A t \in Tabs : BrowserOf[t] \in Browsers
    BY BrowserAssumption
  <1>3. ASSUME UNCHANGED pairs PROVE PairsKept
    BY <1>3 DEF PairsKept
  <1>4. ASSUME NEW b \in Browsers, Login(b) PROVE TokenInv'
    <2>1. /\ pairs' = Append(pairs, Issued)
          /\ storage' = [storage EXCEPT ![b] = Len(pairs) + 1]
          /\ handler' = handler /\ refreshing' = refreshing
      BY <1>4 DEF Login
    <2>2. /\ PairsKept /\ pairs'[Len(pairs) + 1].rotatedBy = {}
          /\ \A r \in Refreshes : handler[r].pc \in Holding => handler[r].pair # Len(pairs) + 1
      BY <1>1, <2>1, NewPair
    <2> QED
      BY <1>1, <2>1, <2>2, StoringKeepsTokens DEF Calms
  <1>5. ASSUME NEW i \in DOMAIN pairs, ExpireAccessToken(i) PROVE TokenInv'
    <2>1. PairsKept
      BY <1>1, <1>5, ExpiredRow, RewrittenPair DEF PairsKept, TypeOK
    <2>2. Calm
      BY <1>5, <2>1 DEF ExpireAccessToken, Calm, Calms
    <2> QED
      BY <1>1, <2>2, CalmKeepsTokens
  <1>6. ASSUME NEW r \in Refreshes, FindToken(r) PROVE TokenInv'
    <2>1. PairsKept
      BY <1>1, <1>3, <1>6, RevokingKeepsPairs DEF FindToken
    <2>2. \A q \in Refreshes : Calms(q)
      <3>1. /\ handler[r].pc = "received" /\ handler[r] \in [pc : Holding, pair : Pairs, tab : Tabs]
        BY <1>1, <1>6, HandlerFields DEF FindToken, Holding
      <3> QED
        BY <1>1, <1>6, <3>1 DEF FindToken, Answer, Calms, TypeOK
    <2>3. Calm
      BY <1>6, <2>1, <2>2 DEF FindToken, Calm
    <2> QED
      BY <1>1, <2>3, CalmKeepsTokens
  <1>7. ASSUME NEW r \in Refreshes, FailRefresh(r) \/ Forget(r) PROVE TokenInv'
    <2>1. \A q \in Refreshes : Calms(q)
      BY <1>1, <1>7 DEF FailRefresh, Forget, Answer, Calms, TypeOK, Idle
    <2>2. Calm
      BY <1>3, <1>7, <2>1 DEF FailRefresh, Forget, Calm
    <2> QED
      BY <1>1, <2>2, CalmKeepsTokens
  <1>8. ASSUME NEW r \in Refreshes, EndRefresh(r) PROVE TokenInv'
    <2>1. handler[r].tab \in Tabs
      BY <1>1, <1>8, HandlerFields DEF EndRefresh, Settled
    <2>2. PICK b : b = BrowserOf[handler[r].tab]
      OBVIOUS
    <2>3. PICK n : n = IF handler[r].pc = "issued" THEN handler[r].pair ELSE 0
      OBVIOUS
    <2>4. /\ b \in Browsers /\ storage' = [storage EXCEPT ![b] = n]
          /\ refreshing' = [refreshing EXCEPT ![handler[r].tab] = 0]
          /\ pairs' = pairs /\ PairsKept
          /\ handler'[r].pc = "idle"
          /\ \A q \in Refreshes \ {r} : handler'[q] = handler[q]
      BY <1>1, <1>2, <1>3, <1>8, <2>1, <2>2, <2>3 DEF EndRefresh, Settle, Store, TypeOK, Idle
    <2>5. \A q \in Refreshes : Calms(q)
      BY <2>4 DEF Calms
    <2>6. CASE handler[r].pc = "issued"
      <3>1. /\ pairs'[n].rotatedBy = {}
            /\ \A q \in Refreshes : handler'[q].pc \in Holding => handler'[q].pair # n
        BY <2>3, <2>4, <2>6 DEF TokenInv, IssuedIsFresh, Holding
      <3>2. \A t \in Tabs : refreshing'[t] = refreshing[t] \/ BrowserOf[t] = b
        BY <1>1, <2>2, <2>4 DEF TypeOK
      <3> QED
        BY <1>1, <2>4, <2>5, <3>1, <3>2, StoringKeepsTokens
    <2>7. CASE handler[r].pc # "issued"
      <3>1. /\ \A a \in Browsers : storage'[a] = storage[a] \/ storage'[a] = 0
            /\ \A t \in Tabs : refreshing'[t] = refreshing[t] \/ Stored(t)' = 0
        BY <1>1, <2>2, <2>3, <2>4, <2>7 DEF TypeOK, Stored
      <3>2. Calm
        BY <2>4, <2>5, <3>1 DEF Calm
      <3> QED
        BY <1>1, <3>2, CalmKeepsTokens
    <2> QED
      BY <2>6, <2>7
  <1>9. ASSUME NEW t \in Tabs, LoseRefresh(t) PROVE TokenInv'
    <2>1. /\ \A a \in Browsers : storage'[a] = storage[a] \/ storage'[a] = 0
          /\ \A u \in Tabs : refreshing'[u] = refreshing[u] \/ Stored(u)' = 0
      BY <1>1, <1>2, <1>9 DEF LoseRefresh, Settle, Store, Stored, TypeOK
    <2>2. Calm
      BY <1>3, <1>9, <2>1 DEF LoseRefresh, Settle, Calm, Calms
    <2> QED
      BY <1>1, <2>2, CalmKeepsTokens
  <1>10. ASSUME NEW c \in Calls, GiveUp(c) \/ ClearStorage(c) PROVE TokenInv'
    <2>1. \A a \in Browsers : storage'[a] = storage[a] \/ storage'[a] = 0
      BY <1>1, <1>10 DEF GiveUp, ClearStorage, Store, TypeOK
    <2>2. Calm
      BY <1>3, <1>10, <2>1 DEF GiveUp, ClearStorage, Calm, Calms
    <2> QED
      BY <1>1, <2>2, CalmKeepsTokens
  <1>11. ASSUME NEW c \in Calls, Logout(c) PROVE TokenInv'
    <2>1. PairsKept
      BY <1>1, <1>11, RevokingKeepsPairs DEF Logout
    <2>2. Calm
      BY <1>11, <2>1 DEF Logout, Calm, Calms
    <2> QED
      BY <1>1, <2>2, CalmKeepsTokens
  <1>12. CASE UNCHANGED << pairs, storage, refreshing, handler >>
    <2>1. Calm
      BY <1>3, <1>12 DEF Calm, Calms
    <2> QED
      BY <1>1, <2>1, CalmKeepsTokens
  <1>13. ASSUME NEW t \in Tabs, Restore(t) PROVE TokenInv'
    BY <1>1, <1>13, PresentingKeepsTokens DEF Restore
  <1>14. ASSUME NEW c \in Calls, AwaitRefresh(c) PROVE TokenInv'
    <2>1. TabOf[c] \in Tabs
      BY CallAssumption
    <2> QED
      BY <1>1, <1>12, <1>14, <2>1, PresentingKeepsTokens DEF AwaitRefresh
  <1>15. ASSUME NEW r \in Refreshes, Rotate(r) \/ Issue(r) PROVE TokenInv'
    BY <1>1, <1>15, RotatingKeepsTokens, IssuingKeepsTokens
  <1>16. \/ UNCHANGED << pairs, storage, refreshing, handler >>
         \/ \E b \in Browsers : Login(b)
         \/ \E i \in DOMAIN pairs : ExpireAccessToken(i)
         \/ \E r \in Refreshes : RefreshStep(r)
         \/ \E t \in Tabs : LoseRefresh(t) \/ Restore(t)
         \/ \E c \in Calls : AwaitRefresh(c) \/ GiveUp(c) \/ ClearStorage(c) \/ Logout(c)
    BY DEF Next, vars, CallStep, Admit, Serve, Send
  <1> QED
    BY <1>4, <1>5, <1>6, <1>7, <1>8, <1>9, <1>10, <1>11, <1>12, <1>13, <1>14, <1>15, <1>16
    DEF RefreshStep

(* However many calls of however many tabs meet a 401 at once, no tab       *)
(* presents the refresh token of a pair that was rotated in its own name:   *)
(* a tab that is told it reused a token shares its storage with another.    *)
THEOREM NoTabReuses == Spec => []NoTabReusesItsToken
  <1>1. Init => TokenInv
    BY SessionInit, BrowserAssumption
    DEF Init, TokenInv, IssuedIsFresh, StoredIsUnused, PresentedOnce, Presents,
        NoTabReusesItsToken, Stored, Idle
  <1>2. TokenInv => NoTabReusesItsToken
    BY DEF TokenInv
  <1> QED
    BY <1>1, <1>2, TokenStep, PTL DEF Spec

-----------------------------------------------------------------------------
(* Types of the tab and of its checkouts *)

Working == {"begun", "read", "failing"}

LEMMA AttemptFields ==
  ASSUME ShoppingTypeOK, NEW a \in Attempts
  PROVE  /\ attempt[a].pc \in
              {"idle", "sent", "conflict", "refused", "replay", "placed"} \union Working
         /\ attempt[a].pc \in {"sent", "conflict", "refused"} \union Working =>
              attempt[a] \in [pc : {"sent", "conflict", "begun", "read", "failing", "refused"},
                              key : Keys]
         /\ attempt[a].pc = "replay" => attempt[a] \in [pc : {"replay"}, key : Keys, order : Nat]
         /\ attempt[a].pc = "placed" =>
              attempt[a] \in [pc : {"placed"}, key : Keys, order : Nat,
                              answered : BOOLEAN, recorded : BOOLEAN]
         /\ attempt[a].pc # "idle" => attempt[a].key \in Keys
  <1>1. attempt[a] \in AttemptState
    BY DEF ShoppingTypeOK
  <1> QED
    BY <1>1 DEF AttemptState, AtRest, Working

LEMMA EditFields ==
  ASSUME ShoppingTypeOK, NEW e \in Edits
  PROVE  /\ edit[e].pc \in {"idle", "sent", "done", "refused", "orphaned"}
         /\ edit[e].pc \in {"sent", "done", "refused"} =>
              edit[e] \in [pc : {"sent", "done", "refused"}, change : Changes,
                           before : Carts \union {Nothing}]
         /\ edit[e].pc \in {"sent", "done", "refused", "orphaned"} => edit[e].change \in Changes
  <1>1. edit[e] \in EditState
    BY DEF ShoppingTypeOK
  <1> QED
    BY <1>1 DEF EditState, AtRest

LEMMA ChangedCart ==
  ASSUME NEW c \in Carts, NEW change \in Changes, Fits(c, change)
  PROVE  Changed(c, change) \in Carts
  <1> DEFINE p == change.product
  <1>1. p \in Goods /\ c[p] \in 0 .. MaxQuantity /\ MaxQuantity \in Nat
    BY QuantityAssumption DEF Changes, Carts, Quantities
  <1>2. CASE change.op = "add"
    <2>1. c[p] + 1 \in Quantities
      BY <1>1, <1>2 DEF Fits, Quantities
    <2>2. Changed(c, change) = [c EXCEPT ![p] = c[p] + 1]
      BY <1>2 DEF Changed
    <2> QED
      BY <2>1, <2>2 DEF Carts
  <1>3. CASE change.op = "remove"
    <2>1. Changed(c, change) = [c EXCEPT ![p] = 0]
      BY <1>3 DEF Changed
    <2> QED
      BY <1>1, <2>1 DEF Carts, Quantities
  <1>4. CASE change.op = "set"
    <2>1. change.quantity \in Quantities
      BY <1>1, <1>4 DEF Changes, Quantities
    <2>2. Changed(c, change) = [c EXCEPT ![p] = IF c[p] = 0 THEN 0 ELSE change.quantity]
      BY <1>4 DEF Changed
    <2>3. (IF c[p] = 0 THEN 0 ELSE change.quantity) \in Quantities
      BY <1>1, <2>1 DEF Quantities
    <2> QED
      BY <2>2, <2>3 DEF Carts
  <1> QED
    BY <1>2, <1>3, <1>4 DEF Changes

LEMMA QueryTypes ==
  ASSUME ShoppingTypeOK, QueryStep
  PROVE  ShoppingTypeOK'
  <1>1. CASE ReadCart
    BY <1>1 DEF ReadCart, ShoppingTypeOK, FetchState, serverVars
  <1>2. CASE ShowCart
    <2>1. fetch.cart \in Carts
      BY <1>2 DEF ShowCart, ShoppingTypeOK, FetchState, AtRest
    <2>2. fetch' \in FetchState /\ unseen' \in BOOLEAN
      BY <1>2 DEF ShowCart, ShoppingTypeOK, FetchState
    <2> QED
      BY <1>2, <2>1, <2>2 DEF ShowCart, ShoppingTypeOK, serverVars
  <1>3. CASE FailFetch
    BY <1>3 DEF FailFetch, ShoppingTypeOK, FetchState, serverVars
  <1>4. CASE Refetch
    BY <1>4 DEF Refetch, ShoppingTypeOK, FetchState, serverVars
  <1> QED
    BY <1>1, <1>2, <1>3, <1>4 DEF QueryStep

(* A refetch, or one more who waits for the first load. *)
LEMMA InvalidatedTypes ==
  ASSUME ShoppingTypeOK, Invalidate
  PROVE  fetch' \in FetchState /\ stale' \in BOOLEAN /\ unseen' \in BOOLEAN
  BY DEF Invalidate, ShoppingTypeOK, FetchState

LEMMA RollingBack ==
  ASSUME ShoppingTypeOK, NEW e \in Edits, edit[e].pc \in {"sent", "done", "refused"},
         RollBack(edit[e].before)
  PROVE  view' \in Carts \union {Nothing}
  <1>1. edit[e].before \in Carts \union {Nothing}
    BY EditFields
  <1> QED
    BY <1>1 DEF RollBack, ShoppingTypeOK

LEMMA EditTypes ==
  ASSUME ShoppingTypeOK, NEW e \in Edits, EditStep(e)
  PROVE  ShoppingTypeOK'
  <1> USE DEF serverVars
  <1>1. ASSUME NEW change \in Changes, StartEdit(e, change)
        PROVE  ShoppingTypeOK'
    <2>1. view' \in Carts \union {Nothing}
      BY <1>1, ChangedCart DEF StartEdit, ShoppingTypeOK
    <2>2. [pc |-> "sent", change |-> change, before |-> view] \in EditState
      BY DEF EditState, ShoppingTypeOK
    <2>3. edit' \in [Edits -> EditState]
      BY <1>1, <2>2 DEF StartEdit, ShoppingTypeOK
    <2>4. stale' \in BOOLEAN
      BY <1>1 DEF StartEdit, ShoppingTypeOK
    <2>5. fetch' \in FetchState
      BY <1>1 DEF StartEdit, FetchState
    <2> QED
      BY <1>1, <2>1, <2>3, <2>4, <2>5 DEF StartEdit, ShoppingTypeOK
  <1>2. CASE ApplyEdit(e)
    <2>1. cart' \in Carts
      BY <1>2, ChangedCart, EditFields DEF ApplyEdit, ShoppingTypeOK
    <2>2. edit[e].pc = "sent" => [edit[e] EXCEPT !.pc = "done"] \in EditState
      BY EditFields DEF EditState
    <2>3. edit' = [edit EXCEPT ![e] = IF edit[e].pc = "sent" THEN [edit[e] EXCEPT !.pc = "done"]
                                      ELSE AtRest]
      BY <1>2 DEF ApplyEdit
    <2>4. edit' \in [Edits -> EditState] /\ unseen' \in BOOLEAN
      BY <1>2, <2>2, <2>3 DEF ApplyEdit, ShoppingTypeOK, EditState
    <2> QED
      BY <1>2, <2>1, <2>4 DEF ApplyEdit, ShoppingTypeOK, tabVars
  <1>3. CASE RefuseEdit(e)
    <2>1. edit[e].pc = "sent" => [edit[e] EXCEPT !.pc = "refused"] \in EditState
      BY EditFields DEF EditState
    <2>2. edit' \in [Edits -> EditState]
      BY <1>3, <2>1 DEF RefuseEdit, ShoppingTypeOK, EditState
    <2> QED
      BY <1>3, <2>2 DEF RefuseEdit, ShoppingTypeOK, tabVars
  <1>4. CASE EndEdit(e)
    <2>1. view' \in Carts \union {Nothing}
      BY <1>4, RollingBack DEF EndEdit, ShoppingTypeOK
    <2>2. edit' \in [Edits -> EditState]
      BY <1>4 DEF EndEdit, ShoppingTypeOK, EditState
    <2>3. fetch' \in FetchState /\ stale' \in BOOLEAN /\ unseen' \in BOOLEAN
      BY <1>4, InvalidatedTypes DEF EndEdit, Reconcile
    <2> QED
      BY <1>4, <2>1, <2>2, <2>3 DEF EndEdit, ShoppingTypeOK
  <1>5. CASE LoseEdit(e)
    <2>1. view' \in Carts \union {Nothing}
      BY <1>5, RollingBack DEF LoseEdit, ShoppingTypeOK
    <2>2. [pc |-> "orphaned", change |-> edit[e].change] \in EditState
      BY <1>5, EditFields DEF LoseEdit, EditState
    <2>3. edit' \in [Edits -> EditState]
      BY <1>5, <2>2 DEF LoseEdit, ShoppingTypeOK, EditState
    <2>4. fetch' \in FetchState /\ stale' \in BOOLEAN /\ unseen' \in BOOLEAN
      BY <1>5, InvalidatedTypes DEF LoseEdit, Reconcile
    <2> QED
      BY <1>5, <2>1, <2>3, <2>4 DEF LoseEdit, ShoppingTypeOK
  <1> QED
    BY <1>1, <1>2, <1>3, <1>4, <1>5 DEF EditStep

LEMMA AnsweredAttempt ==
  ASSUME ShoppingTypeOK, NEW a \in Attempts
  PROVE  /\ Answered(a) \in AttemptState
         /\ \/ Answered(a).pc = "idle"
            \/ /\ attempt[a].pc = "placed"
               /\ Answered(a).pc = "placed" /\ Answered(a).key = attempt[a].key
               /\ Answered(a).order = attempt[a].order
  <1>1. CASE attempt[a].pc = "placed" /\ ~attempt[a].recorded
    BY <1>1, AttemptFields DEF Answered, AttemptState
  <1>2. CASE ~(attempt[a].pc = "placed" /\ ~attempt[a].recorded)
    BY <1>2 DEF Answered, AttemptState, AtRest
  <1> QED
    BY <1>1, <1>2

LEMMA MovedAttempt ==
  ASSUME ShoppingTypeOK, NEW a \in Attempts, NEW state \in AttemptState,
         attempt' = [attempt EXCEPT ![a] = state]
  PROVE  /\ attempt' \in [Attempts -> AttemptState]
         /\ attempt'[a] = state
         /\ \A b \in Attempts \ {a} : attempt'[b] = attempt[b]
  BY DEF ShoppingTypeOK

LEMMA TabTypes ==
  ASSUME ShoppingTypeOK, NEW a \in Attempts, TabStep(a)
  PROVE  ShoppingTypeOK'
  <1> USE DEF serverVars
  <1>1. CASE Click(a)
    <2>1. [pc |-> "sent", key |-> key] \in AttemptState
      BY <1>1 DEF Click, AttemptState, ShoppingTypeOK
    <2>2. attempt' \in [Attempts -> AttemptState]
      BY <1>1, <2>1, MovedAttempt DEF Click
    <2> QED
      BY <1>1, <2>2 DEF Click, ShoppingTypeOK
  <1>2. CASE ReceiveOrder(a)
    <2>1. attempt[a].key \in Keys /\ attempt[a].order \in Nat
      BY <1>2, AttemptFields DEF ReceiveOrder
    <2>2. receipts' \in [Keys -> SUBSET Nat]
      BY <1>2, <2>1 DEF ReceiveOrder, ShoppingTypeOK
    <2>3. attempt' \in [Attempts -> AttemptState]
      BY <1>2, MovedAttempt, AnsweredAttempt DEF ReceiveOrder
    <2>4. fetch' \in FetchState /\ stale' \in BOOLEAN /\ unseen' \in BOOLEAN
      BY <1>2, InvalidatedTypes DEF ReceiveOrder
    <2> QED
      BY <1>2, <2>2, <2>3, <2>4 DEF ReceiveOrder, ShoppingTypeOK
  <1>3. CASE ReceiveError(a)
    BY <1>3 DEF ReceiveError, ShoppingTypeOK, AttemptState
  <1>4. CASE LoseCheckout(a)
    <2>1. (IF attempt[a].pc \in {"placed", "replay", "refused"} THEN Answered(a)
           ELSE attempt[a]) \in AttemptState
      BY AnsweredAttempt DEF ShoppingTypeOK
    <2>2. attempt' \in [Attempts -> AttemptState]
      BY <1>4, <2>1, MovedAttempt DEF LoseCheckout
    <2>3. unseen' \in BOOLEAN
      BY <1>4 DEF LoseCheckout, ShoppingTypeOK
    <2> QED
      BY <1>4, <2>2, <2>3 DEF LoseCheckout, ShoppingTypeOK
  <1> QED
    BY <1>1, <1>2, <1>3, <1>4 DEF TabStep

LEMMA Refusing ==
  ASSUME ShoppingTypeOK, NEW a \in Attempts, attempt[a].pc # "idle", Refuse(a)
  PROVE  /\ attempt' \in [Attempts -> AttemptState]
         /\ attempt'[a].pc \in {"idle", "refused"}
         /\ \A b \in Attempts \ {a} : attempt'[b] = attempt[b]
  <1> DEFINE state == IF awaited = a THEN [pc |-> "refused", key |-> attempt[a].key] ELSE AtRest
  <1>1. state \in AttemptState /\ state.pc \in {"idle", "refused"}
    BY AttemptFields DEF AttemptState, AtRest
  <1>2. attempt' = [attempt EXCEPT ![a] = state]
    BY DEF Refuse, Goes
  <1> HIDE DEF state
  <1> QED
    BY <1>1, <1>2, MovedAttempt

(* What the actions of the server that keep an attempt at work make of it.  *)
LEMMA WorkingAttempt ==
  ASSUME ShoppingTypeOK, NEW a \in Attempts,
         attempt[a].pc \in Working, NEW pc \in Working,
         attempt' = [attempt EXCEPT ![a] = [attempt[a] EXCEPT !.pc = pc]]
  PROVE  /\ attempt' \in [Attempts -> AttemptState]
         /\ attempt'[a].pc = pc /\ attempt'[a].key = attempt[a].key
         /\ \A b \in Attempts \ {a} : attempt'[b] = attempt[b]
  <1> DEFINE state == [attempt[a] EXCEPT !.pc = pc]
  <1>1. state \in AttemptState /\ state.pc = pc /\ state.key = attempt[a].key
    BY AttemptFields DEF AttemptState, Working
  <1> HIDE DEF state
  <1>2. attempt' = [attempt EXCEPT ![a] = state]
    BY DEF state
  <1> QED
    BY <1>1, <1>2, MovedAttempt

LEMMA Taking ==
  ASSUME ShoppingTypeOK, NEW a \in Attempts, Begin(a)
  PROVE  /\ attempt' \in [Attempts -> AttemptState] /\ keys' \in [Keys -> KeyRow]
         /\ attempt[a].pc = "sent" /\ attempt[a].key \in Keys
         /\ attempt'[a].key = attempt[a].key
         /\ \A b \in Attempts \ {a} : attempt'[b] = attempt[b]
         /\ \A k \in Keys \ {attempt[a].key} : keys'[k] = keys[k]
         /\ \/ attempt'[a].pc = "conflict" /\ keys' = keys
            \/ /\ attempt'[a].pc = "begun"
               /\ keys[attempt[a].key].status = "ABSENT"
               /\ keys'[attempt[a].key].status = "PROCESSING"
  <1> DEFINE k == attempt[a].key
             now(pc) == [pc |-> pc, key |-> k]
             row == [status |-> "PROCESSING"]
  <1>1. attempt[a].pc = "sent" /\ k \in Keys
    BY AttemptFields DEF Begin
  <1>2. \A pc \in {"conflict", "begun"} :
          now(pc) \in AttemptState /\ now(pc).pc = pc /\ now(pc).key = k
    BY <1>1 DEF AttemptState
  <1>3. row \in KeyRow /\ row.status = "PROCESSING"
    BY DEF KeyRow
  <1> HIDE DEF row, now
  <1>4. CASE Goes(a, now("conflict")) /\ UNCHANGED keys
    BY <1>1, <1>2, <1>4, MovedAttempt DEF Goes, ShoppingTypeOK
  <1>5. CASE /\ ~Taken(k) /\ keys' = [keys EXCEPT ![k] = row] /\ Goes(a, now("begun"))
    BY <1>1, <1>2, <1>3, <1>5, MovedAttempt DEF Goes, Taken, ShoppingTypeOK
  <1> QED
    BY <1>4, <1>5 DEF Begin, row, now

LEMMA LookingUp ==
  ASSUME ShoppingTypeOK, NEW a \in Attempts, LookUp(a)
  PROVE  /\ attempt' \in [Attempts -> AttemptState]
         /\ attempt[a].pc = "conflict" /\ attempt[a].key \in Keys
         /\ \A b \in Attempts \ {a} : attempt'[b] = attempt[b]
         /\ \/ attempt'[a].pc \in {"idle", "refused"}
            \/ /\ keys[attempt[a].key].status = "COMPLETED"
               /\ attempt'[a].pc = "replay" /\ attempt'[a].key = attempt[a].key
               /\ attempt'[a].order = keys[attempt[a].key].order
  <1> DEFINE row == keys[attempt[a].key]
             state == [pc |-> "replay", key |-> attempt[a].key, order |-> row.order]
  <1>1. attempt[a].pc = "conflict" /\ attempt[a].key \in Keys /\ row \in KeyRow
    BY AttemptFields DEF LookUp, ShoppingTypeOK
  <1>2. CASE row.status = "COMPLETED" /\ awaited = a
    <2>1. row.order \in Nat
      BY <1>1, <1>2 DEF KeyRow
    <2>2. /\ state \in AttemptState /\ state.pc = "replay" /\ state.key = attempt[a].key
          /\ state.order = row.order
      BY <1>1, <2>1 DEF AttemptState
    <2>3. attempt' = [attempt EXCEPT ![a] = state]
      BY <1>2 DEF LookUp, Goes
    <2> HIDE DEF state
    <2> QED
      BY <1>1, <1>2, <2>2, <2>3, MovedAttempt
  <1>3. CASE row.status = "COMPLETED" /\ awaited # a
    <2>1. attempt' = [attempt EXCEPT ![a] = AtRest]
      BY <1>3 DEF LookUp, Goes
    <2>2. AtRest \in AttemptState /\ AtRest.pc = "idle"
      BY DEF AttemptState, AtRest
    <2> QED
      BY <1>1, <2>1, <2>2, MovedAttempt
  <1>4. CASE row.status # "COMPLETED"
    BY <1>1, <1>4, Refusing DEF LookUp
  <1> QED
    BY <1>2, <1>3, <1>4

LEMMA Placing ==
  ASSUME ShoppingTypeOK, NEW a \in Attempts, NEW missed \in BOOLEAN, Place(a, missed)
  PROVE  /\ attempt' \in [Attempts -> AttemptState] /\ orders' \in Seq(OrderRow)
         /\ attempt[a].pc = "read" /\ attempt[a].key \in Keys
         /\ attempt'[a].key = attempt[a].key
         /\ \A b \in Attempts \ {a} : attempt'[b] = attempt[b]
         /\ missed => attempt'[a].pc = "failing"
         /\ ~missed => /\ attempt'[a].pc = "placed" /\ attempt'[a].order = Len(orders) + 1
                     /\ attempt'[a].answered = (awaited # a)
         /\ Len(orders) \in Nat /\ DOMAIN orders = 1 .. Len(orders)
         /\ DOMAIN orders' = 1 .. Len(orders) + 1
         /\ \A n \in DOMAIN orders : orders'[n] = orders[n]
         /\ orders'[Len(orders) + 1].key = attempt[a].key
         /\ orders'[Len(orders) + 1].lost = missed
  <1> DEFINE row == [key |-> attempt[a].key, lost |-> missed]
             state == [pc |-> "placed", key |-> attempt[a].key, order |-> Len(orders) + 1,
                       answered |-> awaited # a, recorded |-> FALSE]
  <1>1. attempt[a].pc = "read" /\ attempt[a].key \in Keys
    BY AttemptFields DEF Place
  <1>2. row \in OrderRow /\ row.key = attempt[a].key /\ row.lost = missed
    BY <1>1 DEF OrderRow
  <1>3. orders \in Seq(OrderRow) /\ Len(orders) \in Nat /\ DOMAIN orders = 1 .. Len(orders)
    BY DEF ShoppingTypeOK
  <1>4. orders' = Append(orders, row)
    BY DEF Place
  <1> HIDE DEF row
  <1>5. /\ orders' \in Seq(OrderRow) /\ Len(orders') = Len(orders) + 1
        /\ \A n \in 1 .. Len(orders) : orders'[n] = orders[n]
        /\ orders'[Len(orders) + 1] = row
    BY <1>2, <1>3, <1>4, AppendProperties
  <1>6. DOMAIN orders' = 1 .. Len(orders) + 1
    BY <1>5
  <1>7. ASSUME missed
        PROVE  /\ attempt' \in [Attempts -> AttemptState]
               /\ attempt'[a].key = attempt[a].key /\ attempt'[a].pc = "failing"
               /\ \A b \in Attempts \ {a} : attempt'[b] = attempt[b]
    <2>1. attempt' = [attempt EXCEPT ![a] = [attempt[a] EXCEPT !.pc = "failing"]]
      BY <1>7 DEF Place, Goes
    <2> QED
      BY <1>1, <2>1, WorkingAttempt DEF Working
  <1>8. ASSUME ~missed
        PROVE  /\ attempt' \in [Attempts -> AttemptState]
               /\ attempt'[a].key = attempt[a].key /\ attempt'[a].pc = "placed"
               /\ attempt'[a].order = Len(orders) + 1 /\ attempt'[a].answered = (awaited # a)
               /\ \A b \in Attempts \ {a} : attempt'[b] = attempt[b]
    <2>1. (awaited # a) \in BOOLEAN /\ Len(orders) + 1 \in Nat
      BY <1>3
    <2>2. /\ state \in AttemptState /\ state.pc = "placed" /\ state.key = attempt[a].key
          /\ state.order = Len(orders) + 1 /\ state.answered = (awaited # a)
      BY <1>1, <2>1 DEF AttemptState
    <2>3. attempt' = [attempt EXCEPT ![a] = state]
      BY <1>8 DEF Place, Goes
    <2> HIDE DEF state
    <2> QED
      BY <1>8, <2>2, <2>3, MovedAttempt
  <1> QED
    BY <1>1, <1>2, <1>3, <1>5, <1>6, <1>7, <1>8

LEMMA Completing ==
  ASSUME ShoppingTypeOK, NEW a \in Attempts, Complete(a)
  PROVE  /\ attempt' \in [Attempts -> AttemptState] /\ keys' \in [Keys -> KeyRow]
         /\ attempt[a].pc = "placed" /\ attempt[a].key \in Keys
         /\ \A b \in Attempts \ {a} : attempt'[b] = attempt[b]
         /\ \/ attempt[a].answered /\ attempt'[a].pc = "idle"
            \/ /\ ~attempt[a].answered /\ ~attempt'[a].answered /\ attempt'[a].pc = "placed"
               /\ attempt'[a].key = attempt[a].key /\ attempt'[a].order = attempt[a].order
         /\ \A k \in Keys \ {attempt[a].key} : keys'[k] = keys[k]
         /\ keys'[attempt[a].key].status = "COMPLETED"
         /\ keys'[attempt[a].key].order = attempt[a].order
  <1> DEFINE row == [status |-> "COMPLETED", order |-> attempt[a].order]
             state == [attempt[a] EXCEPT !.recorded = TRUE]
  <1>1. /\ attempt[a].pc = "placed" /\ attempt[a].key \in Keys /\ attempt[a].order \in Nat
        /\ attempt[a].answered \in BOOLEAN
    BY AttemptFields DEF Complete
  <1>2. row \in KeyRow /\ row.status = "COMPLETED" /\ row.order = attempt[a].order
    BY <1>1 DEF KeyRow
  <1>3. keys' = [keys EXCEPT ![attempt[a].key] = row]
    BY DEF Complete
  <1>4. /\ state \in AttemptState /\ state.pc = "placed" /\ state.key = attempt[a].key
        /\ state.order = attempt[a].order /\ state.answered = attempt[a].answered
    BY <1>1, AttemptFields DEF AttemptState
  <1>5. attempt' = [attempt EXCEPT ![a] = IF attempt[a].answered THEN AtRest ELSE state]
    BY DEF Complete, Goes
  <1>6. AtRest \in AttemptState /\ AtRest.pc = "idle"
    BY DEF AttemptState, AtRest
  <1> HIDE DEF row, state
  <1>7. /\ keys' \in [Keys -> KeyRow] /\ keys'[attempt[a].key] = row
        /\ \A k \in Keys \ {attempt[a].key} : keys'[k] = keys[k]
    BY <1>1, <1>2, <1>3 DEF ShoppingTypeOK
  <1>8. CASE attempt[a].answered
    BY <1>1, <1>2, <1>5, <1>6, <1>7, <1>8, MovedAttempt
  <1>9. CASE ~attempt[a].answered
    BY <1>1, <1>2, <1>4, <1>5, <1>7, <1>9, MovedAttempt
  <1> QED
    BY <1>8, <1>9

LEMMA Releasing ==
  ASSUME ShoppingTypeOK, NEW a \in Attempts, ReleaseKey(a)
  PROVE  /\ attempt' \in [Attempts -> AttemptState] /\ keys' \in [Keys -> KeyRow]
         /\ attempt[a].pc = "failing" /\ attempt[a].key \in Keys
         /\ attempt'[a].pc \in {"idle", "refused"}
         /\ \A b \in Attempts \ {a} : attempt'[b] = attempt[b]
         /\ \A k \in Keys \ {attempt[a].key} : keys'[k] = keys[k]
         /\ keys' = keys \/ keys'[attempt[a].key].status = "ABSENT"
  <1> DEFINE row == [status |-> "ABSENT"]
  <1>1. attempt[a].pc = "failing" /\ attempt[a].key \in Keys
    BY AttemptFields DEF ReleaseKey
  <1>2. row \in KeyRow /\ row.status = "ABSENT"
    BY DEF KeyRow
  <1>3. keys' = [keys EXCEPT ![attempt[a].key] = row] \/ keys' = keys
    BY DEF ReleaseKey
  <1> HIDE DEF row
  <1>4. Refuse(a) /\ keys \in [Keys -> KeyRow]
    BY DEF ReleaseKey, ShoppingTypeOK
  <1> QED
    BY <1>1, <1>2, <1>3, <1>4, Refusing

LEMMA EmptyIsCart == EmptyCart \in Carts
  BY QuantityAssumption DEF EmptyCart, Carts, Quantities

LEMMA ServerTypes ==
  ASSUME ShoppingTypeOK, NEW a \in Attempts, ServerStep(a)
  PROVE  ShoppingTypeOK'
  <1> USE DEF serverVars, tabVars
  <1>1. CASE Begin(a)
    BY <1>1, Taking DEF Begin, ShoppingTypeOK
  <1>2. CASE LookUp(a)
    BY <1>2, LookingUp DEF LookUp, ShoppingTypeOK
  <1>3. CASE ReadLines(a)
    <2>1. attempt' \in [Attempts -> AttemptState]
      BY <1>3, WorkingAttempt DEF ReadLines, Goes, Working
    <2> QED
      BY <1>3, <2>1 DEF ReadLines, ShoppingTypeOK
  <1>4. ASSUME NEW missed \in BOOLEAN, Place(a, missed)
        PROVE  ShoppingTypeOK'
    <2>1. attempt' \in [Attempts -> AttemptState] /\ orders' \in Seq(OrderRow)
      BY <1>4, Placing
    <2>2. cart' \in Carts /\ unseen' \in BOOLEAN
      BY <1>4, EmptyIsCart DEF Place, ShoppingTypeOK
    <2> QED
      BY <1>4, <2>1, <2>2 DEF Place, ShoppingTypeOK
  <1>5. CASE FailCheckout(a)
    <2>1. attempt' \in [Attempts -> AttemptState]
      BY <1>5, WorkingAttempt DEF FailCheckout, Goes, Working
    <2> QED
      BY <1>5, <2>1 DEF FailCheckout, ShoppingTypeOK
  <1>6. CASE ReleaseKey(a)
    BY <1>6, Releasing DEF ReleaseKey, ShoppingTypeOK
  <1>7. CASE Complete(a)
    BY <1>7, Completing DEF Complete, ShoppingTypeOK
  <1> QED
    BY <1>1, <1>2, <1>3, <1>4, <1>5, <1>6, <1>7 DEF ServerStep

LEMMA ShoppingStep ==
  ASSUME ShoppingTypeOK, [ShoppingNext]_shoppingVars
  PROVE  ShoppingTypeOK'
  <1>1. CASE QueryStep
    BY <1>1, QueryTypes
  <1>2. CASE \E e \in Edits : EditStep(e)
    BY <1>2, EditTypes
  <1>3. CASE \E a \in Attempts : TabStep(a) \/ ServerStep(a)
    BY <1>3, TabTypes, ServerTypes
  <1>4. CASE (\E k \in Keys : OpenCheckout(k)) \/ LeaveCheckout
    BY <1>4 DEF OpenCheckout, LeaveCheckout, ShoppingTypeOK, serverVars
  <1>5. CASE Crash
    <2>1. attempt' \in [Attempts -> AttemptState] /\ unseen' \in BOOLEAN
      BY <1>5 DEF Crash, AttemptState, ShoppingTypeOK
    <2> QED
      BY <1>5, <2>1 DEF Crash, ShoppingTypeOK, serverVars
  <1>6. CASE UNCHANGED shoppingVars
    BY <1>6 DEF shoppingVars, serverVars, tabVars, ShoppingTypeOK
  <1> QED
    BY <1>1, <1>2, <1>3, <1>4, <1>5, <1>6 DEF ShoppingNext

(* The state of the tab, the server's rows and the requests between them    *)
(* are of their types, whatever is lost and whoever crashes                 *)
(* (use-cart-mutations, use-cart-checkout, IdempotencyKeyService).          *)
THEOREM ShoppingTypes == ShoppingSpec => []ShoppingTypeOK
  <1>1. ShoppingInit => ShoppingTypeOK
    <2> SUFFICES ASSUME ShoppingInit PROVE ShoppingTypeOK
      OBVIOUS
    <2>1. keys \in [Keys -> KeyRow]
      BY DEF ShoppingInit, KeyRow
    <2>2. attempt \in [Attempts -> AttemptState] /\ edit \in [Edits -> EditState]
      BY DEF ShoppingInit, AttemptState, EditState
    <2>3. orders \in Seq(OrderRow) /\ fetch \in FetchState
      BY DEF ShoppingInit, FetchState
    <2> QED
      BY <2>1, <2>2, <2>3 DEF ShoppingInit, ShoppingTypeOK
  <1>2. ShoppingTypeOK /\ [ShoppingNext]_shoppingVars => ShoppingTypeOK'
    BY ShoppingStep
  <1> QED
    BY <1>1, <1>2, PTL DEF ShoppingSpec

-----------------------------------------------------------------------------
(* One order under a key                                                    *)
(*                                                                          *)
(* While the row of a key is PROCESSING at most one attempt works under it, *)
(* and nothing is placed yet, or that attempt has placed the order and its  *)
(* row is not recorded; a COMPLETED row names the order there is.           *)

PlacedUnder(k) == {n \in DOMAIN orders : orders[n].key = k /\ ~orders[n].lost}

Works(a, k) == attempt[a].pc \in Working /\ attempt[a].key = k
HasPlaced(a, k) == attempt[a].pc = "placed" /\ attempt[a].key = k
Replays(a, k) == attempt[a].pc = "replay" /\ attempt[a].key = k
Holds(a, k) == Works(a, k) \/ HasPlaced(a, k)

KeyInv(k) ==
  /\ \A m, n \in PlacedUnder(k) : m = n
  /\ receipts[k] \subseteq PlacedUnder(k)
  /\ keys[k].status = "ABSENT" => PlacedUnder(k) = {} /\ \A a \in Attempts : ~Holds(a, k)
  /\ keys[k].status = "COMPLETED" => keys[k].order \in PlacedUnder(k)
  /\ \A a, b \in Attempts : Holds(a, k) /\ Holds(b, k) => a = b
  /\ \A a \in Attempts :
       /\ Works(a, k) => PlacedUnder(k) = {} /\ keys[k].status = "PROCESSING"
       /\ HasPlaced(a, k) \/ Replays(a, k) => attempt[a].order \in PlacedUnder(k)

KeysInv == \A k \in Keys : KeyInv(k)

(* A step in which an attempt takes no key, places nothing and learns of no *)
(* order.                                                                   *)
GoesOn(a, k) ==
  /\ Works(a, k)' => Works(a, k)
  /\ HasPlaced(a, k)' => HasPlaced(a, k) /\ attempt'[a].order = attempt[a].order
  /\ Replays(a, k)' => Replays(a, k) /\ attempt'[a].order = attempt[a].order

LEMMA KeyStays ==
  ASSUME NEW k \in Keys, KeyInv(k), PlacedUnder(k)' = PlacedUnder(k), keys'[k] = keys[k],
         receipts'[k] \subseteq PlacedUnder(k), \A a \in Attempts : GoesOn(a, k)
  PROVE  KeyInv(k)'
  BY DEF KeyInv, GoesOn, Holds

LEMMA OthersGoOn ==
  ASSUME NEW k \in Keys, NEW a \in Attempts, GoesOn(a, k),
         \A b \in Attempts \ {a} : attempt'[b] = attempt[b]
  PROVE  \A b \in Attempts : GoesOn(b, k)
  BY DEF GoesOn, Works, HasPlaced, Replays

(* The tab and its edits move no attempt to work. *)
LEMMA KeysOutsideTheServer ==
  ASSUME ShoppingTypeOK, KeysInv, UNCHANGED << keys, orders, receipts >>,
         \A a \in Attempts, k \in Keys : GoesOn(a, k)
  PROVE  KeysInv'
  <1> SUFFICES ASSUME NEW k \in Keys PROVE KeyInv(k)'
    BY DEF KeysInv
  <1>1. PlacedUnder(k)' = PlacedUnder(k) /\ receipts'[k] \subseteq PlacedUnder(k)
    BY DEF PlacedUnder, KeysInv, KeyInv
  <1> QED
    BY <1>1, KeyStays DEF KeysInv

LEMMA TabKeepsKeys ==
  ASSUME ShoppingTypeOK, KeysInv, NEW a \in Attempts, TabStep(a)
  PROVE  KeysInv'
  <1> USE DEF serverVars
  <1>1. ASSUME NEW state \in AttemptState, attempt' = [attempt EXCEPT ![a] = state],
               \/ state.pc \in {"idle", "sent"}
               \/ state = attempt[a]
               \/ /\ attempt[a].pc = "placed" /\ state.pc = "placed"
                  /\ state.key = attempt[a].key /\ state.order = attempt[a].order
        PROVE  \A b \in Attempts, k \in Keys : GoesOn(b, k)
    <2> TAKE b \in Attempts, k \in Keys
    <2>1. GoesOn(a, k)
      BY <1>1, MovedAttempt DEF GoesOn, Works, HasPlaced, Replays, Working
    <2> QED
      BY <1>1, <2>1, MovedAttempt, OthersGoOn
  <1>2. CASE Click(a)
    <2> DEFINE state == [pc |-> "sent", key |-> key]
    <2>1. state \in AttemptState /\ state.pc = "sent"
      BY <1>2 DEF Click, AttemptState, ShoppingTypeOK
    <2>2. attempt' = [attempt EXCEPT ![a] = state]
      BY <1>2 DEF Click
    <2> HIDE DEF state
    <2>3. \A b \in Attempts, k \in Keys : GoesOn(b, k)
      BY <1>1, <2>1, <2>2
    <2> QED
      BY <1>2, <2>3, KeysOutsideTheServer DEF Click
  <1>3. CASE ReceiveOrder(a)
    <2>1. \A b \in Attempts, k \in Keys : GoesOn(b, k)
      BY <1>1, <1>3, AnsweredAttempt DEF ReceiveOrder
    <2>2. attempt[a].key \in Keys /\ attempt[a].pc \in {"placed", "replay"}
      BY <1>3, AttemptFields DEF ReceiveOrder
    <2> SUFFICES ASSUME NEW k \in Keys PROVE KeyInv(k)'
      BY DEF KeysInv
    <2>3. KeyInv(k)
      BY DEF KeysInv
    <2>4. k = attempt[a].key => attempt[a].order \in PlacedUnder(k)
      BY <2>2, <2>3 DEF KeyInv, HasPlaced, Replays
    <2>5. receipts'[k] \subseteq receipts[k] \union
            IF k = attempt[a].key THEN {attempt[a].order} ELSE {}
      BY <1>3, <2>2 DEF ReceiveOrder, ShoppingTypeOK
    <2>6. receipts'[k] \subseteq PlacedUnder(k)
      BY <2>3, <2>4, <2>5 DEF KeyInv
    <2>7. PlacedUnder(k)' = PlacedUnder(k) /\ keys'[k] = keys[k]
      BY <1>3 DEF ReceiveOrder, PlacedUnder
    <2> QED
      BY <2>1, <2>3, <2>6, <2>7, KeyStays
  <1>4. CASE ReceiveError(a)
    <2>1. AtRest \in AttemptState /\ AtRest.pc = "idle"
      BY DEF AttemptState, AtRest
    <2>2. \A b \in Attempts, k \in Keys : GoesOn(b, k)
      BY <1>1, <1>4, <2>1 DEF ReceiveError
    <2> QED
      BY <1>4, <2>2, KeysOutsideTheServer DEF ReceiveError
  <1>5. CASE LoseCheckout(a)
    <2> DEFINE state == IF attempt[a].pc \in {"placed", "replay", "refused"} THEN Answered(a)
                        ELSE attempt[a]
    <2>1. state \in AttemptState
      BY AnsweredAttempt DEF ShoppingTypeOK
    <2>2. \/ state.pc = "idle" \/ state = attempt[a]
          \/ /\ attempt[a].pc = "placed" /\ state.pc = "placed"
             /\ state.key = attempt[a].key /\ state.order = attempt[a].order
      BY AnsweredAttempt
    <2>3. attempt' = [attempt EXCEPT ![a] = state]
      BY <1>5 DEF LoseCheckout
    <2> HIDE DEF state
    <2>4. \A b \in Attempts, k \in Keys : GoesOn(b, k)
      BY <1>1, <2>1, <2>2, <2>3
    <2> QED
      BY <1>5, <2>4, KeysOutsideTheServer DEF LoseCheckout
  <1> QED
    BY <1>2, <1>3, <1>4, <1>5 DEF TabStep

LEMMA TakingKeepsKeys ==
  ASSUME ShoppingTypeOK, KeysInv, NEW a \in Attempts, Begin(a)
  PROVE  KeysInv'
  <1>1. /\ attempt[a].pc = "sent" /\ attempt[a].key \in Keys
        /\ attempt'[a].key = attempt[a].key
        /\ \A b \in Attempts \ {a} : attempt'[b] = attempt[b]
        /\ \A k \in Keys \ {attempt[a].key} : keys'[k] = keys[k]
        /\ \/ attempt'[a].pc = "conflict" /\ keys' = keys
           \/ /\ attempt'[a].pc = "begun"
              /\ keys[attempt[a].key].status = "ABSENT"
              /\ keys'[attempt[a].key].status = "PROCESSING"
    BY Taking
  <1> SUFFICES ASSUME NEW k \in Keys PROVE KeyInv(k)'
    BY DEF KeysInv
  <1>2. KeyInv(k) /\ PlacedUnder(k)' = PlacedUnder(k) /\ receipts' = receipts
    BY DEF KeysInv, Begin, tabVars, PlacedUnder
  <1>3. CASE k # attempt[a].key \/ (keys' = keys /\ attempt'[a].pc = "conflict")
    <2>1. GoesOn(a, k)
      BY <1>1, <1>3 DEF GoesOn, Works, HasPlaced, Replays, Working
    <2>2. \A b \in Attempts : GoesOn(b, k)
      BY <1>1, <2>1, OthersGoOn
    <2>3. keys'[k] = keys[k] /\ receipts'[k] \subseteq PlacedUnder(k)
      BY <1>1, <1>2, <1>3 DEF KeyInv
    <2> QED
      BY <1>2, <2>2, <2>3, KeyStays
  <1>4. CASE k = attempt[a].key /\ attempt'[a].pc = "begun"
    <2>1. /\ PlacedUnder(k) = {} /\ \A b \in Attempts : ~Holds(b, k)
          /\ keys'[k].status = "PROCESSING" /\ receipts'[k] = {}
      BY <1>1, <1>2, <1>4 DEF KeyInv
    <2>2. \A b \in Attempts : /\ Holds(b, k)' => b = a
                              /\ ~HasPlaced(b, k)'
                              /\ Replays(b, k)' => Replays(b, k) /\ attempt'[b] = attempt[b]
      BY <1>1, <1>4, <2>1 DEF Holds, Works, HasPlaced, Replays, Working
    <2> QED
      BY <1>2, <2>1, <2>2 DEF KeyInv, Holds
  <1>5. (attempt'[a].pc = "conflict" /\ keys' = keys) \/ attempt'[a].pc = "begun"
    BY <1>1
  <1> QED
    BY <1>3, <1>4, <1>5

LEMMA PlacingKeepsKeys ==
  ASSUME ShoppingTypeOK, KeysInv, NEW a \in Attempts, NEW missed \in BOOLEAN, Place(a, missed)
  PROVE  KeysInv'
  <1>1. /\ attempt[a].pc = "read" /\ attempt[a].key \in Keys
        /\ attempt'[a].key = attempt[a].key
        /\ \A b \in Attempts \ {a} : attempt'[b] = attempt[b]
        /\ missed => attempt'[a].pc = "failing"
        /\ ~missed => attempt'[a].pc = "placed" /\ attempt'[a].order = Len(orders) + 1
        /\ Len(orders) \in Nat /\ DOMAIN orders = 1 .. Len(orders)
        /\ DOMAIN orders' = 1 .. Len(orders) + 1
        /\ \A n \in DOMAIN orders : orders'[n] = orders[n]
        /\ orders'[Len(orders) + 1].key = attempt[a].key
        /\ orders'[Len(orders) + 1].lost = missed
    BY Placing
  <1> SUFFICES ASSUME NEW k \in Keys PROVE KeyInv(k)'
    BY DEF KeysInv
  <1>2. KeyInv(k) /\ keys' = keys /\ receipts' = receipts
    BY DEF KeysInv, Place, tabVars
  <1>3. PlacedUnder(k)' = {n \in 1 .. Len(orders) + 1 :
                             orders'[n].key = k /\ ~orders'[n].lost}
    BY <1>1 DEF PlacedUnder
  <1>4. CASE missed \/ k # attempt[a].key
    <2>1. PlacedUnder(k)' = PlacedUnder(k)
      BY <1>1, <1>3, <1>4 DEF PlacedUnder
    <2>2. GoesOn(a, k)
      BY <1>1, <1>4 DEF GoesOn, Works, HasPlaced, Replays, Working
    <2>3. \A b \in Attempts : GoesOn(b, k)
      BY <1>1, <2>2, OthersGoOn
    <2> QED
      BY <1>2, <2>1, <2>3, KeyStays DEF KeyInv
  <1>5. CASE ~missed /\ k = attempt[a].key
    <2>1. Works(a, k)
      BY <1>1, <1>5 DEF Works, Working
    <2>2. PlacedUnder(k) = {} /\ keys[k].status = "PROCESSING"
      BY <1>2, <2>1 DEF KeyInv
    <2>3. PlacedUnder(k)' = {Len(orders) + 1}
      BY <1>1, <1>3, <1>5, <2>2 DEF PlacedUnder
    <2>4. receipts'[k] = {}
      BY <1>2, <2>2 DEF KeyInv
    <2>5. \A b \in Attempts : /\ Holds(b, k)' => b = a
                              /\ ~Works(b, k)'
                              /\ HasPlaced(b, k)' => attempt'[b].order = Len(orders) + 1
                              /\ ~Replays(b, k)'
      BY <1>1, <1>2, <1>5, <2>1, <2>2 DEF KeyInv, Holds, Works, HasPlaced, Replays, Working
    <2> QED
      BY <1>2, <2>2, <2>3, <2>4, <2>5 DEF KeyInv
  <1> QED
    BY <1>4, <1>5

LEMMA CompletingKeepsKeys ==
  ASSUME ShoppingTypeOK, KeysInv, NEW a \in Attempts, Complete(a)
  PROVE  KeysInv'
  <1>1. /\ attempt[a].pc = "placed" /\ attempt[a].key \in Keys
        /\ \A b \in Attempts \ {a} : attempt'[b] = attempt[b]
        /\ \/ attempt'[a].pc = "idle"
           \/ /\ attempt'[a].pc = "placed" /\ attempt'[a].key = attempt[a].key
              /\ attempt'[a].order = attempt[a].order
        /\ \A k \in Keys \ {attempt[a].key} : keys'[k] = keys[k]
        /\ keys'[attempt[a].key].status = "COMPLETED"
        /\ keys'[attempt[a].key].order = attempt[a].order
    BY Completing
  <1> SUFFICES ASSUME NEW k \in Keys PROVE KeyInv(k)'
    BY DEF KeysInv
  <1>2. KeyInv(k) /\ PlacedUnder(k)' = PlacedUnder(k) /\ receipts' = receipts
    BY DEF KeysInv, Complete, tabVars, PlacedUnder
  <1>3. GoesOn(a, k)
    BY <1>1 DEF GoesOn, Works, HasPlaced, Replays, Working
  <1>4. \A b \in Attempts : GoesOn(b, k)
    BY <1>1, <1>3, OthersGoOn
  <1>5. CASE k # attempt[a].key
    BY <1>1, <1>2, <1>4, <1>5, KeyStays DEF KeyInv
  <1>6. CASE k = attempt[a].key
    <2>1. HasPlaced(a, k)
      BY <1>1, <1>6 DEF HasPlaced
    <2>2. keys'[k].order \in PlacedUnder(k)
      BY <1>1, <1>2, <1>6, <2>1 DEF KeyInv
    <2>3. \A b \in Attempts : ~Works(b, k)'
      BY <1>2, <1>4, <2>2 DEF KeyInv, GoesOn
    <2>4. \A b \in Attempts : /\ Holds(b, k)' => Holds(b, k)
                              /\ HasPlaced(b, k)' \/ Replays(b, k)' =>
                                   attempt'[b].order \in PlacedUnder(k)
      BY <1>2, <1>4 DEF KeyInv, GoesOn, Holds
    <2>5. keys'[k].status = "COMPLETED"
      BY <1>1, <1>6
    <2> QED
      BY <1>2, <2>2, <2>3, <2>4, <2>5 DEF KeyInv
  <1> QED
    BY <1>5, <1>6

LEMMA ReleasingKeepsKeys ==
  ASSUME ShoppingTypeOK, KeysInv, NEW a \in Attempts, ReleaseKey(a)
  PROVE  KeysInv'
  <1>1. /\ attempt[a].pc = "failing" /\ attempt[a].key \in Keys
        /\ attempt'[a].pc \in {"idle", "refused"}
        /\ \A b \in Attempts \ {a} : attempt'[b] = attempt[b]
        /\ \A k \in Keys \ {attempt[a].key} : keys'[k] = keys[k]
        /\ keys' = keys \/ keys'[attempt[a].key].status = "ABSENT"
    BY Releasing
  <1> SUFFICES ASSUME NEW k \in Keys PROVE KeyInv(k)'
    BY DEF KeysInv
  <1>2. KeyInv(k) /\ PlacedUnder(k)' = PlacedUnder(k) /\ receipts' = receipts
    BY DEF KeysInv, ReleaseKey, tabVars, PlacedUnder
  <1>3. GoesOn(a, k)
    BY <1>1 DEF GoesOn, Works, HasPlaced, Replays, Working
  <1>4. \A b \in Attempts : GoesOn(b, k)
    BY <1>1, <1>3, OthersGoOn
  <1>5. CASE k # attempt[a].key \/ keys' = keys
    BY <1>1, <1>2, <1>4, <1>5, KeyStays DEF KeyInv
  <1>6. CASE k = attempt[a].key /\ keys'[k].status = "ABSENT"
    <2>1. Works(a, k)
      BY <1>1, <1>6 DEF Works, Working
    <2>2. PlacedUnder(k) = {}
      BY <1>2, <2>1 DEF KeyInv
    <2>3. \A b \in Attempts : ~Holds(b, k)'
      <3> TAKE b \in Attempts
      <3>1. ~Holds(a, k)'
        BY <1>1 DEF Holds, Works, HasPlaced, Working
      <3>2. b # a => ~Holds(b, k)
        BY <1>2, <2>1 DEF KeyInv, Holds
      <3> QED
        BY <1>4, <3>1, <3>2 DEF GoesOn, Holds
    <2>4. \A b \in Attempts : ~Replays(b, k)'
      BY <1>2, <1>4, <2>2 DEF KeyInv, GoesOn
    <2> QED
      BY <1>2, <1>6, <2>2, <2>3, <2>4 DEF KeyInv, Holds
  <1> QED
    BY <1>1, <1>5, <1>6

LEMMA ServerKeepsKeys ==
  ASSUME ShoppingTypeOK, KeysInv, NEW a \in Attempts, ServerStep(a)
  PROVE  KeysInv'
  <1> USE DEF serverVars, tabVars
  <1>1. CASE Begin(a)
    BY <1>1, TakingKeepsKeys
  <1>2. CASE LookUp(a)
    <2>1. /\ attempt[a].pc = "conflict" /\ attempt[a].key \in Keys
          /\ \A b \in Attempts \ {a} : attempt'[b] = attempt[b]
          /\ \/ attempt'[a].pc \in {"idle", "refused"}
             \/ /\ keys[attempt[a].key].status = "COMPLETED"
                /\ attempt'[a].pc = "replay" /\ attempt'[a].key = attempt[a].key
                /\ attempt'[a].order = keys[attempt[a].key].order
      BY <1>2, LookingUp
    <2> SUFFICES ASSUME NEW k \in Keys PROVE KeyInv(k)'
      BY DEF KeysInv
    <2>2. /\ KeyInv(k) /\ PlacedUnder(k)' = PlacedUnder(k)
          /\ receipts' = receipts /\ keys' = keys
      BY <1>2 DEF KeysInv, LookUp, PlacedUnder
    <2>3. \A b \in Attempts : /\ Works(b, k)' => Works(b, k)
                              /\ HasPlaced(b, k)' => HasPlaced(b, k) /\ attempt'[b] = attempt[b]
                              /\ Holds(b, k)' => Holds(b, k)
      BY <2>1 DEF Works, HasPlaced, Holds, Working
    <2>4. \A b \in Attempts : Replays(b, k)' => attempt'[b].order \in PlacedUnder(k)
      BY <2>1, <2>2 DEF Replays, KeyInv
    <2> QED
      BY <2>2, <2>3, <2>4 DEF KeyInv
  <1>3. ASSUME NEW pc \in Working, attempt[a].pc \in Working,
               Goes(a, [attempt[a] EXCEPT !.pc = pc]), UNCHANGED << keys, orders, receipts >>
        PROVE  KeysInv'
    <2>1. /\ attempt'[a].pc = pc /\ attempt'[a].key = attempt[a].key
          /\ \A b \in Attempts \ {a} : attempt'[b] = attempt[b]
      BY <1>3, WorkingAttempt DEF Goes
    <2>2. \A k \in Keys : GoesOn(a, k)
      BY <1>3, <2>1 DEF GoesOn, Works, HasPlaced, Replays, Working
    <2> QED
      BY <1>3, <2>1, <2>2, OthersGoOn, KeysOutsideTheServer
  <1>4. CASE ReadLines(a)
    BY <1>3, <1>4 DEF ReadLines, Working
  <1>5. CASE \E missed \in BOOLEAN : Place(a, missed)
    BY <1>5, PlacingKeepsKeys
  <1>6. CASE FailCheckout(a)
    BY <1>3, <1>6 DEF FailCheckout, Working
  <1>7. CASE ReleaseKey(a)
    BY <1>7, ReleasingKeepsKeys
  <1>8. CASE Complete(a)
    BY <1>8, CompletingKeepsKeys
  <1> QED
    BY <1>1, <1>2, <1>4, <1>5, <1>6, <1>7, <1>8 DEF ServerStep

LEMMA AloneGoesOn ==
  ASSUME attempt' = attempt
  PROVE  \A a \in Attempts, k \in Keys : GoesOn(a, k)
  BY DEF GoesOn, Works, HasPlaced, Replays

LEMMA KeysStep ==
  ASSUME ShoppingTypeOK, KeysInv, [ShoppingNext]_shoppingVars
  PROVE  KeysInv'
  <1> USE DEF serverVars, tabVars
  <1>1. CASE UNCHANGED << keys, orders, receipts, attempt >>
    BY <1>1, AloneGoesOn, KeysOutsideTheServer
  <1>2. CASE QueryStep
    BY <1>1, <1>2 DEF QueryStep, ReadCart, ShowCart, FailFetch, Refetch
  <1>3. CASE \E e \in Edits : EditStep(e)
    BY <1>1, <1>3 DEF EditStep, StartEdit, ApplyEdit, RefuseEdit, EndEdit, LoseEdit
  <1>4. CASE \E a \in Attempts : TabStep(a) \/ ServerStep(a)
    BY <1>4, TabKeepsKeys, ServerKeepsKeys
  <1>5. CASE (\E k \in Keys : OpenCheckout(k)) \/ LeaveCheckout
    BY <1>1, <1>5 DEF OpenCheckout, LeaveCheckout
  <1>6. CASE Crash
    <2>1. \A a \in Attempts, k \in Keys : GoesOn(a, k)
      BY <1>6 DEF Crash, AtRest, GoesOn, Works, HasPlaced, Replays, Working
    <2> QED
      BY <1>6, <2>1, KeysOutsideTheServer DEF Crash
  <1>7. CASE UNCHANGED shoppingVars
    BY <1>1, <1>7 DEF shoppingVars
  <1> QED
    BY <1>2, <1>3, <1>4, <1>5, <1>6, <1>7 DEF ShoppingNext

(* However often the buyer clicks, and whatever is lost, late or crashed    *)
(* on the way, one Idempotency-Key places one order, and every answer under *)
(* it names that order (IdempotencyInterceptor, IdempotencyKeyService).     *)
THEOREM OneOrder == ShoppingSpec => []OneOrderPerKey
  <1>1. ShoppingInit => KeysInv
    <2> SUFFICES ASSUME ShoppingInit, NEW k \in Keys PROVE KeyInv(k)
      BY DEF KeysInv
    <2>1. PlacedUnder(k) = {} /\ receipts[k] = {} /\ keys[k].status = "ABSENT"
      BY DEF ShoppingInit, PlacedUnder
    <2>2. \A a \in Attempts : ~Holds(a, k) /\ ~Replays(a, k)
      BY DEF ShoppingInit, AtRest, Holds, Works, HasPlaced, Replays, Working
    <2> QED
      BY <2>1, <2>2 DEF KeyInv, Holds
  <1>2. ShoppingTypeOK /\ KeysInv /\ [ShoppingNext]_shoppingVars => KeysInv'
    BY KeysStep
  <1>3. KeysInv => OneOrderPerKey
    <2> SUFFICES ASSUME KeysInv, NEW k \in Keys
                 PROVE  Cardinality(PlacedUnder(k)) <= 1 /\ receipts[k] \subseteq PlacedUnder(k)
      BY DEF OneOrderPerKey, PlacedUnder
    <2>1. KeyInv(k)
      BY DEF KeysInv
    <2>2. CASE PlacedUnder(k) = {}
      <3>1. Cardinality(PlacedUnder(k)) = 0
        BY <2>2, FS_EmptySet, Zenon
      <3> QED
        BY <2>1, <3>1 DEF KeyInv
    <2>3. CASE PlacedUnder(k) # {}
      <3>1. PICK n \in PlacedUnder(k) : PlacedUnder(k) = {n}
        BY <2>1, <2>3 DEF KeyInv
      <3>2. Cardinality(PlacedUnder(k)) = 1
        BY <3>1, FS_Singleton, Zenon
      <3> QED
        BY <2>1, <3>2 DEF KeyInv
    <2> QED
      BY <2>2, <2>3
  <1> QED
    BY <1>1, <1>2, <1>3, ShoppingTypes, PTL DEF ShoppingSpec

-----------------------------------------------------------------------------
(* The view settles                                                         *)
(*                                                                          *)
(* With no edit open and no placed order waited for, the cart is the one    *)
(* the tab read and the one it shows, or a fetch is still to bring it.      *)

AwaitsPlaced == \E a \in Attempts : awaited = a /\ attempt[a].pc = "placed"

Quiet ==
  /\ ~unseen /\ ~AwaitsPlaced
  /\ \A e \in Edits : edit[e].pc \in {"idle", "orphaned"}

AwaitedUnanswered ==
  \A a \in Attempts : awaited = a /\ attempt[a].pc = "placed" => ~attempt[a].answered

ViewInv ==
  /\ AwaitedUnanswered
  /\ Quiet /\ fetch.pc = "read" => fetch.cart = cart
  /\ Quiet /\ ~stale /\ view # Nothing => view = cart

LEMMA ViewStays ==
  ASSUME ViewInv, AwaitedUnanswered', Quiet' => Quiet,
         UNCHANGED << cart, view, stale >>, fetch' = fetch \/ fetch'.pc # "read"
  PROVE  ViewInv'
  BY DEF ViewInv, AwaitedUnanswered

LEMMA ViewLeftAlone ==
  ASSUME ViewInv, UNCHANGED << attempt, awaited, edit, unseen, cart, view, stale >>,
         fetch' = fetch \/ fetch'.pc # "read"
  PROVE  ViewInv'
  BY DEF ViewInv, AwaitedUnanswered, Quiet, AwaitsPlaced

(* A refetch is coming, or the first load is, of a cart that is not older    *)
(* unless that is known.                                                    *)
LEMMA ViewInvalidated ==
  ASSUME AwaitedUnanswered', Invalidate, cart' = cart
  PROVE  ViewInv'
  BY DEF ViewInv, AwaitedUnanswered, Invalidate, Joins, Quiet

LEMMA ViewBusy ==
  ASSUME AwaitedUnanswered', ~Quiet'
  PROVE  ViewInv'
  BY DEF ViewInv, AwaitedUnanswered

LEMMA QueryKeepsView ==
  ASSUME ShoppingTypeOK, ViewInv, QueryStep
  PROVE  ViewInv'
  <1> USE DEF serverVars
  <1>1. CASE ReadCart
    BY <1>1 DEF ReadCart, ViewInv, AwaitedUnanswered, Quiet, AwaitsPlaced
  <1>2. CASE ShowCart
    <2>1. Quiet' => fetch.cart = cart
      BY <1>2 DEF ShowCart, ViewInv, Quiet, AwaitsPlaced
    <2>2. fetch'.pc = "idle" /\ view' = fetch.cart /\ cart' = cart
      BY <1>2 DEF ShowCart, AtRest
    <2>3. AwaitedUnanswered'
      BY <1>2 DEF ShowCart, ViewInv, AwaitedUnanswered
    <2> QED
      BY <2>1, <2>2, <2>3 DEF ViewInv, AwaitedUnanswered
  <1>3. CASE FailFetch
    BY <1>3, ViewLeftAlone DEF FailFetch, AtRest
  <1>4. CASE Refetch
    BY <1>4, ViewLeftAlone DEF Refetch
  <1> QED
    BY <1>1, <1>2, <1>3, <1>4 DEF QueryStep

LEMMA EditKeepsView ==
  ASSUME ShoppingTypeOK, ViewInv, NEW e \in Edits, EditStep(e)
  PROVE  ViewInv'
  <1> USE DEF serverVars, tabVars
  <1>1. AwaitedUnanswered'
    BY DEF EditStep, StartEdit, ApplyEdit, RefuseEdit, EndEdit, LoseEdit, ViewInv,
           AwaitedUnanswered
  <1>2. edit \in [Edits -> EditState]
    BY DEF ShoppingTypeOK
  <1>3. ASSUME NEW change \in Changes, StartEdit(e, change)
        PROVE  ViewInv'
    <2>1. edit'[e].pc = "sent"
      BY <1>2, <1>3 DEF StartEdit
    <2> QED
      BY <1>1, <2>1, ViewBusy DEF Quiet
  <1>4. CASE ApplyEdit(e)
    <2>1. CASE edit[e].pc = "sent"
      <3>1. edit'[e].pc = "done"
        BY <1>2, <1>4, <2>1, EditFields DEF ApplyEdit
      <3> QED
        BY <1>1, <3>1, ViewBusy DEF Quiet
    <2>2. CASE edit[e].pc # "sent"
      BY <1>1, <1>4, <2>2, ViewBusy DEF ApplyEdit, Quiet
    <2> QED
      BY <2>1, <2>2
  <1>5. CASE RefuseEdit(e)
    <2>1. CASE edit[e].pc = "sent"
      <3>1. edit'[e].pc = "refused"
        BY <1>2, <1>5, <2>1, EditFields DEF RefuseEdit
      <3> QED
        BY <1>1, <3>1, ViewBusy DEF Quiet
    <2>2. CASE edit[e].pc = "orphaned"
      <3>1. \A f \in Edits : edit'[f].pc \in {"idle", "orphaned"} =>
                               edit[f].pc \in {"idle", "orphaned"}
        BY <1>2, <1>5, <2>2 DEF RefuseEdit
      <3>2. UNCHANGED << unseen, awaited, attempt, cart, view, stale, fetch >>
        BY <1>5 DEF RefuseEdit
      <3>3. Quiet' => Quiet
        BY <3>1, <3>2 DEF Quiet, AwaitsPlaced
      <3> QED
        BY <1>1, <3>2, <3>3, ViewStays
    <2> QED
      BY <1>5, <2>1, <2>2 DEF RefuseEdit
  <1>6. CASE EndEdit(e)
    BY <1>1, <1>6, ViewInvalidated DEF EndEdit, Reconcile
  <1>7. CASE LoseEdit(e)
    BY <1>1, <1>7, ViewInvalidated DEF LoseEdit, Reconcile
  <1> QED
    BY <1>3, <1>4, <1>5, <1>6, <1>7 DEF EditStep

LEMMA TabKeepsView ==
  ASSUME ShoppingTypeOK, ViewInv, NEW a \in Attempts, TabStep(a)
  PROVE  ViewInv'
  <1> USE DEF serverVars
  <1>1. CASE Click(a)
    <2>1. attempt'[a].pc = "sent" /\ awaited' = a
      BY <1>1 DEF Click, ShoppingTypeOK
    <2>2. AwaitedUnanswered' /\ ~AwaitsPlaced
      BY <1>1, <2>1, NothingAssumption DEF Click, AwaitedUnanswered, AwaitsPlaced
    <2>3. Quiet' => Quiet
      BY <1>1, <2>2 DEF Click, Quiet
    <2> QED
      BY <1>1, <2>2, <2>3, ViewStays DEF Click
  <1>3. awaited' = Nothing => AwaitedUnanswered'
    BY NothingAssumption DEF AwaitedUnanswered
  <1>4. CASE ReceiveOrder(a)
    BY <1>3, <1>4, ViewInvalidated DEF ReceiveOrder
  <1>5. CASE ReceiveError(a)
    <2>1. Quiet' => Quiet
      BY <1>5 DEF ReceiveError, Quiet, AwaitsPlaced
    <2> QED
      BY <1>3, <1>5, <2>1, ViewStays DEF ReceiveError
  <1>6. CASE LoseCheckout(a)
    <2>1. Quiet' => Quiet
      BY <1>6 DEF LoseCheckout, Quiet, AwaitsPlaced
    <2> QED
      BY <1>3, <1>6, <2>1, ViewStays DEF LoseCheckout
  <1> QED
    BY <1>1, <1>4, <1>5, <1>6 DEF TabStep

(* The server goes on with an attempt, and the tab still waits for the      *)
(* order it has placed.                                                     *)
LEMMA ViewOutsideTheServer ==
  ASSUME ShoppingTypeOK, ViewInv, NEW a \in Attempts,
         UNCHANGED << cart, edit, view, fetch, stale, awaited, unseen >>,
         \A b \in Attempts \ {a} : attempt'[b] = attempt[b],
         \/ attempt[a].pc # "placed" /\ attempt'[a].pc # "placed"
         \/ /\ attempt[a].pc = "placed" /\ ~attempt[a].answered
            /\ attempt'[a].pc = "placed" /\ ~attempt'[a].answered
         \/ attempt[a].pc = "placed" /\ attempt[a].answered
  PROVE  ViewInv'
  <1>1. awaited = a /\ attempt[a].pc = "placed" =>
          attempt'[a].pc = "placed" /\ ~attempt'[a].answered
    BY DEF ViewInv, AwaitedUnanswered
  <1>2. AwaitsPlaced => AwaitsPlaced'
    BY <1>1 DEF AwaitsPlaced
  <1>3. Quiet' => Quiet
    BY <1>2 DEF Quiet
  <1>4. AwaitedUnanswered'
    BY DEF ViewInv, AwaitedUnanswered
  <1> QED
    BY <1>3, <1>4, ViewStays

LEMMA ServerKeepsView ==
  ASSUME ShoppingTypeOK, ViewInv, NEW a \in Attempts, ServerStep(a)
  PROVE  ViewInv'
  <1> USE DEF serverVars, tabVars
  <1>1. CASE Begin(a)
    <2>1. /\ attempt[a].pc = "sent" /\ \A b \in Attempts \ {a} : attempt'[b] = attempt[b]
          /\ attempt'[a].pc \in {"conflict", "begun"}
      BY <1>1, Taking
    <2> QED
      BY <1>1, <2>1, ViewOutsideTheServer DEF Begin
  <1>2. CASE LookUp(a)
    <2>1. /\ attempt[a].pc = "conflict" /\ \A b \in Attempts \ {a} : attempt'[b] = attempt[b]
          /\ attempt'[a].pc \in {"idle", "refused", "replay"}
      BY <1>2, LookingUp
    <2> QED
      BY <1>2, <2>1, ViewOutsideTheServer DEF LookUp
  <1>3. ASSUME NEW pc \in Working, attempt[a].pc \in Working,
               Goes(a, [attempt[a] EXCEPT !.pc = pc]),
               UNCHANGED << cart, edit, view, fetch, stale, awaited, unseen >>
        PROVE  ViewInv'
    <2>1. attempt'[a].pc = pc /\ \A b \in Attempts \ {a} : attempt'[b] = attempt[b]
      BY <1>3, WorkingAttempt DEF Goes
    <2> QED
      BY <1>3, <2>1, ViewOutsideTheServer DEF Working
  <1>4. CASE ReadLines(a)
    BY <1>3, <1>4 DEF ReadLines, Working
  <1>5. ASSUME NEW missed \in BOOLEAN, Place(a, missed)
        PROVE  ViewInv'
    <2>1. /\ attempt[a].pc = "read" /\ \A b \in Attempts \ {a} : attempt'[b] = attempt[b]
          /\ missed => attempt'[a].pc = "failing"
          /\ ~missed => attempt'[a].pc = "placed" /\ attempt'[a].answered = (awaited # a)
          /\ awaited' = awaited /\ unseen' = (unseen \/ missed \/ awaited # a)
      BY <1>5, Placing DEF Place
    <2>2. AwaitedUnanswered'
      BY <2>1 DEF ViewInv, AwaitedUnanswered
    <2>3. ~Quiet'
      BY <2>1 DEF Quiet, AwaitsPlaced
    <2> QED
      BY <2>2, <2>3, ViewBusy
  <1>6. CASE FailCheckout(a)
    BY <1>3, <1>6 DEF FailCheckout, Working
  <1>7. CASE ReleaseKey(a)
    <2>1. /\ attempt[a].pc = "failing" /\ \A b \in Attempts \ {a} : attempt'[b] = attempt[b]
          /\ attempt'[a].pc \in {"idle", "refused"}
      BY <1>7, Releasing
    <2> QED
      BY <1>7, <2>1, ViewOutsideTheServer DEF ReleaseKey
  <1>8. CASE Complete(a)
    <2>1. /\ attempt[a].pc = "placed" /\ \A b \in Attempts \ {a} : attempt'[b] = attempt[b]
          /\ \/ attempt[a].answered
             \/ /\ ~attempt[a].answered /\ ~attempt'[a].answered /\ attempt'[a].pc = "placed"
      BY <1>8, Completing
    <2> QED
      BY <1>8, <2>1, ViewOutsideTheServer DEF Complete
  <1> QED
    BY <1>1, <1>2, <1>4, <1>5, <1>6, <1>7, <1>8 DEF ServerStep

LEMMA ViewStep ==
  ASSUME ShoppingTypeOK, ViewInv, [ShoppingNext]_shoppingVars
  PROVE  ViewInv'
  <1> USE DEF serverVars, tabVars
  <1>1. CASE QueryStep
    BY <1>1, QueryKeepsView
  <1>2. CASE \E e \in Edits : EditStep(e)
    BY <1>2, EditKeepsView
  <1>3. CASE \E a \in Attempts : TabStep(a) \/ ServerStep(a)
    BY <1>3, TabKeepsView, ServerKeepsView
  <1>4. CASE (\E k \in Keys : OpenCheckout(k)) \/ LeaveCheckout
    BY <1>4, ViewLeftAlone DEF OpenCheckout, LeaveCheckout
  <1>5. CASE Crash
    <2>1. AwaitedUnanswered'
      BY <1>5, NothingAssumption DEF Crash, AwaitedUnanswered
    <2>2. Quiet' => Quiet
      BY <1>5 DEF Crash, Quiet, AwaitsPlaced
    <2> QED
      BY <1>5, <2>1, <2>2, ViewStays DEF Crash
  <1>6. CASE UNCHANGED shoppingVars
    BY <1>6, ViewLeftAlone DEF shoppingVars
  <1> QED
    BY <1>1, <1>2, <1>3, <1>4, <1>5, <1>6 DEF ShoppingNext

(* When nothing the tab started is under way it shows the server's cart, in *)
(* whatever order edits, failures, answers and refetches came               *)
(* (use-cart-mutations, use-cart-checkout).                                 *)
THEOREM ViewSettles == ShoppingSpec => []CartViewSettles
  <1>1. ShoppingInit => ViewInv
    BY NothingAssumption DEF ShoppingInit, ViewInv, AwaitedUnanswered
  <1>2. ShoppingTypeOK /\ ViewInv /\ [ShoppingNext]_shoppingVars => ViewInv'
    BY ViewStep
  <1>3. ViewInv => CartViewSettles
    BY NothingAssumption DEF ViewInv, Quiet, AwaitsPlaced, CartViewSettles
  <1> QED
    BY <1>1, <1>2, <1>3, ShoppingTypes, PTL DEF ShoppingSpec

-----------------------------------------------------------------------------
(* The catalogue: types, and what a step of it writes *)

LEMMA RequestFields ==
  ASSUME CatalogTypeOK, NEW r \in Slots
  PROVE  /\ slot[r].pc \in {"idle", "checked", "editing", "written"}
         /\ slot[r].pc = "checked" =>
              slot[r] \in [pc : {"checked"}, op : Operations, product : Products,
                              seen : ProductRow]
         /\ slot[r].pc = "editing" =>
              slot[r] \in [pc : {"editing"}, product : Products, quantity : Counts,
                              version : 0 .. MaxMoves]
         /\ slot[r].pc = "written" =>
              slot[r] \in [pc : {"written"}, product : Products, left : Invalidations]
  <1>1. slot[r] \in SlotState
    BY DEF CatalogTypeOK
  <1> QED
    BY <1>1 DEF SlotState, Free

LEMMA RowFields ==
  ASSUME CatalogTypeOK, NEW p \in Products
  PROVE  /\ product[p].status \in {"NONE", "ACTIVE", "ARCHIVED"}
         /\ product[p].moderated \in BOOLEAN
         /\ product[p].rev \in 0 .. MaxRev /\ product[p].rev \in Nat
  BY RevAssumption DEF CatalogTypeOK, ProductRow

LEMMA MovedRequest ==
  ASSUME CatalogTypeOK, NEW r \in Slots, NEW state \in SlotState,
         slot' = [slot EXCEPT ![r] = state]
  PROVE  /\ slot' \in [Slots -> SlotState]
         /\ slot'[r] = state
         /\ \A q \in Slots \ {r} : slot'[q] = slot[q]
  BY DEF CatalogTypeOK

LEMMA AfterRow ==
  ASSUME NEW op \in Operations, NEW row \in ProductRow, row.rev < MaxRev
  PROVE  /\ After(op, row) \in ProductRow
         /\ After(op, row).rev = row.rev + 1
         /\ row.status # "NONE" => After(op, row).status # "NONE"
  <1>1. row.rev + 1 \in 0 .. MaxRev
    BY RevAssumption DEF ProductRow
  <1>2. (row.moderated \/ op \in {"takedown", "reinstate"}) \in BOOLEAN
    BY DEF ProductRow
  <1> QED
    BY <1>1, <1>2 DEF After, ProductRow, Operations

LEMMA RecordedEvent ==
  ASSUME NEW op, NEW p \in Products, NEW n \in Nat
  PROVE  EventOf(op, p, n) \in Event /\ EventOf(op, p, n).product = p /\ EventOf(op, p, n).id = n
  BY DEF EventOf, Event

(* What a checked request is about exists: no product is deleted. *)
CheckedExist ==
  \A r \in Slots : slot[r].pc \in {"checked", "editing"} => Exists(slot[r].product)

(* One stock edit at a time holds the lock of a product row. *)
HasLock(r, p) == slot[r].pc = "editing" /\ slot[r].product = p

RowLocks ==
  /\ \A r \in Slots, p \in Products : HasLock(r, p) => product[p].rev < MaxRev
  /\ \A r, q \in Slots, p \in Products : HasLock(r, p) /\ HasLock(q, p) => r = q

CatalogInv == CatalogTypeOK /\ CheckedExist /\ RowLocks

(* A write of p: its row, its event and the invalidations to come. *)
Writes(r, p) ==
  /\ slot[r].pc # "written"
  /\ slot'[r].pc = "written" /\ "listings" \in slot'[r].left
  /\ \A q \in Slots \ {r} : slot'[q] = slot[q] /\ ~HasLock(q, p)
  /\ \A q \in Products \ {p} : product'[q] = product[q]
  /\ product'[p].status # "NONE"
  /\ Exists(p) => product'[p].rev = product[p].rev + 1
  /\ \E e \in Event : e.product = p /\ e.id = product'[p].rev /\ events' = events \union {e}

(* A step on the way to a write. *)
Prepares(r) ==
  /\ UNCHANGED << product, events >>
  /\ slot[r].pc # "written" /\ slot'[r].pc # "written"
  /\ \A q \in Slots \ {r} : slot'[q] = slot[q]
  /\ slot'[r].pc \in {"checked", "editing"} => Exists(slot'[r].product)
  /\ \A p \in Products : HasLock(r, p)' => ~Locked(p) /\ product[p].rev < MaxRev
  /\ slot'[r].pc = "checked" /\ slot'[r].op = "restore" =>
       /\ slot'[r].seen = product[slot'[r].product]
       /\ slot'[r].seen.status = "ARCHIVED" /\ ~slot'[r].seen.moderated

LEMMA Writing ==
  ASSUME CatalogTypeOK, NEW r \in Slots, NEW op \in Operations, NEW p \in Products,
         slot[r].pc # "written", Exists(p), product[p].rev < MaxRev, Written(r, op, p),
         \A q \in Slots \ {r} : ~HasLock(q, p)
  PROVE  /\ Writes(r, p)
         /\ product' \in [Products -> ProductRow] /\ events' \in SUBSET Event
         /\ slot' \in [Slots -> SlotState]
  <1> DEFINE state == [pc |-> "written", product |-> p, left |-> {"page", "listings"}]
             row == After(op, product[p])
             e == EventOf(op, p, product[p].rev + 1)
  <1>1. state \in SlotState /\ state.pc = "written" /\ "listings" \in state.left
    BY DEF SlotState, Invalidations
  <1>2. product[p] \in ProductRow /\ product[p].rev \in Nat
    BY RowFields DEF CatalogTypeOK
  <1>3. /\ row \in ProductRow /\ row.rev = product[p].rev + 1 /\ row.status # "NONE"
    BY <1>2, AfterRow DEF Exists
  <1>4. e \in Event /\ e.product = p /\ e.id = product[p].rev + 1
    BY <1>2, RecordedEvent
  <1>5. /\ product' = [product EXCEPT ![p] = row] /\ events' = events \union {e}
        /\ slot' = [slot EXCEPT ![r] = state]
    BY DEF Written
  <1> HIDE DEF state, row, e
  <1>6. /\ slot' \in [Slots -> SlotState] /\ slot'[r] = state
        /\ \A q \in Slots \ {r} : slot'[q] = slot[q]
    BY <1>1, <1>5, MovedRequest
  <1>7. /\ product' \in [Products -> ProductRow] /\ product'[p] = row
        /\ \A q \in Products \ {p} : product'[q] = product[q]
    BY <1>3, <1>5 DEF CatalogTypeOK
  <1>8. events' \in SUBSET Event
    BY <1>4, <1>5 DEF CatalogTypeOK
  <1>9. Writes(r, p)
    BY <1>1, <1>2, <1>3, <1>4, <1>5, <1>6, <1>7 DEF Writes
  <1> QED
    BY <1>6, <1>7, <1>8, <1>9

LEMMA MovedStock ==
  ASSUME CatalogTypeOK, NEW p \in Products, NEW row \in StockRow,
         stock' = [stock EXCEPT ![p] = row]
  PROVE  stock' \in [Products -> StockRow]
  BY DEF CatalogTypeOK

LEMMA Creating ==
  ASSUME CatalogInv, NEW r \in Slots, NEW p \in Products, Create(r, p)
  PROVE  /\ Writes(r, p) /\ CatalogTypeOK'
  <1> DEFINE state == [pc |-> "written", product |-> p, left |-> {"listings"}]
             row == [status |-> "ACTIVE", moderated |-> FALSE, rev |-> 0]
             e == EventOf("create", p, 0)
             units(q) == [row |-> [available |-> q, reserved |-> 0], version |-> 0]
  <1>0. CatalogTypeOK
    BY DEF CatalogInv
  <1>1. state \in SlotState /\ state.pc = "written" /\ "listings" \in state.left
    BY DEF SlotState, Invalidations
  <1>2. row \in ProductRow /\ row.rev = 0 /\ row.status # "NONE"
    BY RevAssumption DEF ProductRow
  <1>3. e \in Event /\ e.product = p /\ e.id = 0
    BY RecordedEvent
  <1>4. \A q \in Counts : units(q) \in StockRow
    BY RevAssumption, CountAssumption DEF StockRow, InventoryRow
  <1>5. /\ product' = [product EXCEPT ![p] = row] /\ events' = events \union {e}
        /\ slot' = [slot EXCEPT ![r] = state] /\ ~Exists(p)
        /\ \E q \in Counts : stock' = [stock EXCEPT ![p] = units(q)]
        /\ slot[r].pc = "idle"
    BY DEF Create
  <1> HIDE DEF state, row, e, units
  <1>6. /\ slot' \in [Slots -> SlotState] /\ slot'[r] = state
        /\ \A q \in Slots \ {r} : slot'[q] = slot[q]
    BY <1>0, <1>1, <1>5, MovedRequest
  <1>7. /\ product' \in [Products -> ProductRow] /\ product'[p] = row
        /\ \A q \in Products \ {p} : product'[q] = product[q]
    BY <1>0, <1>2, <1>5 DEF CatalogTypeOK
  <1>8. \A q \in Slots \ {r} : ~HasLock(q, p)
    BY <1>5 DEF CatalogInv, CheckedExist, HasLock
  <1>9. Writes(r, p)
    BY <1>1, <1>2, <1>3, <1>5, <1>6, <1>7, <1>8 DEF Writes
  <1>10. stock' \in [Products -> StockRow]
    BY <1>0, <1>4, <1>5, MovedStock
  <1>11. events' \in SUBSET Event
    BY <1>0, <1>3, <1>5 DEF CatalogTypeOK
  <1> QED
    BY <1>6, <1>7, <1>9, <1>10, <1>11 DEF CatalogTypeOK

LEMMA Checking ==
  ASSUME CatalogTypeOK, NEW r \in Slots, NEW p \in Products, NEW op \in Operations,
         Check(r, op, p)
  PROVE  Prepares(r) /\ CatalogTypeOK'
  <1> DEFINE seen == IF op = "restore" THEN product[p] ELSE NoProduct
             state == [pc |-> "checked", op |-> op, product |-> p, seen |-> seen]
  <1>1. seen \in ProductRow
    BY RevAssumption DEF CatalogTypeOK, ProductRow, NoProduct
  <1>2. op = "restore" => seen = product[p] /\ seen.status = "ARCHIVED" /\ ~seen.moderated
    BY DEF Check, Refused
  <1> HIDE DEF seen
  <1>3. /\ state \in SlotState /\ state.pc = "checked" /\ state.op = op
        /\ state.product = p /\ state.seen = seen
    BY <1>1 DEF SlotState
  <1>4. /\ slot' = [slot EXCEPT ![r] = state] /\ slot[r].pc = "idle" /\ Exists(p)
        /\ UNCHANGED << product, stock, events >>
    BY DEF Check, seen
  <1> HIDE DEF state
  <1>5. /\ slot' \in [Slots -> SlotState] /\ slot'[r] = state
        /\ \A q \in Slots \ {r} : slot'[q] = slot[q]
    BY <1>3, <1>4, MovedRequest
  <1>6. Prepares(r)
    BY <1>2, <1>3, <1>4, <1>5 DEF Prepares, HasLock
  <1> QED
    BY <1>4, <1>5, <1>6 DEF CatalogTypeOK

LEMMA Editing ==
  ASSUME CatalogInv, NEW r \in Slots, BeginEdit(r)
  PROVE  Prepares(r) /\ CatalogTypeOK'
  <1> DEFINE p == slot[r].product
             state(q) == [pc |-> "editing", product |-> p, quantity |-> q,
                          version |-> stock[p].version]
  <1>1. CatalogTypeOK /\ p \in Products /\ Exists(p) /\ slot[r].pc = "checked"
    BY RequestFields DEF CatalogInv, CheckedExist, BeginEdit
  <1>2. stock[p].version \in 0 .. MaxMoves
    BY <1>1 DEF CatalogTypeOK, StockRow
  <1>3. \A q \in Counts : state(q) \in SlotState /\ state(q).pc = "editing"
                           /\ state(q).product = p
    BY <1>1, <1>2 DEF SlotState
  <1>4. PICK q \in Counts : slot' = [slot EXCEPT ![r] = state(q)]
    BY DEF BeginEdit
  <1>5. UNCHANGED << product, stock, events >>
    BY DEF BeginEdit
  <1> HIDE DEF state, p
  <1>6. /\ slot' \in [Slots -> SlotState] /\ slot'[r] = state(q)
        /\ \A s \in Slots \ {r} : slot'[s] = slot[s]
    BY <1>1, <1>3, <1>4, MovedRequest
  <1>7. ~Locked(p) /\ product[p].rev < MaxRev
    BY DEF BeginEdit, p
  <1>8. Prepares(r)
    BY <1>1, <1>3, <1>5, <1>6, <1>7 DEF Prepares, Exists, HasLock
  <1> QED
    BY <1>1, <1>5, <1>6, <1>8 DEF CatalogTypeOK

LEMMA MovingStock ==
  ASSUME CatalogTypeOK, NEW p \in Products, MoveStock(p)
  PROVE  stock' \in [Products -> StockRow]
  <1> DEFINE held == stock[p].row
  <1>1. held \in InventoryRow /\ stock[p].version \in 0 .. MaxMoves
    BY DEF CatalogTypeOK, StockRow
  <1>2. PICK row \in {IF CanReserve(held, 1) THEN Reserve(held, 1) ELSE held,
                      Release(held, 1), Consume(held, 1), Return(held, 1)} :
          stock' = [stock EXCEPT ![p] = [row |-> row, version |-> stock[p].version + 1]]
    BY DEF MoveStock
  <1> DEFINE new == [row |-> row, version |-> stock[p].version + 1]
  <1>3. row \in InventoryRow
    BY <1>1 DEF CanReserve, Reserve, Release, Consume, Return, InventoryRow
  <1>4. stock[p].version + 1 \in 0 .. MaxMoves
    BY <1>1, RevAssumption DEF MoveStock
  <1>5. new \in StockRow
    BY <1>3, <1>4 DEF StockRow
  <1>6. stock' = [stock EXCEPT ![p] = new]
    BY <1>2
  <1> HIDE DEF new
  <1> QED
    BY <1>5, <1>6, MovedStock

LEMMA StockEdited ==
  ASSUME CatalogTypeOK, NEW r \in Slots, CommitEdit(r)
  PROVE  stock' \in [Products -> StockRow]
  <1> DEFINE p == slot[r].product
             n == slot[r].quantity
             edited == [stock[p] EXCEPT !.row.available = n, !.version = stock[p].version + 1]
  <1>1. p \in Products /\ n \in Nat
    BY RequestFields, CountAssumption DEF CommitEdit
  <1>2. /\ stock[p] \in StockRow /\ stock[p].version + 1 \in 0 .. MaxMoves
    BY <1>1, RevAssumption DEF CatalogTypeOK, StockRow, CommitEdit
  <1>3. edited \in StockRow
    BY <1>1, <1>2 DEF StockRow, InventoryRow
  <1>4. stock' = [stock EXCEPT ![p] = edited]
    BY <1>1 DEF CommitEdit, CatalogTypeOK
  <1> HIDE DEF edited
  <1> QED
    BY <1>1, <1>3, <1>4, MovedStock

(* A step of the catalogue moves stock alone, prepares a write or writes.   *)
LEMMA CatalogStep ==
  ASSUME CatalogInv, CatalogNext
  PROVE  /\ CatalogTypeOK'
         /\ \/ UNCHANGED << product, events, slot >>
            \/ \E r \in Slots : Prepares(r)
            \/ \E r \in Slots, p \in Products : Writes(r, p)
  <1>0. CatalogTypeOK
    BY DEF CatalogInv
  <1>1. ASSUME NEW r \in Slots, NEW p \in Products, Create(r, p)
        PROVE  Writes(r, p) /\ CatalogTypeOK'
    BY <1>0, <1>1, Creating
  <1>2. ASSUME NEW r \in Slots, NEW p \in Products,
               \/ Update(r, p) \/ UpdateImage(r, p) \/ ArchiveProduct(r, p)
               \/ RestoreProduct(r, p) \/ Moderate(r, p)
        PROVE  Prepares(r) /\ CatalogTypeOK'
    <2>1. PICK op \in Operations : Check(r, op, p)
      BY <1>2 DEF Update, UpdateImage, ArchiveProduct, RestoreProduct, Moderate, Operations
    <2> QED
      BY <1>0, <2>1, Checking
  <1>3. ASSUME NEW r \in Slots, CommitWrite(r)
        PROVE  CatalogTypeOK' /\ \E p \in Products : Writes(r, p)
    <2> DEFINE p == slot[r].product
    <2>1. /\ slot[r].pc = "checked" /\ p \in Products /\ slot[r].op \in Operations
          /\ Exists(p) /\ product[p].rev < MaxRev /\ Written(r, slot[r].op, p)
          /\ ~Locked(p) /\ UNCHANGED stock
      BY <1>0, <1>3, RequestFields DEF CommitWrite, CatalogInv, CheckedExist
    <2>2. \A q \in Slots : ~HasLock(q, p)
      BY <2>1 DEF Locked, HasLock
    <2>3. /\ Writes(r, p) /\ product' \in [Products -> ProductRow]
          /\ events' \in SUBSET Event /\ slot' \in [Slots -> SlotState]
      BY <1>0, <2>1, <2>2, Writing
    <2> QED
      BY <1>0, <2>1, <2>3 DEF CatalogTypeOK
  <1>4. ASSUME NEW r \in Slots, BeginEdit(r)
        PROVE  Prepares(r) /\ CatalogTypeOK'
    BY <1>4, Editing
  <1>5. ASSUME NEW r \in Slots, CommitEdit(r)
        PROVE  CatalogTypeOK' /\ \E p \in Products : Writes(r, p)
    <2> DEFINE p == slot[r].product
    <2>1. /\ slot[r].pc = "editing" /\ p \in Products /\ Exists(p)
          /\ Written(r, "stock", p) /\ HasLock(r, p)
      BY <1>0, <1>5, RequestFields DEF CommitEdit, CatalogInv, CheckedExist, HasLock
    <2>2. product[p].rev < MaxRev /\ \A q \in Slots \ {r} : ~HasLock(q, p)
      BY <2>1 DEF CatalogInv, RowLocks
    <2>3. /\ Writes(r, p) /\ product' \in [Products -> ProductRow]
          /\ events' \in SUBSET Event /\ slot' \in [Slots -> SlotState]
      BY <1>0, <2>1, <2>2, Writing DEF Operations
    <2>4. stock' \in [Products -> StockRow]
      BY <1>0, <1>5, StockEdited
    <2> QED
      BY <2>1, <2>3, <2>4 DEF CatalogTypeOK
  <1>6. ASSUME NEW r \in Slots, RollBackEdit(r)
        PROVE  Prepares(r) /\ CatalogTypeOK'
    <2>1. /\ slot[r].pc = "editing" /\ slot' = [slot EXCEPT ![r] = Free]
          /\ UNCHANGED << product, stock, events >>
      BY <1>6 DEF RollBackEdit
    <2>2. Free \in SlotState /\ Free.pc = "idle"
      BY DEF SlotState, Free
    <2>3. /\ slot' \in [Slots -> SlotState] /\ slot'[r].pc = "idle"
          /\ \A q \in Slots \ {r} : slot'[q] = slot[q]
      BY <1>0, <2>1, <2>2, MovedRequest
    <2>4. Prepares(r)
      BY <2>1, <2>3 DEF Prepares, HasLock
    <2> QED
      BY <1>0, <2>1, <2>3, <2>4 DEF CatalogTypeOK
  <1>7. ASSUME NEW p \in Products, MoveStock(p)
        PROVE  CatalogTypeOK' /\ UNCHANGED << product, events, slot >>
    <2>1. stock' \in [Products -> StockRow] /\ UNCHANGED << product, events, slot >>
      BY <1>0, <1>7, MovingStock DEF MoveStock
    <2> QED
      BY <1>0, <2>1 DEF CatalogTypeOK
  <1> QED
    BY <1>1, <1>2, <1>3, <1>4, <1>5, <1>6, <1>7 DEF CatalogNext

LEMMA CatalogHolds ==
  ASSUME CatalogInv, CatalogNext
  PROVE  CatalogInv'
  <1>0. CatalogTypeOK /\ CatalogTypeOK'
    BY CatalogStep DEF CatalogInv
  <1>1. CASE UNCHANGED << product, events, slot >>
    BY <1>0, <1>1 DEF CatalogInv, CheckedExist, RowLocks, HasLock, Exists
  <1>2. ASSUME NEW r \in Slots, Prepares(r)
        PROVE  CatalogInv'
    <2>1. CheckedExist'
      BY <1>2 DEF Prepares, CatalogInv, CheckedExist, Exists
    <2>2. \A q \in Slots \ {r}, p \in Products : HasLock(q, p)' <=> HasLock(q, p)
      BY <1>2 DEF Prepares, HasLock
    <2>3. \A p \in Products : HasLock(r, p)' =>
            product[p].rev < MaxRev /\ \A q \in Slots : ~HasLock(q, p)
      BY <1>2 DEF Prepares, Locked, HasLock
    <2>4. product' = product
      BY <1>2 DEF Prepares
    <2>5. \A q \in Slots, p \in Products : HasLock(q, p)' => product'[p].rev < MaxRev
      BY <2>2, <2>3, <2>4 DEF CatalogInv, RowLocks
    <2>6. \A q, s \in Slots, p \in Products : HasLock(q, p)' /\ HasLock(s, p)' => q = s
      BY <2>2, <2>3 DEF CatalogInv, RowLocks
    <2> QED
      BY <1>0, <2>1, <2>5, <2>6 DEF CatalogInv, RowLocks
  <1>3. ASSUME NEW r \in Slots, NEW p \in Products, Writes(r, p)
        PROVE  CatalogInv'
    <2>1. CheckedExist'
      BY <1>0, <1>3, RequestFields DEF Writes, CatalogInv, CheckedExist, Exists
    <2>2. \A q \in Slots, s \in Products : HasLock(q, s)' => HasLock(q, s) /\ s # p
      BY <1>3 DEF Writes, HasLock
    <2>3. \A q \in Products \ {p} : product'[q] = product[q]
      BY <1>3 DEF Writes
    <2>4. \A q \in Slots, s \in Products : HasLock(q, s)' => product'[s].rev < MaxRev
      BY <2>2, <2>3 DEF CatalogInv, RowLocks
    <2>5. \A q, t \in Slots, s \in Products : HasLock(q, s)' /\ HasLock(t, s)' => q = t
      BY <2>2 DEF CatalogInv, RowLocks
    <2> QED
      BY <1>0, <2>1, <2>4, <2>5 DEF CatalogInv, RowLocks
  <1> QED
    BY <1>1, <1>2, <1>3, CatalogStep

-----------------------------------------------------------------------------
(* The storefront: invalidations, reads through the cache, search workers *)

LEMMA Invalidated ==
  ASSUME CatalogInv, NEW r \in Slots, NEW what \in {"page", "listings"}, Left(r, what)
  PROVE  /\ CatalogInv' /\ slot[r].product \in Products
         /\ slot[r].pc = "written" /\ slot'[r].pc # "checked"
         /\ what # "listings" /\ "listings" \in slot[r].left =>
              slot'[r].pc = "written" /\ "listings" \in slot'[r].left
         /\ \A q \in Slots \ {r} : slot'[q] = slot[q]
  <1> DEFINE rest == slot[r].left \ {what}
             next == IF rest = {} THEN Free
                     ELSE [slot[r] EXCEPT !.left = rest]
  <1>0. CatalogTypeOK
    BY DEF CatalogInv
  <1>1. /\ slot[r].pc = "written" /\ what \in slot[r].left
        /\ slot' = [slot EXCEPT ![r] = next]
        /\ UNCHANGED << product, stock, events >>
    BY DEF Left
  <1>2. slot[r] \in [pc : {"written"}, product : Products, left : Invalidations]
    BY <1>0, <1>1, RequestFields
  <1>3. [slot[r] EXCEPT !.left = rest]
          \in [pc : {"written"}, product : Products, left : Invalidations]
    BY <1>2 DEF Invalidations
  <1>4. next \in SlotState
    BY <1>3 DEF SlotState
  <1>5. next.pc \in {"idle", "written"}
    BY <1>3 DEF Free
  <1>6. what # "listings" /\ "listings" \in slot[r].left =>
          next.pc = "written" /\ "listings" \in next.left
    BY <1>2
  <1> HIDE DEF next, rest
  <1>7. /\ slot' \in [Slots -> SlotState] /\ slot'[r] = next
        /\ \A q \in Slots \ {r} : slot'[q] = slot[q]
    BY <1>0, <1>1, <1>4, MovedRequest
  <1>8. CatalogTypeOK'
    BY <1>0, <1>1, <1>7 DEF CatalogTypeOK
  <1>9. \A q \in Slots, p \in Products : HasLock(q, p)' => HasLock(q, p)
    BY <1>5, <1>7 DEF HasLock
  <1>10. CheckedExist'
    BY <1>1, <1>5, <1>7 DEF CatalogInv, CheckedExist, Exists
  <1>11. RowLocks'
    BY <1>1, <1>9 DEF CatalogInv, RowLocks
  <1> QED
    BY <1>1, <1>2, <1>5, <1>6, <1>7, <1>8, <1>10, <1>11 DEF CatalogInv

LEMMA ViewerFields ==
  ASSUME StorefrontTypeOK, NEW v \in Viewers
  PROVE  /\ viewer[v].pc = "versioned" =>
              viewer[v] \in [pc : {"versioned"}, version : Nat]
         /\ viewer[v].pc = "listing" =>
              viewer[v] \in [pc : {"listing"}, version : Nat, rows : Listings]
         /\ viewer[v].pc = "page" =>
              viewer[v] \in [pc : {"page"}, product : Products, rev : Revs]
  <1>1. viewer[v] \in ViewerState
    BY DEF StorefrontTypeOK
  <1> QED
    BY <1>1 DEF ViewerState, Free

LEMMA WorkerFields ==
  ASSUME StorefrontTypeOK, NEW w \in Workers
  PROVE  work[w].pc = "syncing" =>
           /\ work[w] \in [pc : {"syncing"}, event : Event, doc : Revs \union {NoCopy}]
           /\ work[w].event.product \in Products
  <1>1. work[w] \in WorkerState
    BY DEF StorefrontTypeOK
  <1> QED
    BY <1>1 DEF WorkerState, Free, Event

(* The rows a listing query answers. *)
LEMMA RowsListed ==
  ASSUME CatalogTypeOK
  PROVE  ListedRows \in Listings
  <1>1. \A p \in Products : product[p].rev \in Revs
    BY RowFields DEF Revs
  <1> QED
    BY <1>1 DEF ListedRows, Listings

StoreInv == CatalogInv /\ StorefrontTypeOK

(* What an action of a viewer leaves behind: whatever it cached is typed. *)
LEMMA LookedTypes ==
  ASSUME StoreInv, NEW v \in Viewers, NEW state \in ViewerState, Look(v, state),
         UNCHANGED << catalogVars, version, lost, searchVars >>,
         page' \in [Products -> Revs \union {NoCopy}], listing' \in Listings \union {NoCopy}
  PROVE  StoreInv'
  <1>1. CatalogInv' /\ CatalogTypeOK'
    BY DEF StoreInv, CatalogInv, CatalogTypeOK, CheckedExist, RowLocks, HasLock, Exists,
           catalogVars
  <1>2. viewer' \in [Viewers -> ViewerState]
    BY DEF StoreInv, StorefrontTypeOK, Look
  <1> QED
    BY <1>1, <1>2 DEF StoreInv, StorefrontTypeOK, searchVars

LEMMA ViewerStepTypes ==
  ASSUME StoreInv, NEW v \in Viewers,
         \/ ReadVersion(v) \/ Hit(v) \/ ReadListing(v) \/ StoreListing(v) \/ StorePage(v)
         \/ \E p \in Products : ReadPage(v, p)
  PROVE  StoreInv'
  <1>0. /\ StorefrontTypeOK /\ CatalogTypeOK /\ version \in Nat /\ ListedRows \in Listings
        /\ page \in [Products -> Revs \union {NoCopy}] /\ listing \in Listings \union {NoCopy}
        /\ Free \in ViewerState
    BY RowsListed DEF StoreInv, StorefrontTypeOK, ViewerState
  <1>1. CASE ReadVersion(v)
    <2>1. PICK n \in {version, 0} : Look(v, [pc |-> "versioned", version |-> n])
      BY <1>1 DEF ReadVersion
    <2>2. [pc |-> "versioned", version |-> n] \in ViewerState
      BY <1>0 DEF ViewerState
    <2> QED
      BY <1>0, <1>1, <2>1, <2>2, LookedTypes DEF ReadVersion
  <1>2. CASE Hit(v)
    BY <1>0, <1>2, LookedTypes DEF Hit
  <1>3. CASE ReadListing(v)
    <2>1. [pc |-> "listing", version |-> viewer[v].version, rows |-> ListedRows] \in ViewerState
      BY <1>0, <1>3, ViewerFields DEF ReadListing, ViewerState
    <2> QED
      BY <1>0, <1>3, <2>1, LookedTypes DEF ReadListing
  <1>4. CASE StoreListing(v)
    <2>1. listing' \in Listings \union {NoCopy}
      BY <1>0, <1>4, ViewerFields DEF StoreListing
    <2> QED
      BY <1>0, <1>4, <2>1, LookedTypes DEF StoreListing
  <1>5. CASE StorePage(v)
    <2>1. page' \in [Products -> Revs \union {NoCopy}]
      BY <1>0, <1>5, ViewerFields DEF StorePage
    <2> QED
      BY <1>0, <1>5, <2>1, LookedTypes DEF StorePage
  <1>6. ASSUME NEW p \in Products, ReadPage(v, p)
        PROVE  StoreInv'
    <2>1. [pc |-> "page", product |-> p, rev |-> product[p].rev] \in ViewerState
      BY <1>0, RowFields DEF ViewerState, Revs
    <2> QED
      BY <1>0, <1>6, <2>1, LookedTypes DEF ReadPage
  <1> QED
    BY <1>1, <1>2, <1>3, <1>4, <1>5, <1>6

LEMMA WorkerStepTypes ==
  ASSUME StoreInv, NEW w \in Workers,
         (\E e \in events : TakeJob(w, e)) \/ Sync(w) \/ FailJob(w)
  PROVE  StoreInv'
  <1>0. /\ StorefrontTypeOK /\ CatalogTypeOK /\ CheckedExist /\ RowLocks
    BY DEF StoreInv, CatalogInv
  <1>1. /\ UNCHANGED << product, stock, slot, cacheVars >> /\ events' \subseteq events
        /\ index' \in [Products -> Revs \union {NoCopy}] /\ parked' \in SUBSET Products
        /\ crossed' \in SUBSET Products
        /\ work' \in [Workers -> WorkerState]
    <2>1. ASSUME NEW e \in events, TakeJob(w, e)
          PROVE  work' \in [Workers -> WorkerState] /\ UNCHANGED << events, index, parked >>
                 /\ crossed' \in SUBSET Products
                 /\ UNCHANGED << product, stock, slot, cacheVars >>
      <3>1. e \in Event /\ e.product \in Products
        BY <1>0 DEF CatalogTypeOK, Event
      <3>2. Document(e) \in Revs \union {NoCopy}
        BY <1>0, <3>1, RowFields DEF Document, Revs
      <3>3. [pc |-> "syncing", event |-> e, doc |-> Document(e)] \in WorkerState
        BY <3>1, <3>2 DEF WorkerState
      <3> QED
        BY <1>0, <2>1, <3>1, <3>3 DEF TakeJob, StorefrontTypeOK, catalogVars
    <2>2. CASE Sync(w)
      BY <1>0, <2>2, WorkerFields DEF Sync, StorefrontTypeOK, WorkerState
    <2>3. CASE FailJob(w)
      BY <1>0, <2>3, WorkerFields DEF FailJob, StorefrontTypeOK, WorkerState
    <2>4. index \in [Products -> Revs \union {NoCopy}] /\ parked \in SUBSET Products
         /\ crossed \in SUBSET Products
      BY <1>0 DEF StorefrontTypeOK
    <2> QED
      BY <2>1, <2>2, <2>3, <2>4
  <1>2. CatalogInv'
    BY <1>0, <1>1 DEF CatalogInv, CatalogTypeOK, CheckedExist, RowLocks, HasLock, Exists
  <1> QED
    BY <1>0, <1>1, <1>2 DEF StoreInv, CatalogInv, StorefrontTypeOK, cacheVars

LEMMA StoreHolds ==
  ASSUME StoreInv, StorefrontNext
  PROVE  StoreInv'
  <1>0. CatalogInv /\ StorefrontTypeOK
    BY DEF StoreInv
  <1>1. CASE CatalogNext /\ UNCHANGED << cacheVars, searchVars >>
    BY <1>0, <1>1, CatalogHolds
       DEF StoreInv, CatalogInv, StorefrontTypeOK, cacheVars, searchVars
  <1>2. ASSUME NEW r \in Slots, DeletePage(r)
        PROVE  StoreInv'
    <2>1. CatalogInv' /\ slot[r].product \in Products
      BY <1>0, <1>2, Invalidated DEF DeletePage
    <2> QED
      BY <1>0, <1>2, <2>1 DEF DeletePage, StoreInv, CatalogInv, StorefrontTypeOK, searchVars
  <1>3. ASSUME NEW r \in Slots, BumpListings(r)
        PROVE  StoreInv'
    <2>1. CatalogInv'
      BY <1>0, <1>3, Invalidated DEF BumpListings
    <2>2. listing' \in Listings \union {NoCopy} /\ version' \in Nat /\ lost' \in BOOLEAN
      <3>1. listing \in Listings \union {NoCopy} /\ version \in Nat /\ lost \in BOOLEAN
        BY <1>0 DEF StorefrontTypeOK
      <3>2. \/ version' = version + 1 /\ listing' = NoCopy /\ lost' = FALSE
            \/ lost' = TRUE /\ version' = version /\ listing' = listing
        BY <1>3 DEF BumpListings
      <3>3. version + 1 \in Nat
        BY <3>1
      <3> QED
        BY <3>1, <3>2, <3>3
    <2>3. UNCHANGED << page, viewer, searchVars >>
      BY <1>3 DEF BumpListings
    <2> QED
      BY <1>0, <2>1, <2>2, <2>3 DEF StoreInv, CatalogInv, StorefrontTypeOK, searchVars
  <1>4. CASE Expire
    <2>1. page' \in [Products -> Revs \union {NoCopy}] /\ listing' \in Listings \union {NoCopy}
      BY <1>0, <1>4 DEF Expire, StorefrontTypeOK
    <2>2. CatalogInv'
      BY <1>0, <1>4 DEF Expire, CatalogInv, CatalogTypeOK, CheckedExist, RowLocks, HasLock,
                        Exists, catalogVars
    <2> QED
      BY <1>0, <1>4, <2>1, <2>2 DEF Expire, StoreInv, CatalogInv, StorefrontTypeOK, searchVars
  <1>5. ASSUME NEW v \in Viewers,
               \/ ReadVersion(v) \/ Hit(v) \/ ReadListing(v) \/ StoreListing(v) \/ StorePage(v)
               \/ \E p \in Products : ReadPage(v, p)
        PROVE  StoreInv'
    BY <1>5, ViewerStepTypes
  <1>6. ASSUME NEW w \in Workers,
               (\E e \in events : TakeJob(w, e)) \/ Sync(w) \/ FailJob(w)
        PROVE  StoreInv'
    BY <1>6, WorkerStepTypes
  <1> QED
    BY <1>1, <1>2, <1>3, <1>4, <1>5, <1>6 DEF StorefrontNext

LEMMA StoreStutters ==
  ASSUME StoreInv, UNCHANGED storefrontVars
  PROVE  StoreInv'
  BY DEF StoreInv, StorefrontTypeOK, CatalogInv, CatalogTypeOK, CheckedExist, RowLocks,
         HasLock, Exists, storefrontVars, catalogVars, cacheVars, searchVars

LEMMA FirstRows ==
  ASSUME StorefrontInit
  PROVE  product \in [Products -> ProductRow] /\ \A p \in Products : product[p].rev = 0
  <1> DEFINE rows == {NoProduct} \union
                [status : {"ACTIVE", "ARCHIVED"}, moderated : {FALSE}, rev : {0}]
  <1>1. ASSUME NEW row \in rows
        PROVE  row \in ProductRow /\ row.rev = 0
    <2>1. NoProduct \in ProductRow /\ NoProduct.rev = 0
      BY RevAssumption DEF ProductRow, NoProduct
    <2>2. CASE row \in [status : {"ACTIVE", "ARCHIVED"}, moderated : {FALSE}, rev : {0}]
      <3>1. 0 \in 0 .. MaxRev
        BY RevAssumption
      <3>2. /\ {FALSE} \subseteq BOOLEAN /\ {0} \subseteq 0 .. MaxRev
            /\ {"ACTIVE", "ARCHIVED"} \subseteq {"NONE", "ACTIVE", "ARCHIVED"}
        BY <3>1
      <3> QED
        BY <2>2, <3>2, Zenon DEF ProductRow
    <2> QED
      BY <2>1, <2>2
  <1>2. product \in [Products -> rows]
    BY DEF StorefrontInit, CatalogInit
  <1> HIDE DEF rows
  <1> QED
    BY <1>1, <1>2

LEMMA StoreStarts ==
  ASSUME StorefrontInit
  PROVE  StoreInv
  <1>1. product \in [Products -> ProductRow] /\ \A p \in Products : product[p].rev = 0
    BY FirstRows
  <1>2. stock \in [Products -> StockRow]
    BY RevAssumption DEF StorefrontInit, CatalogInit, StockRow, InventoryRow
  <1>3. slot \in [Slots -> SlotState] /\ \A r \in Slots : slot[r].pc = "idle"
    BY DEF StorefrontInit, CatalogInit, SlotState, Free
  <1>4. CatalogInv
    BY <1>1, <1>2, <1>3 DEF StorefrontInit, CatalogInit, CatalogInv, CatalogTypeOK, CheckedExist,
                            RowLocks, HasLock
  <1>5. 0 \in Revs
    BY RevAssumption DEF Revs
  <1> QED
    BY <1>4, <1>5 DEF StorefrontInit, StoreInv, StorefrontTypeOK, CatalogInv, ViewerState,
                      WorkerState

(* Every variable of the storefront keeps its type, whatever requests,      *)
(* readers and search workers run at once: the rev of a row stays under its *)
(* bound because one stock edit at a time holds the lock of a row.          *)
THEOREM StorefrontTypes == StorefrontSpec => []StorefrontTypeOK
  <1>1. StorefrontInit => StoreInv
    BY StoreStarts
  <1>2. StoreInv /\ [StorefrontNext]_storefrontVars => StoreInv'
    BY StoreHolds, StoreStutters
  <1>3. StoreInv => StorefrontTypeOK
    BY DEF StoreInv
  <1> QED
    BY <1>1, <1>2, <1>3, PTL DEF StorefrontSpec

-----------------------------------------------------------------------------
(* The cached listing.  A reader keeps the version it began with: what it    *)
(* stores under the current one was read after the last bump, so what it     *)
(* missed is a write that has still to bump.                                 *)

Pending == \E r \in Slots : slot[r].pc = "written" /\ "listings" \in slot[r].left

Fresh(rows) == rows = ListedRows \/ lost \/ Pending

ListingInv ==
  /\ listing # NoCopy => Fresh(listing)
  /\ \A v \in Viewers :
       /\ viewer[v].pc \in {"versioned", "listing"} => viewer[v].version <= version
       /\ viewer[v].pc = "listing" /\ viewer[v].version = version => Fresh(viewer[v].rows)

LEMMA FreshStays ==
  ASSUME Pending => Pending', UNCHANGED << product, lost >>
  PROVE  \A rows : Fresh(rows) => Fresh(rows)'
  BY DEF Fresh, ListedRows

(* Readers and the cache at rest: whatever stays fresh stays so listed. *)
LEMMA ListingKept ==
  ASSUME ListingInv, \A rows : Fresh(rows) => Fresh(rows)',
         listing' \in {listing, NoCopy}, UNCHANGED << version, viewer >>
  PROVE  ListingInv'
  <1>1. listing' # NoCopy => Fresh(listing)'
    BY DEF ListingInv
  <1>2. ASSUME NEW v \in Viewers
        PROVE  /\ viewer'[v].pc \in {"versioned", "listing"} => viewer'[v].version <= version'
               /\ viewer'[v].pc = "listing" /\ viewer'[v].version = version' =>
                    Fresh(viewer[v].rows)'
    BY DEF ListingInv
  <1> QED
    BY <1>1, <1>2 DEF ListingInv, Fresh, ListedRows, Pending

LEMMA CatalogKeepsListing ==
  ASSUME CatalogInv, ListingInv, CatalogNext, UNCHANGED << cacheVars, searchVars >>
  PROVE  ListingInv'
  <1>1. Pending' \/ (product' = product /\ (Pending => Pending'))
    <2>1. CASE UNCHANGED << product, events, slot >>
      BY <2>1 DEF Pending
    <2>2. CASE \E r \in Slots : Prepares(r)
      <3>1. PICK r \in Slots : Prepares(r)
        BY <2>2
      <3>2. /\ product' = product /\ slot[r].pc # "written"
            /\ \A q \in Slots \ {r} : slot'[q] = slot[q]
        BY <3>1 DEF Prepares
      <3> QED
        BY <3>2 DEF Pending
    <2>3. CASE \E r \in Slots, p \in Products : Writes(r, p)
      BY <2>3 DEF Writes, Pending
    <2> QED
      BY <2>1, <2>2, <2>3, CatalogStep
  <1>2. \A rows : Fresh(rows) => Fresh(rows)'
    BY <1>1 DEF Fresh, ListedRows, cacheVars
  <1> QED
    BY <1>2, ListingKept DEF cacheVars

LEMMA ViewersKeepListing ==
  ASSUME StoreInv, ListingInv, NEW v \in Viewers,
         \/ ReadVersion(v) \/ Hit(v) \/ ReadListing(v) \/ StoreListing(v) \/ StorePage(v)
         \/ \E p \in Products : ReadPage(v, p)
  PROVE  ListingInv'
  <1> DEFINE versioned(state) ==
        /\ state.pc \in {"versioned", "listing"} => state.version <= version
        /\ state.pc = "listing" /\ state.version = version => Fresh(state.rows)
  <1>0. version \in Nat /\ viewer \in [Viewers -> ViewerState] /\ StorefrontTypeOK
    BY DEF StoreInv, StorefrontTypeOK
  <1>1. UNCHANGED << catalogVars, version, lost >>
    BY DEF ReadVersion, Hit, ReadListing, StoreListing, StorePage, ReadPage
  <1>2. \A rows : Fresh(rows)' <=> Fresh(rows)
    BY <1>1 DEF Fresh, ListedRows, Pending, catalogVars
  <1>3. \A u \in Viewers : versioned(viewer[u])
    BY DEF ListingInv
  <1>4. \E state : Look(v, state) /\ versioned(state)
    <2>1. CASE ReadVersion(v)
      BY <1>0, <2>1 DEF ReadVersion
    <2>2. CASE Hit(v) \/ StoreListing(v) \/ StorePage(v)
      BY <2>2 DEF Hit, StoreListing, StorePage, Free
    <2>3. CASE ReadListing(v)
      <3> DEFINE state == [pc |-> "listing", version |-> viewer[v].version, rows |-> ListedRows]
      <3>1. Look(v, state)
        BY <2>3 DEF ReadListing
      <3>2. viewer[v].version <= version
        BY <1>3, <2>3 DEF ReadListing
      <3>3. versioned(state)
        BY <3>2 DEF Fresh
      <3> QED
        BY <3>1, <3>3
    <2>4. CASE \E p \in Products : ReadPage(v, p)
      BY <2>4 DEF ReadPage
    <2> QED
      BY <2>1, <2>2, <2>3, <2>4
  <1>5. listing' = listing \/ (listing' = viewer[v].rows /\ Fresh(viewer[v].rows))
    <2>1. CASE StoreListing(v)
      BY <1>3, <2>1 DEF StoreListing, ListingKeyIsCurrent
    <2> QED
      BY <2>1 DEF ReadVersion, Hit, ReadListing, StorePage, ReadPage
  <1>6. \A u \in Viewers : versioned(viewer'[u])
    BY <1>0, <1>3, <1>4 DEF Look
  <1>7. listing' # NoCopy => Fresh(listing')
    BY <1>5 DEF ListingInv
  <1>8. version' = version
    BY <1>1
  <1> QED
    BY <1>6, <1>7, <1>8, <1>1 DEF ListingInv, Fresh, ListedRows, Pending, catalogVars

LEMMA ListingHolds ==
  ASSUME StoreInv, ListingInv, StorefrontNext
  PROVE  ListingInv'
  <1>0. CatalogInv /\ StorefrontTypeOK /\ version \in Nat
    BY DEF StoreInv, StorefrontTypeOK
  <1>1. CASE CatalogNext /\ UNCHANGED << cacheVars, searchVars >>
    BY <1>0, <1>1, CatalogKeepsListing
  <1>2. ASSUME NEW r \in Slots, DeletePage(r)
        PROVE  ListingInv'
    <2>1. Left(r, "page")
      BY <1>2 DEF DeletePage
    <2>2. /\ "listings" \in slot[r].left =>
               slot'[r].pc = "written" /\ "listings" \in slot'[r].left
          /\ \A q \in Slots \ {r} : slot'[q] = slot[q]
      BY <1>0, <2>1, Invalidated
    <2>3. Pending => Pending'
      BY <2>2 DEF Pending
    <2> QED
      BY <1>2, <2>1, <2>3, FreshStays, ListingKept DEF DeletePage, Left
  <1>3. ASSUME NEW r \in Slots, BumpListings(r)
        PROVE  ListingInv'
    <2>1. CASE version' = version + 1 /\ listing' = NoCopy
      <3>1. \A v \in Viewers : viewer[v].pc \in {"versioned", "listing"} =>
              viewer[v].version \in Nat /\ viewer[v].version <= version
        BY <1>0, ViewerFields DEF ListingInv
      <3>2. viewer' = viewer
        BY <1>3 DEF BumpListings
      <3>3. \A v \in Viewers : viewer'[v].pc \in {"versioned", "listing"} =>
              viewer'[v].version <= version' /\ viewer'[v].version # version'
        BY <1>0, <2>1, <3>1, <3>2
      <3> QED
        BY <2>1, <3>3 DEF ListingInv
    <2>2. CASE lost' = TRUE /\ UNCHANGED << version, listing >>
      <3>1. \A rows : Fresh(rows)'
        BY <2>2 DEF Fresh
      <3> QED
        BY <1>3, <2>2, <3>1, ListingKept DEF BumpListings
    <2> QED
      BY <1>3, <2>1, <2>2 DEF BumpListings
  <1>4. CASE Expire
    <2>1. Pending => Pending'
      BY <1>4 DEF Expire, Pending, catalogVars
    <2> QED
      BY <1>4, <2>1, FreshStays, ListingKept DEF Expire, catalogVars
  <1>5. ASSUME NEW v \in Viewers,
               \/ ReadVersion(v) \/ Hit(v) \/ ReadListing(v) \/ StoreListing(v) \/ StorePage(v)
               \/ \E p \in Products : ReadPage(v, p)
        PROVE  ListingInv'
    BY <1>5, ViewersKeepListing
  <1>6. ASSUME NEW w \in Workers,
               (\E e \in events : TakeJob(w, e)) \/ Sync(w) \/ FailJob(w)
        PROVE  ListingInv'
    <2>1. UNCHANGED << product, slot, cacheVars >>
      BY <1>6 DEF TakeJob, Sync, FailJob, catalogVars
    <2>2. Pending => Pending'
      BY <2>1 DEF Pending
    <2> QED
      BY <2>1, <2>2, FreshStays, ListingKept DEF cacheVars
  <1> QED
    BY <1>1, <1>2, <1>3, <1>4, <1>5, <1>6 DEF StorefrontNext

(* No listing is served stale once every write has bumped the version: a    *)
(* reader that a write overtakes stores its rows under a version nobody     *)
(* looks at (findAllForCatalog, invalidateCatalogCache).                    *)
THEOREM ListingStaysFresh == StorefrontSpec => []ListingIsFresh
  <1>1. StorefrontInit => StoreInv /\ ListingInv
    <2>1. ASSUME StorefrontInit
          PROVE  listing = NoCopy /\ \A v \in Viewers : viewer[v].pc = "idle"
      BY <2>1 DEF StorefrontInit, Free
    <2> QED
      BY <2>1, StoreStarts DEF ListingInv
  <1>2. StoreInv /\ ListingInv /\ [StorefrontNext]_storefrontVars => (StoreInv /\ ListingInv)'
    <2>1. ASSUME StoreInv, ListingInv, UNCHANGED storefrontVars
          PROVE  ListingInv'
      BY <2>1 DEF ListingInv, Fresh, ListedRows, Pending, storefrontVars, catalogVars, cacheVars
    <2> QED
      BY <2>1, StoreHolds, StoreStutters, ListingHolds
  <1>3. ListingInv => ListingIsFresh
    BY DEF ListingInv, ListingIsFresh, Fresh, Pending
  <1> QED
    BY <1>1, <1>2, <1>3, PTL DEF StorefrontSpec

-----------------------------------------------------------------------------
(* The search index.  Whichever workers run, a document about to be written *)
(* is what the last row shows, or an event of the product waits that no     *)
(* worker has taken: who takes it reads the row again.  What is in the      *)
(* index is what the last row shows, or an event is still to be handled.    *)

Waiting(p) ==
  {e \in events : e.product = p /\ \A w \in Workers : Running(w, p) => work[w].event # e}

EventsExist == \A e \in events : Exists(e.product) /\ e.id <= product[e.product].rev

JobsOwnEvents ==
  \A w \in Workers : work[w].pc = "syncing" =>
    /\ work[w].event \in events
    /\ \A u \in Workers \ {w} : work[u].pc = "syncing" => work[u].event # work[w].event

JobsCatchUp ==
  \A p \in Products \ crossed, w \in Workers :
    Running(w, p) => Shows(p, work[w].doc) \/ Waiting(p) # {}

IndexCatchesUp ==
  \A p \in Products \ (parked \union crossed) :
    Shows(p, index[p]) \/ \E e \in events : e.product = p

SearchInv == EventsExist /\ JobsOwnEvents /\ JobsCatchUp /\ IndexCatchesUp

LEMMA SearchKept ==
  ASSUME SearchInv, UNCHANGED << product, events, searchVars >>
  PROVE  SearchInv'
  BY DEF SearchInv, EventsExist, JobsOwnEvents, JobsCatchUp, IndexCatchesUp, Waiting,
         Running, Shows, Exists, Archived, searchVars

LEMMA WritesKeepSearch ==
  ASSUME StoreInv, SearchInv, NEW r \in Slots, NEW p \in Products, Writes(r, p),
         CatalogTypeOK', UNCHANGED searchVars
  PROVE  SearchInv'
  <1> USE DEF SearchInv
  <1>0. CatalogTypeOK /\ StorefrontTypeOK
    BY DEF StoreInv, CatalogInv
  <1>1. PICK e \in Event : e.product = p /\ e.id = product'[p].rev /\ events' = events \union {e}
    BY DEF Writes
  <1>2. \A q \in Products \ {p} : product'[q] = product[q]
    BY DEF Writes
  <1>3. \A d \in events : d.product \in Products /\ d.id \in Nat
    BY <1>0 DEF CatalogTypeOK, Event
  <1>4. product[p].rev \in Nat /\ product'[p].rev \in Nat
    BY <1>0, RowFields, RevAssumption DEF CatalogTypeOK, ProductRow
  <1>5. \A d \in events : d.product = p => d.id < product'[p].rev
    BY <1>3, <1>4 DEF EventsExist, Writes
  <1>6. e \notin events
    BY <1>1, <1>4, <1>5
  <1>7. \A q \in Products \ {p} : \A doc : Shows(q, doc) => Shows(q, doc)'
    BY <1>2 DEF Shows, Archived
  <1>8. EventsExist'
    <2>1. ASSUME NEW d \in events
          PROVE  Exists(d.product)' /\ d.id <= product'[d.product].rev
      BY <1>2, <1>3, <1>4, <1>5 DEF EventsExist, Exists, Writes
    <2>2. Exists(p)'
      BY DEF Writes, Exists
    <2> QED
      BY <1>1, <1>4, <2>1, <2>2 DEF EventsExist
  <1>9. UNCHANGED << work, index, parked, crossed >>
    BY DEF searchVars
  <1>10. JobsOwnEvents'
    BY <1>1, <1>9 DEF JobsOwnEvents
  <1>11. \A q, w : Running(w, q)' <=> Running(w, q)
    BY <1>9 DEF Running
  <1>12. \A q : Waiting(q) \subseteq Waiting(q)'
    BY <1>1, <1>9 DEF Waiting, Running
  <1>13. e \in Waiting(p)'
    BY <1>1, <1>6, <1>9 DEF Waiting, Running, JobsOwnEvents
  <1>14. JobsCatchUp'
    BY <1>7, <1>9, <1>11, <1>12, <1>13 DEF JobsCatchUp
  <1>15. IndexCatchesUp'
    BY <1>1, <1>7, <1>9 DEF IndexCatchesUp
  <1> QED
    BY <1>8, <1>10, <1>14, <1>15

(* A worker takes an event: what it read is what the last row shows, and so *)
(* is what the others are about to write, unless they cross.                *)
LEMMA JobTaken ==
  ASSUME StoreInv, SearchInv, NEW w \in Workers, NEW e \in events, TakeJob(w, e)
  PROVE  SearchInv'
  <1> USE DEF SearchInv
  <1>1. /\ work' = [work EXCEPT ![w] = [pc |-> "syncing", event |-> e, doc |-> Document(e)]]
        /\ UNCHANGED << product, events, index, parked >> /\ work[w].pc = "idle"
        /\ work \in [Workers -> WorkerState]
    BY DEF TakeJob, catalogVars, StoreInv, StorefrontTypeOK
  <1>2. Shows(e.product, Document(e))
    BY DEF Shows, Document
  <1>3. \A p, doc : Shows(p, doc)' <=> Shows(p, doc)
    BY <1>1 DEF Shows, Archived
  <1>4. EventsExist'
    BY <1>1 DEF EventsExist, Exists
  <1>5. JobsOwnEvents'
    BY <1>1 DEF JobsOwnEvents, TakeJob
  <1>6. \A p : p # e.product =>
          /\ Waiting(p) \subseteq Waiting(p)'
          /\ \A u \in Workers : Running(u, p)' => Running(u, p) /\ work'[u] = work[u]
    BY <1>1 DEF Waiting, Running
  <1>7. ASSUME NEW p \in Products \ crossed', NEW u \in Workers, Running(u, p)'
        PROVE  Shows(p, work[u].doc)' \/ Waiting(p)' # {}
    <2>1. CASE p # e.product
      <3>1. p \notin crossed
        BY <1>7, <2>1 DEF TakeJob
      <3> QED
        BY <1>3, <1>6, <1>7, <2>1, <3>1 DEF JobsCatchUp
    <2>2. CASE p = e.product
      <3>1. ~Outdated(p)
        BY <1>7, <2>2 DEF TakeJob
      <3>2. CASE u = w
        BY <1>1, <1>2, <1>3, <2>2, <3>2
      <3>3. CASE u # w
        BY <1>1, <1>3, <1>7, <3>1, <3>3 DEF Outdated, Running
      <3> QED
        BY <3>2, <3>3
    <2> QED
      BY <2>1, <2>2
  <1>8. JobsCatchUp'
    BY <1>7 DEF JobsCatchUp
  <1>9. IndexCatchesUp'
    <2> SUFFICES ASSUME NEW p \in Products \ (parked \union crossed')
                 PROVE  Shows(p, index[p]) \/ \E d \in events : d.product = p
      BY <1>1, <1>3 DEF IndexCatchesUp
    <2>1. CASE p = e.product
      BY <2>1
    <2>2. CASE p # e.product
      BY <2>2 DEF IndexCatchesUp, TakeJob
    <2> QED
      BY <2>1, <2>2
  <1> QED
    BY <1>4, <1>5, <1>8, <1>9

(* A worker ends with its event handled or not: those that wait still do.   *)
LEMMA JobEnded ==
  ASSUME SearchInv, NEW w \in Workers, work[w].pc = "syncing",
         work \in [Workers -> WorkerState], work' = [work EXCEPT ![w] = Free],
         events' \in {events, events \ {work[w].event}}, UNCHANGED << product, crossed >>
  PROVE  /\ EventsExist' /\ JobsOwnEvents' /\ JobsCatchUp'
         /\ \A p, doc : Shows(p, doc)' <=> Shows(p, doc)
         /\ \A p : Waiting(p) \subseteq {e \in events' : e.product = p}
  <1> USE DEF SearchInv
  <1>1. \A p, doc : Shows(p, doc)' <=> Shows(p, doc)
    BY DEF Shows, Archived
  <1>2. EventsExist'
    BY DEF EventsExist, Exists
  <1>3. work'[w].pc = "idle" /\ \A u \in Workers \ {w} : work'[u] = work[u]
    BY DEF Free
  <1>4. JobsOwnEvents'
    BY <1>3 DEF JobsOwnEvents
  <1>5. \A p : Waiting(p) \subseteq Waiting(p)'
    BY <1>3 DEF Waiting, Running
  <1>6. \A p, u : u \in Workers /\ Running(u, p)' => Running(u, p) /\ work'[u] = work[u]
    BY <1>3 DEF Running
  <1>7. JobsCatchUp'
    BY <1>1, <1>5, <1>6 DEF JobsCatchUp
  <1>8. \A p : Waiting(p) \subseteq {e \in events' : e.product = p}
    BY <1>5 DEF Waiting
  <1> QED
    BY <1>1, <1>2, <1>4, <1>7, <1>8

LEMMA WorkersKeepSearch ==
  ASSUME StoreInv, SearchInv, NEW w \in Workers,
         (\E e \in events : TakeJob(w, e)) \/ Sync(w) \/ FailJob(w)
  PROVE  SearchInv'
  <1> USE DEF SearchInv
  <1>0. /\ StorefrontTypeOK /\ work \in [Workers -> WorkerState]
        /\ index \in [Products -> Revs \union {NoCopy}]
    BY DEF StoreInv, StorefrontTypeOK
  <1>1. CASE \E e \in events : TakeJob(w, e)
    BY <1>1, JobTaken
  <1> DEFINE job == work[w].event
  <1>2. CASE Sync(w)
    <2>1. /\ work[w].pc = "syncing" /\ work' = [work EXCEPT ![w] = Free] /\ parked' = parked
          /\ index' = [index EXCEPT ![job.product] = work[w].doc]
          /\ events' \in {events, events \ {job}} /\ job.product \in Products
          /\ UNCHANGED << product, crossed >>
      BY <1>0, <1>2, WorkerFields DEF Sync
    <2>2. /\ EventsExist' /\ JobsOwnEvents' /\ JobsCatchUp'
          /\ \A p, doc : Shows(p, doc)' <=> Shows(p, doc)
          /\ \A p : Waiting(p) \subseteq {e \in events' : e.product = p}
      BY <1>0, <2>1, JobEnded
    <2>3. job.product \notin crossed => Shows(job.product, work[w].doc) \/ Waiting(job.product) # {}
      BY <2>1 DEF JobsCatchUp, Running
    <2> HIDE DEF job
    <2>4. ASSUME NEW p \in Products \ (parked \union crossed)
          PROVE  Shows(p, index'[p]) \/ \E e \in events' : e.product = p
      <3>1. CASE p = job.product
        BY <1>0, <2>1, <2>2, <2>3, <3>1
      <3>2. CASE p # job.product
        BY <1>0, <2>1, <3>2 DEF IndexCatchesUp
      <3> QED
        BY <3>1, <3>2
    <2>5. IndexCatchesUp'
      BY <2>1, <2>2, <2>4 DEF IndexCatchesUp
    <2> QED
      BY <2>2, <2>5
  <1>3. CASE FailJob(w)
    <2>1. /\ work[w].pc = "syncing" /\ work' = [work EXCEPT ![w] = Free] /\ index' = index
          /\ events' \in {events, events \ {job}} /\ UNCHANGED << product, crossed >>
          /\ \/ events' = events /\ parked' = parked
             \/ events' = events \ {job} /\ parked' = parked \union {job.product}
      BY <1>0, <1>3 DEF FailJob
    <2>2. /\ EventsExist' /\ JobsOwnEvents' /\ JobsCatchUp'
          /\ \A p, doc : Shows(p, doc)' <=> Shows(p, doc)
      BY <1>0, <2>1, JobEnded
    <2> HIDE DEF job
    <2>3. IndexCatchesUp'
      BY <2>1, <2>2 DEF IndexCatchesUp
    <2> QED
      BY <2>2, <2>3
  <1> QED
    BY <1>1, <1>2, <1>3

LEMMA SearchHolds ==
  ASSUME StoreInv, SearchInv, StorefrontNext
  PROVE  SearchInv'
  <1>0. CatalogInv
    BY DEF StoreInv
  <1>1. CASE CatalogNext /\ UNCHANGED << cacheVars, searchVars >>
    <2>1. ASSUME NEW r \in Slots, NEW p \in Products, Writes(r, p)
          PROVE  SearchInv'
      BY <1>0, <1>1, <2>1, CatalogStep, WritesKeepSearch
    <2>2. ASSUME NEW r \in Slots, Prepares(r)
          PROVE  SearchInv'
      BY <1>1, <2>2, SearchKept DEF Prepares
    <2> QED
      BY <1>0, <1>1, <2>1, <2>2, CatalogStep, SearchKept
  <1>2. CASE \E r \in Slots : DeletePage(r) \/ BumpListings(r)
    BY <1>2, SearchKept DEF DeletePage, BumpListings, Left
  <1>3. CASE Expire
    BY <1>3, SearchKept DEF Expire, catalogVars
  <1>4. ASSUME NEW v \in Viewers,
               \/ ReadVersion(v) \/ Hit(v) \/ ReadListing(v) \/ StoreListing(v) \/ StorePage(v)
               \/ \E p \in Products : ReadPage(v, p)
        PROVE  SearchInv'
    BY <1>4, SearchKept
       DEF ReadVersion, Hit, ReadListing, StoreListing, StorePage, ReadPage, catalogVars
  <1>5. ASSUME NEW w \in Workers,
               (\E e \in events : TakeJob(w, e)) \/ Sync(w) \/ FailJob(w)
        PROVE  SearchInv'
    BY <1>5, WorkersKeepSearch
  <1> QED
    BY <1>1, <1>2, <1>3, <1>4, <1>5 DEF StorefrontNext

(* Whatever order retries leave the events in and however many workers run, *)
(* once the events are handled no archived product is found and no hit      *)
(* shows an older row than the last, unless the last worker to read the row *)
(* crossed one that was about to write an older (SearchSyncConsumer.        *)
(* syncProduct).                                                            *)
THEOREM SearchIsSettled == StorefrontSpec => []SearchSettles
  <1>1. StorefrontInit => StoreInv /\ SearchInv
    <2>1. ASSUME StorefrontInit
          PROVE  /\ events = {} /\ \A w \in Workers : work[w].pc = "idle"
                 /\ \A p \in Products :
                      index[p] = IF product[p].status = "ACTIVE" THEN 0 ELSE NoCopy
                 /\ \A p \in Products : product[p].rev = 0
      <3>1. \A p \in Products : product[p].rev = 0
        BY <2>1, FirstRows
      <3> QED
        BY <2>1, <3>1 DEF StorefrontInit, CatalogInit, Free
    <2> QED
      BY <2>1, StoreStarts
         DEF SearchInv, EventsExist, JobsOwnEvents, JobsCatchUp, IndexCatchesUp, Running, Shows,
             Archived
  <1>2. StoreInv /\ SearchInv /\ [StorefrontNext]_storefrontVars => (StoreInv /\ SearchInv)'
    BY StoreHolds, StoreStutters, SearchHolds, SearchKept DEF storefrontVars, catalogVars
  <1>3. SearchInv => SearchSettles
    BY DEF SearchInv, IndexCatchesUp, SearchSettles, Handled, SearchHits, Shows
  <1> QED
    BY <1>1, <1>2, <1>3, PTL DEF StorefrontSpec

-----------------------------------------------------------------------------
(* Takedowns.  A restore was let through by a row that no moderation had     *)
(* touched; a row moderated since has a higher rev.                          *)

RestoreInv ==
  \A r \in Slots : slot[r].pc = "checked" /\ slot[r].op = "restore" =>
    /\ slot[r].seen.status = "ARCHIVED" /\ ~slot[r].seen.moderated
    /\ slot[r].seen.rev <= product[slot[r].product].rev
    /\ slot[r].seen.rev = product[slot[r].product].rev =>
         slot[r].seen = product[slot[r].product]

LEMMA RestoreHolds ==
  ASSUME StoreInv, RestoreInv, StorefrontNext
  PROVE  RestoreInv'
  <1>0. CatalogInv /\ CatalogTypeOK /\ CatalogTypeOK'
    BY StoreHolds DEF StoreInv, CatalogInv
  <1>1. ASSUME UNCHANGED << product, slot >>
        PROVE  RestoreInv'
    BY <1>1 DEF RestoreInv
  <1>2. ASSUME NEW r \in Slots, Prepares(r)
        PROVE  RestoreInv'
    <2>1. product' = product /\ \A q \in Slots \ {r} : slot'[q] = slot[q]
      BY <1>2 DEF Prepares
    <2>2. slot'[r].pc = "checked" /\ slot'[r].op = "restore" =>
            /\ slot'[r].seen = product[slot'[r].product]
            /\ slot'[r].seen.status = "ARCHIVED" /\ ~slot'[r].seen.moderated
      BY <1>2 DEF Prepares
    <2>3. slot'[r].pc = "checked" => slot'[r].product \in Products
      BY <1>0 DEF CatalogTypeOK, SlotState, Free
    <2>4. slot'[r].pc = "checked" => product[slot'[r].product].rev \in Nat
      BY <1>0, <2>3, RowFields
    <2> QED
      BY <2>1, <2>2, <2>4 DEF RestoreInv
  <1>3. ASSUME NEW r \in Slots, NEW p \in Products, Writes(r, p)
        PROVE  RestoreInv'
    <2>1. ASSUME NEW q \in Slots, slot'[q].pc = "checked", slot'[q].op = "restore"
          PROVE  /\ slot[q] = slot'[q] /\ q # r /\ Exists(slot[q].product)
                 /\ slot[q].product \in Products /\ slot[q].seen.rev \in Nat
      <3>1. q # r /\ slot'[q] = slot[q]
        BY <1>3, <2>1 DEF Writes
      <3>2. /\ slot[q] \in [pc : {"checked"}, op : Operations, product : Products,
                               seen : ProductRow]
        BY <1>0, <2>1, <3>1, RequestFields
      <3>3. Exists(slot[q].product)
        BY <1>0, <2>1, <3>1 DEF CatalogInv, CheckedExist
      <3> QED
        BY <3>1, <3>2, <3>3, RevAssumption DEF ProductRow
    <2>2. ASSUME NEW q \in Slots, slot'[q].pc = "checked", slot'[q].op = "restore",
                 slot[q].product = p
          PROVE  slot[q].seen.rev < product'[p].rev
      <3>1. product'[p].rev = product[p].rev + 1 /\ product[p].rev \in Nat
        BY <1>0, <1>3, <2>1, <2>2, RowFields DEF Writes
      <3> QED
        BY <2>1, <2>2, <3>1 DEF RestoreInv
    <2>3. \A q \in Products \ {p} : product'[q] = product[q]
      BY <1>3 DEF Writes
    <2>4. product'[p].rev \in Nat
      BY <1>0, RevAssumption DEF CatalogTypeOK, ProductRow
    <2> SUFFICES ASSUME NEW q \in Slots, slot'[q].pc = "checked",
                        slot'[q].op = "restore"
                 PROVE  /\ slot'[q].seen.status = "ARCHIVED" /\ ~slot'[q].seen.moderated
                        /\ slot'[q].seen.rev <= product'[slot'[q].product].rev
                        /\ slot'[q].seen.rev = product'[slot'[q].product].rev =>
                             slot'[q].seen = product'[slot'[q].product]
      BY DEF RestoreInv
    <2>5. CASE slot[q].product = p
      BY <2>1, <2>2, <2>4, <2>5 DEF RestoreInv
    <2>6. CASE slot[q].product # p
      BY <2>1, <2>3, <2>6 DEF RestoreInv
    <2> QED
      BY <2>5, <2>6
  <1>4. ASSUME NEW r \in Slots, NEW what \in {"page", "listings"}, Left(r, what)
        PROVE  RestoreInv'
    <2>1. product' = product /\ slot'[r].pc # "checked"
          /\ \A q \in Slots \ {r} : slot'[q] = slot[q]
      BY <1>0, <1>4, Invalidated DEF Left
    <2> QED
      BY <2>1 DEF RestoreInv
  <1>5. CASE CatalogNext
    BY <1>0, <1>1, <1>2, <1>3, <1>5, CatalogStep
  <1>6. CASE \E r \in Slots : DeletePage(r) \/ BumpListings(r)
    BY <1>4, <1>6 DEF DeletePage, BumpListings
  <1>7. CASE Expire
    BY <1>1, <1>7 DEF Expire, catalogVars
  <1>8. ASSUME NEW v \in Viewers,
               \/ ReadVersion(v) \/ Hit(v) \/ ReadListing(v) \/ StoreListing(v) \/ StorePage(v)
               \/ \E p \in Products : ReadPage(v, p)
        PROVE  RestoreInv'
    BY <1>1, <1>8
       DEF ReadVersion, Hit, ReadListing, StoreListing, StorePage, ReadPage, catalogVars
  <1>9. ASSUME NEW w \in Workers,
               (\E e \in events : TakeJob(w, e)) \/ Sync(w) \/ FailJob(w)
        PROVE  RestoreInv'
    BY <1>1, <1>9 DEF TakeJob, Sync, FailJob, catalogVars
  <1> QED
    BY <1>5, <1>6, <1>7, <1>8, <1>9 DEF StorefrontNext

(* The only restore by which a seller undoes a takedown is one that had     *)
(* read the row before it (ProductsService.restore, moderate).              *)
THEOREM TakedownsStand == StorefrontSpec => TakedownStands
  <1>1. StorefrontInit => StoreInv /\ RestoreInv
    <2>1. ASSUME StorefrontInit
          PROVE  \A r \in Slots : slot[r].pc = "idle"
      BY <2>1 DEF StorefrontInit, CatalogInit, Free
    <2> QED
      BY <2>1, StoreStarts DEF RestoreInv
  <1>2. StoreInv /\ RestoreInv /\ [StorefrontNext]_storefrontVars => (StoreInv /\ RestoreInv)'
    <2>1. ASSUME RestoreInv, UNCHANGED storefrontVars
          PROVE  RestoreInv'
      BY <2>1 DEF RestoreInv, storefrontVars, catalogVars
    <2> QED
      BY <2>1, StoreHolds, StoreStutters, RestoreHolds
  <1>3. StoreInv /\ RestoreInv /\ [StorefrontNext]_storefrontVars =>
          [\A r \in Slots, p \in Products :
             /\ slot[r].pc = "checked" /\ slot[r].product = p
             /\ slot[r].op = "restore"
             /\ Archived(p) /\ product[p].moderated
             /\ product'[p].status = "ACTIVE" /\ slot'[r].pc = "written"
             => slot[r].seen.rev < product[p].rev /\ ~slot[r].seen.moderated]_storefrontVars
    <2> SUFFICES ASSUME StoreInv, RestoreInv, NEW r \in Slots, NEW p \in Products,
                        slot[r].pc = "checked", slot[r].product = p,
                        slot[r].op = "restore", product[p].moderated
                 PROVE  slot[r].seen.rev < product[p].rev /\ ~slot[r].seen.moderated
      OBVIOUS
    <2>1. CatalogTypeOK
      BY DEF StoreInv, CatalogInv
    <2>2. product[p].rev \in Nat /\ slot[r].seen.rev \in Nat
      BY <2>1, RowFields, RequestFields, RevAssumption DEF ProductRow
    <2>3. /\ ~slot[r].seen.moderated /\ slot[r].seen.rev <= product[p].rev
          /\ slot[r].seen.rev = product[p].rev => slot[r].seen = product[p]
      BY DEF RestoreInv
    <2> QED
      BY <2>2, <2>3
  <1> QED
    BY <1>1, <1>2, <1>3, PTL DEF StorefrontSpec, TakedownStands

=============================================================================
