-------------------------------- MODULE Live --------------------------------
(***************************************************************************)
(* What one browser tab shows of rows that change under it: the rooms of   *)
(* RealtimeGateway, the broadcasts of RealtimeConsumer, the tab's socket,  *)
(* the hooks that subscribe to rooms (useRealtimeRoom and its users), the  *)
(* refetches they ask of TanStack Query, and NotificationToaster.          *)
(*                                                                         *)
(* The row behind a room is the set of the facts there are about it; behind *)
(* a notification room are the user's Notification rows.  What the server  *)
(* sends the tab arrives in order, until the connection drops and takes    *)
(* with it what was on the wire in both directions.                        *)
(***************************************************************************)
EXTENDS Notices, Sequences

CONSTANTS
  Hooks,     \* the mounted hooks, one for each room the pages look at
  RoomOf,    \* RoomOf[h]: [type, id]; a notification room's id is its user
  Party,     \* Party[room]: who may join a room that is not public
  Nothing,   \* no data
  MaxDrops,  \* bounds how often the connection drops or is replaced
  MaxWire    \* bounds what is sent while nobody receives

ASSUME LiveAssumption ==
  /\ \A h \in Hooks : RoomOf[h].type \in
       {"product", "auction", "order", "seller-order", "notification"}
  /\ \A h \in Hooks : Party[RoomOf[h]] \subseteq Users
  /\ \A g, h \in Hooks : RoomOf[g] = RoomOf[h] => g = h
  /\ \A f \in Facts :
       Fact[f].subject.type = "auction" => Fact[f].kind \in {"AuctionEnded", "BidPlaced"}
  /\ MaxDrops \in Nat /\ MaxWire \in Nat

Rooms == {RoomOf[h] : h \in Hooks}

VARIABLES
  told,    \* told[f]: the row that the payload of fact f gives
  user,    \* whose tokens the tab holds
  socket,  \* whether it is up, and the identity of its handshake
  member,  \* the rooms the server has the socket in
  drops,
  wire,    \* what the server sent and the tab has not received
  hook,    \* hook[h]: the life of one useRealtimeRoom
  call,    \* call[h]: its subscribe message, until the ack is on the wire
  view,    \* view[h]: the data the page shows
  fetch,   \* fetch[h]: the query that loads it
  failed,  \* the hooks whose last query gave up
  late,    \* history: the hooks whose first load was behind what they were told
  seen     \* the notifications the toaster accounted for

tabVars ==
  << user, socket, member, drops, wire, hook, call, view, fetch, failed, late, seen >>
liveVars == << told, tabVars >>
vars == << noticeVars, liveVars >>

-----------------------------------------------------------------------------
(* Rooms *)

IsPublic(room) == room.type \in {"product", "auction"}

(* An order's buyer, a SellerOrder's buyer and seller, the user himself.   *)
(* Administrators, who may join every room, are not modelled.              *)
Authorized_Anyone(room, u) == TRUE
Authorized(room, u) == IsPublic(room) \/ u \in Party[room]

Subject(f) == Fact[f].subject
Row(room) == {f \in recorded : Subject(f) = room}

Snapshot(room) ==
  IF room.type = "notification" THEN NotificationsOf(room.id) ELSE Row(room)

(* toEnvelopes: the room of the row, and then that of the user's toaster;  *)
(* the room of a SellerOrder, which no page joins, is left out.  A tab gets *)
(* what is sent to the rooms it is in.                                     *)
Pokes(f) == Kind(f) = "StatusChanged" \/ (Kind(f) = "AuctionEnded" /\ Fact[f].user # Nobody)

Envelope(f, room) ==
  IF room \in member THEN << [kind |-> "event", room |-> room, fact |-> f] >> ELSE << >>

Envelopes(f) ==
  Envelope(f, Subject(f)) \o
    (IF Pokes(f) THEN Envelope(f, [type |-> "notification", id |-> Fact[f].user]) ELSE << >>)

-----------------------------------------------------------------------------
(* Which hooks patch what they show, and which load it again *)

Type(h) == RoomOf[h].type

(* useProductStock has no endpoint to load from: its ack is the fetch. *)
Loads(h) == Type(h) # "product"

Patches(h) == Type(h) # "notification"

RefetchesOn_EventsOnly(h, message) == Type(h) \in {"auction", "notification"} /\ message = "event"
RefetchesOn(h, message) == Type(h) \in {"auction", "notification"}

(* setQueryData does nothing before the first load; setStock on an ack does. *)
Patched(h, value, message) ==
  IF Patches(h) /\ (view[h] # Nothing \/ (message = "ack" /\ ~Loads(h)))
  THEN [view EXCEPT ![h] = value] ELSE view

Asked == [pc |-> "asked"]
Idle == [pc |-> "idle"]

(* invalidateQueries cancels the query that runs and starts another: but as  *)
(* long as there is no data it joins the one that runs, which may have been  *)
(* answered with an older row.                                              *)
JoinsLoad(h) == view[h] = Nothing /\ fetch[h].pc # "idle"
IsBehind(h) == fetch[h].pc = "answered" /\ fetch[h].value # Snapshot(RoomOf[h])

Invalidate(h) ==
  /\ fetch' = IF JoinsLoad(h) THEN fetch ELSE [fetch EXCEPT ![h] = Asked]
  /\ late' = IF ~JoinsLoad(h) THEN late \ {h}
             ELSE IF IsBehind(h) THEN late \union {h} ELSE late

-----------------------------------------------------------------------------
(* Facts *)

(* The change commits with its event; the payload is the row after it. *)
Happen(f) ==
  /\ Record(f)
  /\ told' = [told EXCEPT ![f] = Row(Subject(f)) \union {f}]
  /\ UNCHANGED tabVars

(* There is no marker: a broadcast may come late, again and out of order. *)
Broadcast(f) ==
  /\ << f, "realtime" >> \in jobs
  /\ Len(wire) < MaxWire
  /\ wire' = wire \o Envelopes(f)
  /\ Done(<< f, "realtime" >>)
  /\ UNCHANGED << recorded, parked, marked, rows, mails, lost >>
  /\ UNCHANGED << told, user, socket, member, drops, hook, call, view,
                  fetch, failed, late, seen >>

-----------------------------------------------------------------------------
(* The room protocol *)

Mounted(h) == hook[h] # "off"

(* A query that runs is joined, and data of a few seconds ago will do.       *)
LoadsOnMount(h) ==
  IF Loads(h) /\ fetch[h].pc = "idle"
  THEN /\ fetch' = [fetch EXCEPT ![h] = Asked]
       /\ failed' = failed \ {h}
       /\ late' = late \ {h}
  ELSE UNCHANGED << fetch, failed, late >>

Mount(h) ==
  /\ ~Mounted(h)
  /\ Len(wire) < MaxWire
  /\ user # Nobody
  /\ Type(h) = "notification" => RoomOf[h].id = user
  /\ hook' = [hook EXCEPT ![h] = "joining"]
  /\ call' = [call EXCEPT ![h] = Asked]
  /\ LoadsOnMount(h) \/ (view[h] # Nothing /\ UNCHANGED << fetch, failed, late >>)
  /\ UNCHANGED << noticeVars, told, user, socket, member, drops, wire,
                  view, seen >>

(* subscribe: the room's rule, then the snapshot, before the join. *)
Authorize(h) ==
  /\ socket.up
  /\ call[h].pc = "asked"
  /\ IF Authorized(RoomOf[h], socket.user)
     THEN /\ call' = [call EXCEPT ![h] =
                        [pc |-> "read", value |-> Snapshot(RoomOf[h])]]
          /\ wire' = wire
     ELSE /\ call' = [call EXCEPT ![h] = Idle]
          /\ wire' = Append(wire, [kind |-> "refusal", hook |-> h])
  /\ UNCHANGED << noticeVars, told, user, socket, member, drops, hook,
                  view, fetch, failed, late, seen >>

Join(h) ==
  /\ call[h].pc = "read"
  /\ member' = member \union {RoomOf[h]}
  /\ wire' = Append(wire, [kind |-> "ack", hook |-> h, value |-> call[h].value])
  /\ call' = [call EXCEPT ![h] = Idle]
  /\ UNCHANGED << noticeVars, told, user, socket, drops, hook, view,
                  fetch, failed, late, seen >>

(* An ack that comes after its hook is gone is ignored. *)
Ignored == [kind |-> "ignored"]
IsAnswerTo(h, m) == m.kind \in {"ack", "refusal"} /\ m.hook = h

(* A hook that has its ack leaves the room; one that waits for it does not. *)
(* The toaster's is mounted for as long as its user is signed in.           *)
Unmount(h) ==
  /\ Mounted(h)
  /\ Type(h) # "notification"
  /\ member' = IF hook[h] = "subscribed" THEN member \ {RoomOf[h]} ELSE member
  /\ hook' = [hook EXCEPT ![h] = "off"]
  /\ wire' = [n \in DOMAIN wire |-> IF IsAnswerTo(h, wire[n]) THEN Ignored ELSE wire[n]]
  /\ call' = [call EXCEPT ![h] = Idle]
  /\ UNCHANGED << noticeVars, told, user, socket, drops, view, fetch,
                  failed, late, seen >>

(* What a message does to the hooks it is for. *)
Receive(h, value, message) ==
  /\ view' = Patched(h, value, message)
  /\ IF RefetchesOn(h, message) THEN Invalidate(h) ELSE UNCHANGED << fetch, late >>

ReceiveAck(m) ==
  /\ m.kind = "ack"
  /\ hook' = [hook EXCEPT ![m.hook] = "subscribed"]
  /\ Receive(m.hook, m.value, "ack")

ReceiveRefusal(m) ==
  /\ m.kind = "refusal"
  /\ hook' = [hook EXCEPT ![m.hook] = "refused"]
  /\ UNCHANGED << view, fetch, late >>

ReceiveEvent(m) ==
  /\ m.kind = "event"
  /\ \/ \E h \in Hooks :
          /\ Mounted(h) /\ RoomOf[h] = m.room
          /\ Receive(h, told[m.fact], "event")
     \/ /\ \A h \in Hooks : Mounted(h) => RoomOf[h] # m.room
        /\ UNCHANGED << view, fetch, late >>
  /\ hook' = hook

ReceiveNothing(m) ==
  /\ m = Ignored
  /\ UNCHANGED << hook, view, fetch, late >>

Deliver ==
  /\ wire # << >>
  /\ LET m == Head(wire) IN
       ReceiveAck(m) \/ ReceiveRefusal(m) \/ ReceiveEvent(m) \/ ReceiveNothing(m)
  /\ wire' = Tail(wire)
  /\ UNCHANGED << noticeVars, told, user, socket, member, drops, call,
                  failed, seen >>

-----------------------------------------------------------------------------
(* The connection *)

(* An ack that was under way never comes. *)
Disconnected ==
  /\ member' = {}
  /\ wire' = << >>

Drop ==
  /\ socket.up
  /\ drops < MaxDrops
  /\ drops' = drops + 1
  /\ socket' = [socket EXCEPT !.up = FALSE]
  /\ Disconnected
  /\ call' = [h \in Hooks |-> Idle]
  /\ UNCHANGED << noticeVars, told, user, hook, view, fetch, failed, late, seen >>

(* onReconnected: a hook that is subscribed joins again, any other does not. *)
(* What was emitted while the socket was down is sent now.                  *)
Rejoins(h) == hook[h] = "subscribed"

Connect ==
  /\ ~socket.up
  /\ socket' = [up |-> TRUE, user |-> user]
  /\ hook' = [h \in Hooks |-> IF Rejoins(h) THEN "joining" ELSE hook[h]]
  /\ call' = [h \in Hooks |-> IF Rejoins(h) THEN Asked ELSE call[h]]
  /\ UNCHANGED << noticeVars, told, user, member, drops, wire, view,
                  fetch, failed, late, seen >>

(* AuthProvider: another identity clears the cache and reconnects.  Pages   *)
(* are gone from the sign-in page, which lies between two users; but the    *)
(* toaster's hook joins in the same commit, its effect before that of       *)
(* AuthProvider: what it sent on the old connection is lost with it.        *)
Greets(h, u) == RoomOf[h].type = "notification" /\ RoomOf[h].id = u

ChangeUser(u) ==
  /\ u # user
  /\ Nobody \in {u, user}
  /\ drops < MaxDrops
  /\ drops' = drops + 1
  /\ user' = u
  /\ socket' = [socket EXCEPT !.up = FALSE]
  /\ Disconnected
  /\ hook' = [h \in Hooks |-> IF Greets(h, u) THEN "joining" ELSE "off"]
  /\ call' = [h \in Hooks |-> IF Greets(h, u) /\ ~socket.up THEN Asked ELSE Idle]
  /\ view' = [h \in Hooks |-> Nothing]
  /\ fetch' = [h \in Hooks |-> Idle]
  /\ late' = {}
  /\ UNCHANGED << noticeVars, told, failed, seen >>

-----------------------------------------------------------------------------
(* Loading *)

(* The server answers with the row as it is. *)
Answer(h) ==
  /\ fetch[h].pc = "asked"
  /\ fetch' = [fetch EXCEPT ![h] = [pc |-> "answered", value |-> Snapshot(RoomOf[h])]]
  /\ UNCHANGED << noticeVars, told, user, socket, member, drops, wire,
                  hook, call, view, failed, late, seen >>

(* NotificationToaster: the first list is history, a later one is news. *)
Toasted(h, value) ==
  IF Type(h) # "notification" THEN seen
  ELSE (IF seen = Nothing THEN {} ELSE seen) \union {r.fact : r \in value}

Load(h) ==
  /\ fetch[h].pc = "answered"
  /\ view' = [view EXCEPT ![h] = fetch[h].value]
  /\ seen' = Toasted(h, fetch[h].value)
  /\ fetch' = [fetch EXCEPT ![h] = Idle]
  /\ failed' = failed \ {h}
  /\ UNCHANGED << noticeVars, told, user, socket, member, drops, wire,
                  hook, call, late >>

(* Two retries, and the page keeps what it had. *)
FailLoad(h) ==
  /\ fetch[h].pc # "idle"
  /\ fetch' = [fetch EXCEPT ![h] = Idle]
  /\ failed' = failed \union {h}
  /\ UNCHANGED << noticeVars, told, user, socket, member, drops, wire,
                  hook, call, view, late, seen >>

(* refetchInterval of the notification list: every 30 seconds. *)
Poll(h) ==
  /\ Mounted(h)
  /\ Type(h) = "notification"
  /\ fetch[h].pc = "idle"
  /\ Invalidate(h)
  /\ UNCHANGED << noticeVars, told, user, socket, member, drops, wire,
                  hook, call, view, failed, seen >>

-----------------------------------------------------------------------------
Init ==
  /\ NoticesInit
  /\ told = [f \in Facts |-> {}]
  /\ user \in Users \union {Nobody}
  /\ socket = [up |-> FALSE, user |-> Nobody]
  /\ member = {}
  /\ drops = 0
  /\ wire = << >>
  /\ hook = [h \in Hooks |-> "off"]
  /\ call = [h \in Hooks |-> Idle]
  /\ view = [h \in Hooks |-> Nothing]
  /\ fetch = [h \in Hooks |-> Idle]
  /\ failed = {}
  /\ late = {}
  /\ seen = Nothing

Tab(h) ==
  \/ Mount(h) \/ Authorize(h) \/ Join(h) \/ Unmount(h)
  \/ Answer(h) \/ Load(h) \/ FailLoad(h) \/ Poll(h)

Next ==
  \/ \E f \in Facts : Happen(f) \/ Broadcast(f)
  \/ (React \/ \E j \in jobs : Park(j)) /\ UNCHANGED liveVars
  \/ \E u \in Users, r \in rows : MarkRead(u, r) /\ UNCHANGED liveVars
  \/ \E h \in Hooks : Tab(h)
  \/ Deliver \/ Drop \/ Connect
  \/ \E u \in Users \union {Nobody} : ChangeUser(u)

Spec == Init /\ [][Next]_vars

-----------------------------------------------------------------------------
(* Types *)

NotificationRows == [fact : Facts, user : Users, read : BOOLEAN, copy : Nat]
Values == SUBSET (Facts \union NotificationRows)

Messages ==
  {Ignored}
    \union [kind : {"event"}, room : Rooms, fact : Facts]
    \union [kind : {"ack"}, hook : Hooks, value : Values]
    \union [kind : {"refusal"}, hook : Hooks]

FetchTypeOK ==
  /\ fetch \in [Hooks -> {Idle, Asked} \union [pc : {"answered"}, value : Values]]
  /\ \A h \in Hooks : Type(h) = "notification" /\ fetch[h].pc = "answered" =>
       fetch[h].value \subseteq NotificationRows

TypeOK ==
  /\ NoticesTypeOK
  /\ told \in [Facts -> SUBSET Facts]
  /\ user \in Users \union {Nobody}
  /\ socket \in [up : BOOLEAN, user : Users \union {Nobody}]
  /\ member \subseteq Rooms
  /\ drops \in 0 .. MaxDrops
  /\ wire \in Seq(Messages)
  /\ hook \in [Hooks -> {"off", "joining", "subscribed", "refused"}]
  /\ call \in [Hooks -> {Idle, Asked} \union [pc : {"read"}, value : Values]]
  /\ view \in [Hooks -> Values \union {Nothing}]
  /\ FetchTypeOK
  /\ failed \subseteq Hooks
  /\ late \subseteq Hooks
  /\ seen = Nothing \/ seen \subseteq Facts

-----------------------------------------------------------------------------
(* Nothing about the room of h is under way, and nothing was given up. *)
Settled(h) ==
  /\ \A f \in recorded : Subject(f) = RoomOf[h] =>
       << f, "realtime" >> \notin jobs \union parked
  /\ wire = << >>
  /\ socket.up
  /\ hook[h] = "subscribed"
  /\ fetch[h].pc = "idle"
  /\ h \notin failed

(* A watched auction shows the row as it is once everything about it has    *)
(* arrived: a change that fell between the snapshot and the join, or while *)
(* the socket was down, and a broadcast that came late, twice or out of     *)
(* order all end in a reload (RealtimeGateway.subscribe, useAuctionRealtime).*)
(* Only what arrives after the first load was answered, and before it is     *)
(* shown, asks for no load of its own: that page may stay behind.            *)
AuctionViewsSettle ==
  \A h \in Hooks :
    Type(h) = "auction" /\ Settled(h) /\ h \notin late => view[h] = Snapshot(RoomOf[h])

=============================================================================
