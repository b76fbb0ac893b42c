----------------------------- MODULE Live_proofs -----------------------------
(***************************************************************************)
(* Proofs about Notices and Live, for any facts, users, hooks and rooms,   *)
(* and every bound on drops, lost commits and messages on the wire; and    *)
(* about Access and Screens: what the routes, the rooms and the pages show *)
(* to whom, for any accounts, wares and purchases.  Last, about Seed: the   *)
(* script may be run again at any time, on any fixtures.                    *)
(***************************************************************************)
EXTENDS Live, Screens, Seed, SequenceTheorems, FiniteSetTheorems,
        NaturalsInduction, WellFoundedInduction, TLAPS

-----------------------------------------------------------------------------
(* Nobody is told twice *)

(* What a row or a mail leaves behind: the marker of its consumer, without  *)
(* which the handler runs; a mail without one was sent in vain.             *)
MarkersHold ==
  /\ mails \in [Facts -> Nat] /\ lost \in [Facts -> Nat]
  /\ \A r \in rows : << r.fact, "notifications" >> \in marked
  /\ \A f \in Facts : mails[f] = lost[f] + 1 => << f, "email" >> \in marked

ToldInv == MarkersHold /\ NobodyIsToldTwice

LEMMA ToldInit == Init => ToldInv
  BY DEF Init, NoticesInit, ToldInv, MarkersHold, NobodyIsToldTwice

(* The first notification of a fact is the only one. *)
LEMMA NotifyKeepsTold ==
  ASSUME ToldInv, NEW f \in Facts, Notify(f)
  PROVE  ToldInv'
  <1> USE DEF ToldInv
  <1>1. \A r \in rows : r.fact # f
    BY DEF Notify, Unmarked, MarkersHold
  <1>2. PICK row : row.fact = f /\ rows' = rows \union {row}
    BY DEF Notify
  <1>3. \A r, s \in rows' : r.fact = s.fact => r = s
    BY <1>1, <1>2 DEF NobodyIsToldTwice
  <1>4. \A r \in rows' : << r.fact, "notifications" >> \in marked'
    BY <1>2 DEF Notify, MarkersHold
  <1> QED
    BY <1>3, <1>4 DEF Notify, MarkersHold, NobodyIsToldTwice

(* A mail is sent while the marker is missing, so as many mails as lost     *)
(* commits are out; the one that commits leaves the marker.                 *)
LEMMA MailKeepsTold ==
  ASSUME ToldInv, NEW f \in Facts, Mail(f)
  PROVE  ToldInv'
  <1> USE DEF ToldInv
  <1>1. mails[f] <= lost[f] /\ mails[f] \in Nat /\ lost[f] \in Nat
    BY DEF Mail, Unmarked, MarkersHold, NobodyIsToldTwice
  <1>2. CASE Refused(f)
    BY <1>2 DEF Refused, Mail, MarkersHold, NobodyIsToldTwice
  <1>3. CASE Sent(f)
    <2>1. mails' \in [Facts -> Nat] /\ lost' = lost
      BY <1>1, <1>3 DEF Sent, MarkersHold
    <2>2. \A g \in Facts : mails'[g] <= lost'[g] + 1
      BY <1>1, <1>3 DEF Sent, MarkersHold, NobodyIsToldTwice
    <2>3. \A g \in Facts : mails'[g] = lost'[g] + 1 => << g, "email" >> \in marked'
      BY <1>3 DEF Sent, MarkersHold
    <2> QED
      BY <1>3, <2>1, <2>2, <2>3 DEF Sent, Mail, MarkersHold, NobodyIsToldTwice
  <1>4. CASE SentInVain(f)
    <2>1. mails' \in [Facts -> Nat] /\ lost' \in [Facts -> Nat]
      BY <1>1, <1>4 DEF SentInVain, MarkersHold
    <2>2. \A g \in Facts : mails'[g] <= lost'[g] + 1
      BY <1>1, <1>4 DEF SentInVain, MarkersHold, NobodyIsToldTwice
    <2>3. \A g \in Facts : mails'[g] = lost'[g] + 1 => << g, "email" >> \in marked'
      BY <1>1, <1>4 DEF SentInVain, MarkersHold
    <2> QED
      BY <1>4, <2>1, <2>2, <2>3 DEF SentInVain, Mail, MarkersHold, NobodyIsToldTwice
  <1> QED
    BY <1>2, <1>3, <1>4 DEF Mail

(* Reading a notification makes it another row about the same fact.        *)
LEMMA MarkReadKeepsTold ==
  ASSUME ToldInv, NEW u \in Users, NEW r \in rows, MarkRead(u, r)
  PROVE  ToldInv'
  <1> DEFINE read == [r EXCEPT !.read = TRUE]
  <1>1. read.fact = r.fact
    OBVIOUS
  <1>2. rows' = (rows \ {r}) \union {read}
    BY DEF MarkRead
  <1> HIDE DEF read
  <1>3. \A q, s \in rows' : q.fact = s.fact => q = s
    BY <1>1, <1>2 DEF ToldInv, NobodyIsToldTwice
  <1>4. \A q \in rows' : << q.fact, "notifications" >> \in marked
    BY <1>1, <1>2 DEF ToldInv, MarkersHold
  <1> QED
    BY <1>3, <1>4 DEF MarkRead, ToldInv, MarkersHold, NobodyIsToldTwice

(* The tab, the broadcasts and the queue leave markers, rows and mails alone. *)
LEMMA ToldStep == ToldInv /\ [Next]_vars => ToldInv'
  <1> SUFFICES ASSUME ToldInv, [Next]_vars PROVE ToldInv'
    OBVIOUS
  <1>same. ASSUME UNCHANGED << marked, rows, mails, lost >> PROVE ToldInv'
    BY <1>same DEF ToldInv, MarkersHold, NobodyIsToldTwice
  <1>1. ASSUME NEW f \in Facts, Happen(f) \/ Broadcast(f) PROVE ToldInv'
    BY <1>1, <1>same DEF Happen, Broadcast, Record
  <1>2. CASE React
    <2>1. ASSUME NEW f \in Facts, NEW q \in {"notifications", "email"}, Skip(f, q)
          PROVE  ToldInv'
      BY <2>1, <1>same DEF Skip
    <2> QED
      BY <1>2, <2>1, NotifyKeepsTold, MailKeepsTold DEF React
  <1>3. ASSUME NEW j \in jobs, Park(j) PROVE ToldInv'
    BY <1>3, <1>same DEF Park
  <1>4. ASSUME NEW u \in Users, NEW r \in rows, MarkRead(u, r) PROVE ToldInv'
    BY <1>4, MarkReadKeepsTold
  <1>5. ASSUME NEW h \in Hooks, Tab(h) PROVE ToldInv'
    BY <1>5, <1>same
    DEF Tab, Mount, Authorize, Join, Unmount, Answer, Load, FailLoad, Poll, noticeVars
  <1>6. CASE Deliver \/ Drop \/ Connect
    BY <1>6, <1>same DEF Deliver, Drop, Connect, noticeVars
  <1>7. ASSUME NEW u \in Users \union {Nobody}, ChangeUser(u) PROVE ToldInv'
    BY <1>7, <1>same DEF ChangeUser, noticeVars
  <1>8. CASE UNCHANGED vars
    BY <1>8, <1>same DEF vars, noticeVars
  <1> QED
    BY <1>1, <1>2, <1>3, <1>4, <1>5, <1>6, <1>7, <1>8 DEF Next

(* No redelivery, stall or lost commit makes a second notification of an   *)
(* event, or a mail more than the lost commits account for                 *)
(* (EventIdempotencyService.run).                                          *)
THEOREM OnceIsEnough == Spec => []NobodyIsToldTwice
  <1>1. Spec => []ToldInv
    BY ToldInit, ToldStep, PTL DEF Spec
  <1> QED
    BY <1>1, PTL DEF ToldInv

-----------------------------------------------------------------------------
(* Type correctness *)

LEMMA Sending ==
  ASSUME wire \in Seq(Messages), NEW m \in Messages
  PROVE  /\ Append(wire, m) \in Seq(Messages)
         /\ DOMAIN wire \subseteq DOMAIN Append(wire, m)
         /\ \A n \in DOMAIN wire : Append(wire, m)[n] = wire[n]
         /\ \A n \in DOMAIN Append(wire, m) :
              Append(wire, m)[n] = m \/ (n \in DOMAIN wire /\ Append(wire, m)[n] = wire[n])
  BY AppendProperties

LEMMA Joined ==
  ASSUME NEW s \in Seq(Messages), NEW t \in Seq(Messages)
  PROVE  /\ DOMAIN s \subseteq DOMAIN (s \o t)
         /\ \A n \in DOMAIN s : (s \o t)[n] = s[n]
         /\ \A n \in DOMAIN (s \o t) :
              \/ \E i \in DOMAIN s : (s \o t)[n] = s[i]
              \/ \E i \in DOMAIN t : (s \o t)[n] = t[i]
         /\ \A i \in DOMAIN t : \E n \in DOMAIN (s \o t) : (s \o t)[n] = t[i]
  <1>1. /\ Len(s \o t) = Len(s) + Len(t) /\ s \o t \in Seq(Messages)
        /\ \A i \in 1 .. Len(s) + Len(t) :
             (s \o t)[i] = IF i <= Len(s) THEN s[i] ELSE t[i - Len(s)]
    BY ConcatProperties
  <1>2. ASSUME NEW n \in DOMAIN (s \o t)
        PROVE  \/ \E i \in DOMAIN s : (s \o t)[n] = s[i]
               \/ \E i \in DOMAIN t : (s \o t)[n] = t[i]
    <2>1. CASE n <= Len(s)
      BY <1>1, <2>1
    <2>2. CASE ~(n <= Len(s))
      <3>1. n - Len(s) \in DOMAIN t /\ (s \o t)[n] = t[n - Len(s)]
        BY <1>1, <2>2
      <3> QED
        BY <3>1
    <2> QED
      BY <2>1, <2>2
  <1>3. ASSUME NEW i \in DOMAIN t PROVE \E n \in DOMAIN (s \o t) : (s \o t)[n] = t[i]
    <2>1. Len(s) + i \in DOMAIN (s \o t) /\ (s \o t)[Len(s) + i] = t[i]
      BY <1>1
    <2> QED
      BY <2>1
  <1>4. DOMAIN s \subseteq DOMAIN (s \o t) /\ \A n \in DOMAIN s : (s \o t)[n] = s[n]
    BY <1>1
  <1> QED
    BY <1>2, <1>3, <1>4

LEMMA EnvelopeIsOfMessages ==
  ASSUME TypeOK, NEW f \in Facts, NEW room
  PROVE  Envelope(f, room) \in Seq(Messages)
  <1>1. CASE room \in member
    <2>1. [kind |-> "event", room |-> room, fact |-> f] \in Messages
      BY <1>1 DEF Messages, TypeOK
    <2> QED
      BY <1>1, <2>1 DEF Envelope
  <1>2. CASE room \notin member
    BY <1>2 DEF Envelope
  <1> QED
    BY <1>1, <1>2

LEMMA EnvelopesAreMessages ==
  ASSUME TypeOK, NEW f \in Facts
  PROVE  Envelopes(f) \in Seq(Messages)
  <1>1. \A room : Envelope(f, room) \in Seq(Messages)
    BY EnvelopeIsOfMessages
  <1>2. CASE Pokes(f)
    BY <1>1, <1>2, ConcatProperties DEF Envelopes
  <1>3. CASE ~Pokes(f)
    <2>1. << >> \in Seq(Messages)
      OBVIOUS
    <2> QED
      BY <1>1, <1>3, <2>1, ConcatProperties DEF Envelopes
  <1> QED
    BY <1>2, <1>3

(* Cancelling the answers to a hook leaves as many messages. *)
LEMMA Ignoring ==
  ASSUME wire \in Seq(Messages), NEW h \in Hooks
  PROVE  [n \in DOMAIN wire |-> IF IsAnswerTo(h, wire[n]) THEN Ignored ELSE wire[n]]
           \in Seq(Messages)
  <1>1. Ignored \in Messages
    BY DEF Messages
  <1>2. \A n \in 1 .. Len(wire) :
          (IF IsAnswerTo(h, wire[n]) THEN Ignored ELSE wire[n]) \in Messages
    BY <1>1
  <1> QED
    BY <1>2, SeqDef

LEMMA SnapshotsAreValues ==
  ASSUME TypeOK, NEW room
  PROVE  /\ Snapshot(room) \in Values
         /\ room.type = "notification" => Snapshot(room) \subseteq NotificationRows
  <1>1. rows \subseteq NotificationRows
    BY DEF TypeOK, NoticesTypeOK, NotificationRows
  <1> QED
    BY <1>1 DEF Snapshot, NotificationsOf, Row, Values, TypeOK, NoticesTypeOK

LEMMA QueuesAreKnown ==
  ASSUME NEW f \in Facts
  PROVE  /\ Queues(f) \subseteq {"realtime", "notifications", "email"}
         /\ Subject(f).type = "auction" => "realtime" \in Queues(f)
  BY NoticesAssumption, LiveAssumption DEF Queues, Kind, Subject

(* A query that goes on, with what it may be answered, leaves the others. *)
LEMMA Fetching ==
  ASSUME FetchTypeOK, NEW h \in Hooks,
         NEW state \in {Idle, Asked} \union [pc : {"answered"}, value : Values],
         Type(h) = "notification" /\ state.pc = "answered"
           => state.value \subseteq NotificationRows,
         fetch' = [fetch EXCEPT ![h] = state]
  PROVE  FetchTypeOK'
  BY DEF FetchTypeOK, Type

LEMMA FetchesStay ==
  ASSUME FetchTypeOK, UNCHANGED fetch
  PROVE  FetchTypeOK'
  BY DEF FetchTypeOK, Type

(* What is not answered is no answer. *)
LEMMA NoAnswer ==
  /\ Idle.pc = "idle" /\ Asked.pc = "asked"
  /\ {Idle, Asked} \subseteq {Idle, Asked} \union [pc : {"answered"}, value : Values]
  BY DEF Idle, Asked

LEMMA TypeInit == Init => TypeOK
  <1> SUFFICES ASSUME Init PROVE TypeOK
    OBVIOUS
  <1>1. NoticesTypeOK
    BY DEF Init, NoticesInit, NoticesTypeOK
  <1>2. << >> \in Seq(Messages)
    OBVIOUS
  <1>3. FetchTypeOK
    BY NoAnswer DEF Init, FetchTypeOK
  <1> QED
    BY <1>1, <1>2, <1>3, LiveAssumption DEF Init, TypeOK, Values

(* The consumers: a handler tells only whom its fact names. *)
LEMMA NoticesTypes ==
  ASSUME TypeOK, ToldInv, UNCHANGED liveVars,
         \/ React
         \/ \E j \in jobs : Park(j)
         \/ \E u \in Users, r \in rows : MarkRead(u, r)
  PROVE  TypeOK'
  <1>live. NoticesTypeOK' => TypeOK'
    BY FetchesStay DEF TypeOK, liveVars, tabVars, Rooms
  <1> SUFFICES NoticesTypeOK'
    BY <1>live
  <1>0. NoticesTypeOK
    BY DEF TypeOK
  <1>1. ASSUME NEW f \in Facts, NEW q \in {"notifications", "email"}, Skip(f, q)
        PROVE  NoticesTypeOK'
    BY <1>0, <1>1 DEF Skip, NoticesTypeOK
  <1>2. ASSUME NEW f \in Facts, Notify(f) PROVE NoticesTypeOK'
    <2>1. f \in recorded /\ jobs' \subseteq jobs
      BY <1>0, <1>2 DEF Notify, NoticesTypeOK, Done
    <2>2. Fact[f].user \in Users
      BY <1>2, NoticesAssumption DEF Notify, Notifies, OrderNews, RefundNews, Win, Kind
    <2>3. {r \in rows : r.fact = f} = {}
      BY <1>2 DEF Notify, Unmarked, ToldInv, MarkersHold
    <2>4. Cardinality({r \in rows : r.fact = f}) = 0
      BY <2>3, FS_EmptySet, Zenon
    <2> DEFINE row == [fact |-> f, user |-> Fact[f].user, read |-> FALSE,
                       copy |-> Cardinality({r \in rows : r.fact = f})]
    <2>5. row \in [fact : recorded, user : Users, read : BOOLEAN, copy : Nat]
      BY <2>1, <2>2, <2>4
    <2>6. rows' = rows \union {row}
      BY <1>2 DEF Notify
    <2> HIDE DEF row
    <2>7. rows' \subseteq [fact : recorded, user : Users, read : BOOLEAN, copy : Nat]
      BY <1>0, <2>5, <2>6 DEF NoticesTypeOK
    <2> QED
      BY <1>0, <1>2, <2>1, <2>7 DEF Notify, NoticesTypeOK
  <1>3. ASSUME NEW f \in Facts, Mail(f) PROVE NoticesTypeOK'
    <2>1. f \in recorded
      BY <1>0, <1>3 DEF Mail, NoticesTypeOK
    <2>2. mails' \in [Facts -> Nat] /\ lost' \in [Facts -> Nat]
      BY <1>0, <1>3 DEF Mail, Refused, Sent, SentInVain, NoticesTypeOK
    <2>3. jobs' \subseteq jobs /\ marked' \subseteq marked \union {<< f, "email" >>}
      BY <1>3 DEF Mail, Refused, Sent, SentInVain, Done
    <2>4. marked' \subseteq recorded \X {"notifications", "email"}
      BY <1>0, <2>1, <2>3 DEF NoticesTypeOK
    <2> QED
      BY <1>0, <1>3, <2>2, <2>3, <2>4 DEF Mail, NoticesTypeOK
  <1>4. ASSUME NEW j \in jobs, Park(j) PROVE NoticesTypeOK'
    BY <1>0, <1>4 DEF Park, NoticesTypeOK
  <1>5. ASSUME NEW u \in Users, NEW r \in rows, MarkRead(u, r) PROVE NoticesTypeOK'
    <2> DEFINE read == [r EXCEPT !.read = TRUE]
    <2>1. r \in [fact : recorded, user : Users, read : BOOLEAN, copy : Nat]
      BY <1>0 DEF NoticesTypeOK
    <2>2. read \in [fact : recorded, user : Users, read : BOOLEAN, copy : Nat]
      BY <2>1
    <2>3. rows' = (rows \ {r}) \union {read}
      BY <1>5 DEF MarkRead
    <2> HIDE DEF read
    <2>4. rows' \subseteq [fact : recorded, user : Users, read : BOOLEAN, copy : Nat]
      BY <1>0, <2>2, <2>3 DEF NoticesTypeOK
    <2> QED
      BY <1>0, <1>5, <2>4 DEF MarkRead, NoticesTypeOK
  <1> QED
    BY <1>1, <1>2, <1>3, <1>4, <1>5 DEF React

(* A fact that happens is recorded with its jobs, and fixes its payload. *)
LEMMA HappenTypes ==
  ASSUME TypeOK, NEW f \in Facts, Happen(f)
  PROVE  TypeOK'
  <1>1. NoticesTypeOK'
    <2>1. jobs' = jobs \union ({f} \X Queues(f)) /\ recorded' = recorded \union {f}
      BY DEF Happen, Record
    <2>2. jobs' \subseteq recorded' \X {"realtime", "notifications", "email"}
      BY <2>1, QueuesAreKnown DEF TypeOK, NoticesTypeOK
    <2>3. rows' = rows /\ parked' = parked /\ marked' = marked /\ mails' = mails /\ lost' = lost
      BY DEF Happen, Record
    <2>4. rows' \subseteq [fact : recorded', user : Users, read : BOOLEAN, copy : Nat]
      BY <2>1, <2>3 DEF TypeOK, NoticesTypeOK
    <2> QED
      BY <2>1, <2>2, <2>3, <2>4 DEF TypeOK, NoticesTypeOK
  <1>2. told' \in [Facts -> SUBSET Facts]
    BY DEF Happen, TypeOK, NoticesTypeOK, Row
  <1> QED
    BY <1>1, <1>2, FetchesStay DEF Happen, TypeOK, tabVars, Rooms

LEMMA BroadcastTypes ==
  ASSUME TypeOK, NEW f \in Facts, Broadcast(f)
  PROVE  TypeOK'
  <1>1. wire' \in Seq(Messages)
    BY EnvelopesAreMessages, ConcatProperties DEF Broadcast, TypeOK
  <1>2. jobs' \subseteq jobs
    BY DEF Broadcast, Done
  <1>3. NoticesTypeOK'
    BY <1>2 DEF Broadcast, TypeOK, NoticesTypeOK
  <1> QED
    BY <1>1, <1>3, FetchesStay DEF Broadcast, TypeOK, Rooms

(* The steps of one hook. *)
(* A mounted hook asks for the row, or nothing changes for its query. *)
LEMMA MountTypes ==
  ASSUME TypeOK, NEW h \in Hooks, LoadsOnMount(h) \/ UNCHANGED << fetch, failed, late >>
  PROVE  /\ FetchTypeOK' /\ failed' \subseteq Hooks /\ late' \subseteq Hooks
         /\ \A g \in Hooks \ {h} : /\ fetch'[g] = fetch[g]
                                  /\ (g \in failed => g \in failed')
                                  /\ (g \in late => g \in late')
  <1>1. CASE UNCHANGED << fetch, failed, late >>
    BY <1>1, FetchesStay DEF TypeOK
  <1>2. CASE /\ fetch' = [fetch EXCEPT ![h] = Asked]
             /\ failed' = failed \ {h} /\ late' = late \ {h}
    <2>1. FetchTypeOK'
      BY <1>2, Fetching, NoAnswer DEF TypeOK
    <2> QED
      BY <1>2, <2>1 DEF TypeOK, FetchTypeOK
  <1> QED
    BY <1>1, <1>2 DEF LoadsOnMount

(* An invalidated query asks, or is joined before its data came. *)
LEMMA InvalidateTypes ==
  ASSUME TypeOK, NEW h \in Hooks, Invalidate(h)
  PROVE  /\ FetchTypeOK' /\ late' \subseteq Hooks
         /\ \A g \in Hooks \ {h} : fetch'[g] = fetch[g] /\ (g \in late => g \in late')
         /\ \/ fetch'[h] = Asked
            \/ fetch'[h] = fetch[h] /\ fetch[h].pc = "answered"
               /\ (fetch[h].value = Snapshot(RoomOf[h]) \/ h \in late')
  <1>1. late' \subseteq Hooks /\ \A g \in Hooks \ {h} : g \in late => g \in late'
    BY DEF Invalidate, TypeOK
  <1>2. CASE JoinsLoad(h)
    <2>1. fetch' = fetch /\ (IsBehind(h) => h \in late')
      BY <1>2 DEF Invalidate
    <2>2. FetchTypeOK' /\ fetch[h] \in {Idle, Asked} \union [pc : {"answered"}, value : Values]
      BY <2>1, FetchesStay DEF TypeOK, FetchTypeOK
    <2>3. fetch[h] = Asked \/ fetch[h].pc = "answered"
      BY <1>2, <2>2, NoAnswer DEF JoinsLoad
    <2> QED
      BY <1>1, <2>1, <2>2, <2>3 DEF IsBehind
  <1>3. CASE ~JoinsLoad(h)
    <2>1. fetch' = [fetch EXCEPT ![h] = Asked]
      BY <1>3 DEF Invalidate
    <2>2. FetchTypeOK'
      BY <2>1, Fetching, NoAnswer DEF TypeOK
    <2> QED
      BY <1>1, <2>1, <2>2 DEF TypeOK, FetchTypeOK
  <1> QED
    BY <1>2, <1>3

LEMMA TabTypes ==
  ASSUME TypeOK, NEW h \in Hooks, Tab(h)
  PROVE  TypeOK'
  <1>notices. ASSUME UNCHANGED noticeVars PROVE NoticesTypeOK'
    BY <1>notices DEF TypeOK, NoticesTypeOK, noticeVars
  <1>wire. wire \in Seq(Messages)
    BY DEF TypeOK
  <1>1. CASE Mount(h)
    <2>1. FetchTypeOK' /\ failed' \subseteq Hooks /\ late' \subseteq Hooks
      BY <1>1, MountTypes DEF Mount
    <2>2. call' \in [Hooks -> {Idle, Asked} \union [pc : {"read"}, value : Values]]
      BY <1>1 DEF Mount, TypeOK
    <2>3. hook' \in [Hooks -> {"off", "joining", "subscribed", "refused"}]
      BY <1>1 DEF Mount, TypeOK
    <2> QED
      BY <1>1, <1>notices, <2>1, <2>2, <2>3 DEF Mount, TypeOK, Rooms
  <1>2. CASE Authorize(h)
    <2>1. Snapshot(RoomOf[h]) \in Values
      BY SnapshotsAreValues
    <2>2. call' \in [Hooks -> {Idle, Asked} \union [pc : {"read"}, value : Values]]
      BY <1>2, <2>1 DEF Authorize, TypeOK
    <2>3. [kind |-> "refusal", hook |-> h] \in Messages
      BY DEF Messages
    <2>4. wire' \in Seq(Messages)
      BY <1>2, <1>wire, <2>3, Sending DEF Authorize
    <2> QED
      BY <1>2, <1>notices, <2>2, <2>4, FetchesStay DEF Authorize, TypeOK, Rooms
  <1>3. CASE Join(h)
    <2>1. call[h].value \in Values
      BY <1>3 DEF Join, TypeOK, Idle, Asked
    <2>2. [kind |-> "ack", hook |-> h, value |-> call[h].value] \in Messages
      BY <2>1 DEF Messages
    <2>3. wire' \in Seq(Messages)
      BY <1>3, <1>wire, <2>2, Sending DEF Join
    <2> QED
      BY <1>3, <1>notices, <2>3, FetchesStay DEF Join, TypeOK, Rooms
  <1>4. CASE Unmount(h)
    <2>1. wire' \in Seq(Messages)
      BY <1>4, <1>wire, Ignoring DEF Unmount
    <2>2. member' \subseteq Rooms
      BY <1>4 DEF Unmount, TypeOK
    <2> QED
      BY <1>4, <1>notices, <2>1, <2>2, FetchesStay DEF Unmount, TypeOK, Rooms
  <1>5. CASE Answer(h)
    <2>1. /\ Snapshot(RoomOf[h]) \in Values
          /\ Type(h) = "notification" => Snapshot(RoomOf[h]) \subseteq NotificationRows
      BY SnapshotsAreValues DEF Type
    <2>2. FetchTypeOK'
      BY <1>5, <2>1, Fetching DEF Answer, TypeOK
    <2> QED
      BY <1>5, <1>notices, <2>2 DEF Answer, TypeOK, Rooms
  <1>6. CASE Load(h)
    <2>1. fetch[h].value \in Values
      BY <1>6, NoAnswer DEF Load, TypeOK, FetchTypeOK
    <2>2. view' \in [Hooks -> Values \union {Nothing}]
      BY <1>6, <2>1 DEF Load, TypeOK
    <2>3. seen' = Nothing \/ seen' \subseteq Facts
      <3>1. CASE Type(h) # "notification"
        BY <1>6, <3>1 DEF Load, Toasted, TypeOK
      <3>2. CASE Type(h) = "notification"
        <4>1. \A r \in fetch[h].value : r.fact \in Facts
          BY <1>6, <3>2 DEF Load, TypeOK, FetchTypeOK, NotificationRows
        <4> QED
          BY <1>6, <3>2, <4>1 DEF Load, Toasted, TypeOK
      <3> QED
        BY <3>1, <3>2
    <2>4. FetchTypeOK'
      BY <1>6, Fetching, NoAnswer DEF Load, TypeOK
    <2> QED
      BY <1>6, <1>notices, <2>2, <2>3, <2>4 DEF Load, TypeOK, Rooms
  <1>7. CASE FailLoad(h)
    <2>1. FetchTypeOK'
      BY <1>7, Fetching, NoAnswer DEF FailLoad, TypeOK
    <2> QED
      BY <1>7, <1>notices, <2>1 DEF FailLoad, TypeOK, Rooms
  <1>8. CASE Poll(h)
    <2>1. FetchTypeOK' /\ late' \subseteq Hooks
      BY <1>8, InvalidateTypes DEF Poll
    <2> QED
      BY <1>8, <1>notices, <2>1 DEF Poll, TypeOK, Rooms
  <1> QED
    BY <1>1, <1>2, <1>3, <1>4, <1>5, <1>6, <1>7, <1>8 DEF Tab

(* What arrives is one of the messages. *)
LEMMA Arrival ==
  ASSUME TypeOK, wire # << >>
  PROVE  /\ Head(wire) \in Messages
         /\ Head(wire) = wire[1] /\ 1 \in DOMAIN wire
         /\ Tail(wire) \in Seq(Messages)
         /\ \A n \in DOMAIN wire : n = 1 \/ \E i \in DOMAIN Tail(wire) : Tail(wire)[i] = wire[n]
         /\ \A i \in DOMAIN Tail(wire) : \E n \in DOMAIN wire : Tail(wire)[i] = wire[n]
  <1>1. wire \in Seq(Messages)
    BY DEF TypeOK
  <1>2. /\ Head(wire) \in Messages /\ Tail(wire) \in Seq(Messages)
        /\ Len(Tail(wire)) = Len(wire) - 1
        /\ \A i \in 1 .. Len(Tail(wire)) : Tail(wire)[i] = wire[i + 1]
    BY <1>1, HeadTailProperties
  <1>3. Head(wire) = wire[1] /\ 1 \in DOMAIN wire
    BY <1>1
  <1>4. ASSUME NEW n \in DOMAIN wire, n # 1
        PROVE  \E i \in DOMAIN Tail(wire) : Tail(wire)[i] = wire[n]
    <2>1. n - 1 \in DOMAIN Tail(wire) /\ Tail(wire)[n - 1] = wire[n]
      BY <1>1, <1>2, <1>4
    <2> QED
      BY <2>1
  <1>5. ASSUME NEW i \in DOMAIN Tail(wire)
        PROVE  \E n \in DOMAIN wire : Tail(wire)[i] = wire[n]
    <2>1. i + 1 \in DOMAIN wire /\ Tail(wire)[i] = wire[i + 1]
      BY <1>1, <1>2
    <2> QED
      BY <2>1
  <1> QED
    BY <1>2, <1>3, <1>4, <1>5

LEMMA MessageShapes ==
  ASSUME NEW m \in Messages
  PROVE  /\ m.kind \in {"ignored", "event", "ack", "refusal"}
         /\ m.kind = "event" => m.room \in Rooms /\ m.fact \in Facts
         /\ m.kind = "ack" => m.hook \in Hooks /\ m.value \in Values
         /\ m.kind = "refusal" => m.hook \in Hooks
         /\ m.kind = "ignored" => m = Ignored
  BY DEF Messages, Ignored

(* What a message does to the hook it is for. *)
LEMMA ReceiveTypes ==
  ASSUME TypeOK, NEW h \in Hooks, NEW value \in Values, NEW message, Receive(h, value, message)
  PROVE  /\ view' \in [Hooks -> Values \union {Nothing}]
         /\ FetchTypeOK' /\ late' \subseteq Hooks
         /\ \A g \in Hooks \ {h} : /\ view'[g] = view[g] /\ fetch'[g] = fetch[g]
                                  /\ (g \in late => g \in late')
         /\ Type(h) = "auction" =>
              \/ fetch'[h] = Asked
              \/ fetch'[h] = fetch[h] /\ fetch[h].pc = "answered"
                 /\ (fetch[h].value = Snapshot(RoomOf[h]) \/ h \in late')
  <1>1. /\ view' \in [Hooks -> Values \union {Nothing}]
        /\ \A g \in Hooks \ {h} : view'[g] = view[g]
    BY DEF Receive, Patched, TypeOK
  <1>2. CASE RefetchesOn(h, message)
    BY <1>1, <1>2, InvalidateTypes DEF Receive
  <1>3. CASE ~RefetchesOn(h, message)
    <2>1. fetch' = fetch /\ late' = late
      BY <1>3 DEF Receive
    <2> QED
      BY <1>1, <1>3, <2>1, FetchesStay DEF TypeOK, RefetchesOn
  <1> QED
    BY <1>2, <1>3

LEMMA DeliverTypes ==
  ASSUME TypeOK, Deliver
  PROVE  TypeOK'
  <1> DEFINE m == Head(wire)
  <1>1. m \in Messages /\ wire' \in Seq(Messages)
    BY Arrival DEF Deliver
  <1>2. \/ ReceiveAck(m) \/ ReceiveRefusal(m) \/ ReceiveEvent(m) \/ ReceiveNothing(m)
    BY DEF Deliver
  <1>3. NoticesTypeOK'
    BY DEF Deliver, TypeOK, NoticesTypeOK, noticeVars
  <1>rest. ASSUME hook' \in [Hooks -> {"off", "joining", "subscribed", "refused"}],
                  view' \in [Hooks -> Values \union {Nothing}], FetchTypeOK',
                  late' \subseteq Hooks
           PROVE  TypeOK'
    BY <1>1, <1>3, <1>rest DEF Deliver, TypeOK, Rooms
  <1> HIDE DEF m
  <1>4. CASE ReceiveAck(m)
    <2>1. m.hook \in Hooks /\ m.value \in Values
      BY <1>1, <1>4, MessageShapes DEF ReceiveAck
    <2>2. hook' \in [Hooks -> {"off", "joining", "subscribed", "refused"}]
      BY <1>4, <2>1 DEF ReceiveAck, TypeOK
    <2> QED
      BY <1>4, <1>rest, <2>1, <2>2, ReceiveTypes DEF ReceiveAck
  <1>5. CASE ReceiveRefusal(m)
    <2>1. m.hook \in Hooks
      BY <1>1, <1>5, MessageShapes DEF ReceiveRefusal
    <2>2. hook' \in [Hooks -> {"off", "joining", "subscribed", "refused"}]
      BY <1>5, <2>1 DEF ReceiveRefusal, TypeOK
    <2> QED
      BY <1>5, <1>rest, <2>2, FetchesStay DEF ReceiveRefusal, TypeOK
  <1>6. CASE ReceiveEvent(m)
    <2>1. told[m.fact] \in Values
      BY <1>1, <1>6, MessageShapes DEF ReceiveEvent, TypeOK, Values
    <2>2. hook' = hook
      BY <1>6 DEF ReceiveEvent
    <2>3. /\ view' \in [Hooks -> Values \union {Nothing}]
          /\ FetchTypeOK' /\ late' \subseteq Hooks
      <3>1. CASE UNCHANGED << view, fetch, late >>
        BY <3>1, FetchesStay DEF TypeOK
      <3>2. ASSUME NEW h \in Hooks, Receive(h, told[m.fact], "event")
            PROVE  /\ view' \in [Hooks -> Values \union {Nothing}]
                   /\ FetchTypeOK' /\ late' \subseteq Hooks
        BY <2>1, <3>2, ReceiveTypes
      <3> QED
        BY <1>6, <3>1, <3>2 DEF ReceiveEvent
    <2> QED
      BY <1>rest, <2>2, <2>3 DEF TypeOK
  <1>7. CASE ReceiveNothing(m)
    BY <1>7, <1>rest, FetchesStay DEF ReceiveNothing, TypeOK
  <1> QED
    BY <1>2, <1>4, <1>5, <1>6, <1>7

LEMMA ConnectionTypes ==
  ASSUME TypeOK, \/ Drop \/ Connect \/ \E u \in Users \union {Nobody} : ChangeUser(u)
  PROVE  TypeOK'
  <1>notices. ASSUME UNCHANGED noticeVars PROVE NoticesTypeOK'
    BY <1>notices DEF TypeOK, NoticesTypeOK, noticeVars
  <1>wire. << >> \in Seq(Messages)
    OBVIOUS
  <1>1. CASE Drop
    <2>1. drops' \in 0 .. MaxDrops
      BY <1>1, LiveAssumption DEF Drop, TypeOK
    <2> QED
      BY <1>1, <1>notices, <1>wire, <2>1, FetchesStay DEF Drop, Disconnected, TypeOK, Rooms
  <1>2. CASE Connect
    <2>1. hook' \in [Hooks -> {"off", "joining", "subscribed", "refused"}]
      BY <1>2 DEF Connect, TypeOK
    <2>2. call' \in [Hooks -> {Idle, Asked} \union [pc : {"read"}, value : Values]]
      BY <1>2 DEF Connect, TypeOK
    <2> QED
      BY <1>2, <1>notices, <2>1, <2>2, FetchesStay DEF Connect, TypeOK, Rooms
  <1>3. ASSUME NEW u \in Users \union {Nobody}, ChangeUser(u) PROVE TypeOK'
    <2>1. drops' \in 0 .. MaxDrops
      BY <1>3, LiveAssumption DEF ChangeUser, TypeOK
    <2>2. FetchTypeOK'
      BY <1>3, NoAnswer DEF ChangeUser, FetchTypeOK
    <2>3. hook' \in [Hooks -> {"off", "joining", "subscribed", "refused"}]
      BY <1>3 DEF ChangeUser
    <2>4. call' \in [Hooks -> {Idle, Asked} \union [pc : {"read"}, value : Values]]
      BY <1>3 DEF ChangeUser
    <2> QED
      BY <1>3, <1>notices, <1>wire, <2>1, <2>2, <2>3, <2>4
      DEF ChangeUser, Disconnected, TypeOK, Rooms
  <1> QED
    BY <1>1, <1>2, <1>3

LEMMA TypeStep == TypeOK /\ ToldInv /\ [Next]_vars => TypeOK'
  <1> SUFFICES ASSUME TypeOK, ToldInv, [Next]_vars PROVE TypeOK'
    OBVIOUS
  <1>1. CASE UNCHANGED vars
    BY <1>1, FetchesStay
    DEF vars, noticeVars, liveVars, tabVars, TypeOK, NoticesTypeOK, Rooms
  <1> QED
    BY <1>1, HappenTypes, BroadcastTypes, NoticesTypes, TabTypes, DeliverTypes,
       ConnectionTypes
    DEF Next

(* Every row, message and hook keeps to its columns and states. *)
THEOREM TypeCorrect == Spec => []TypeOK
  <1>1. Spec => [](TypeOK /\ ToldInv)
    BY TypeInit, TypeStep, ToldInit, ToldStep, PTL DEF Spec
  <1> QED
    BY <1>1, PTL

-----------------------------------------------------------------------------
(* A watched auction settles on the row as it is *)

(* A hook whose ack is on the wire or was received has the tab in its room *)
(* for as long as the connection lives.                                    *)
MembersHold ==
  /\ \A n \in DOMAIN wire : wire[n].kind = "ack" => RoomOf[wire[n].hook] \in member
  /\ \A h \in Hooks : hook[h] = "subscribed" /\ socket.up => RoomOf[h] \in member

Concerns(m, h) ==
  \/ m.kind = "event" /\ m.room = RoomOf[h]
  \/ m.kind = "ack" /\ m.hook = h

(* Something about the room of h is under way to the tab, or was given up. *)
Awaits(h) ==
  \/ \E f \in recorded : Subject(f) = RoomOf[h] /\ << f, "realtime" >> \in jobs \union parked
  \/ \E n \in DOMAIN wire : Concerns(wire[n], h)

(* The row changes only with a fact, whose broadcast is then under way; what *)
(* arrives makes the hook ask again, unless its first load is on its way; an *)
(* answer is the row as it was then.                                        *)
Fresh(h) ==
  \/ Awaits(h)
  \/ h \in late
  \/ fetch[h] = Asked
  \/ fetch[h].pc = "answered" /\ fetch[h].value = Row(RoomOf[h])
  \/ fetch[h].pc = "idle" /\ (h \in failed \/ view[h] = Row(RoomOf[h]))

Watches(h) == Type(h) = "auction" /\ hook[h] = "subscribed" /\ socket.up

FreshInv == \A h \in Hooks : Watches(h) => Fresh(h)

LiveInv == TypeOK /\ MembersHold /\ FreshInv

LEMMA MembersInit == Init => MembersHold /\ FreshInv
  BY DEF Init, MembersHold, FreshInv, Watches

(* The messages that come to the wire are answers of Join, whose room the   *)
(* tab is then in, and others, about which MembersHold says nothing.        *)
LEMMA MembersStep == TypeOK /\ MembersHold /\ [Next]_vars => MembersHold'
  <1> SUFFICES ASSUME TypeOK, MembersHold, [Next]_vars PROVE MembersHold'
    OBVIOUS
  <1>wire. wire \in Seq(Messages)
    BY DEF TypeOK
  <1>same. ASSUME UNCHANGED << wire, member, hook, socket >> PROVE MembersHold'
    BY <1>same DEF MembersHold
  <1>1. ASSUME NEW f \in Facts, Happen(f) PROVE MembersHold'
    BY <1>1, <1>same DEF Happen, tabVars
  <1>2. ASSUME NEW f \in Facts, Broadcast(f) PROVE MembersHold'
    <2>1. Envelopes(f) \in Seq(Messages)
      BY EnvelopesAreMessages
    <2>2. \A n \in DOMAIN Envelopes(f) : Envelopes(f)[n].kind = "event"
      BY DEF Envelopes, Envelope
    <2>3. \A n \in DOMAIN wire' :
            wire'[n].kind = "event" \/ \E i \in DOMAIN wire : wire'[n] = wire[i]
      BY <1>2, <1>wire, <2>1, <2>2, Joined DEF Broadcast
    <2> QED
      BY <1>2, <2>3 DEF Broadcast, MembersHold
  <1>3. ASSUME UNCHANGED liveVars PROVE MembersHold'
    BY <1>3, <1>same DEF liveVars, tabVars
  <1>4. ASSUME NEW h \in Hooks, Mount(h) PROVE MembersHold'
    BY <1>4 DEF Mount, MembersHold, TypeOK
  <1>5. ASSUME NEW h \in Hooks, Authorize(h) PROVE MembersHold'
    <2> DEFINE refusal == [kind |-> "refusal", hook |-> h]
    <2>1. refusal \in Messages /\ refusal.kind = "refusal"
      BY DEF Messages
    <2>2. wire' = wire \/ wire' = Append(wire, refusal)
      BY <1>5 DEF Authorize
    <2> HIDE DEF refusal
    <2>3. \A n \in DOMAIN wire' :
            wire'[n].kind = "refusal" \/ (n \in DOMAIN wire /\ wire'[n] = wire[n])
      BY <1>wire, <2>1, <2>2, Sending
    <2> QED
      BY <1>5, <2>3 DEF Authorize, MembersHold
  <1>6. ASSUME NEW h \in Hooks, Join(h) PROVE MembersHold'
    <2> DEFINE ack == [kind |-> "ack", hook |-> h, value |-> call[h].value]
    <2>1. call[h].value \in Values
      BY <1>6, NoAnswer DEF Join, TypeOK
    <2>2. ack \in Messages /\ ack.hook = h
      BY <2>1 DEF Messages
    <2>3. wire' = Append(wire, ack)
      BY <1>6 DEF Join
    <2> HIDE DEF ack
    <2>4. \A n \in DOMAIN wire' : wire'[n] = ack \/ (n \in DOMAIN wire /\ wire'[n] = wire[n])
      BY <1>wire, <2>2, <2>3, Sending
    <2> QED
      BY <1>6, <2>2, <2>4 DEF Join, MembersHold
  <1>7. ASSUME NEW h \in Hooks, Unmount(h) PROVE MembersHold'
    <2>1. ASSUME NEW n \in DOMAIN wire', wire'[n].kind = "ack"
          PROVE  RoomOf[wire'[n].hook] \in member'
      <3>1. n \in DOMAIN wire /\ wire'[n] = wire[n] /\ ~IsAnswerTo(h, wire[n])
        BY <1>7, <2>1 DEF Unmount, Ignored
      <3>2. wire[n] \in Messages
        BY <1>wire, <3>1
      <3>3. wire[n].hook \in Hooks /\ wire[n].hook # h
        BY <2>1, <3>1, <3>2, MessageShapes DEF IsAnswerTo
      <3>4. RoomOf[wire[n].hook] \in member /\ RoomOf[wire[n].hook] # RoomOf[h]
        BY <2>1, <3>1, <3>3, LiveAssumption DEF MembersHold
      <3> QED
        BY <1>7, <3>1, <3>4 DEF Unmount
    <2>2. ASSUME NEW g \in Hooks, hook'[g] = "subscribed", socket'.up
          PROVE  RoomOf[g] \in member'
      <3>1. g # h /\ hook[g] = "subscribed" /\ socket.up
        BY <1>7, <2>2 DEF Unmount, TypeOK
      <3>2. RoomOf[g] \in member /\ RoomOf[g] # RoomOf[h]
        BY <3>1, LiveAssumption DEF MembersHold
      <3> QED
        BY <1>7, <3>2 DEF Unmount
    <2> QED
      BY <2>1, <2>2 DEF MembersHold
  <1>8. ASSUME NEW h \in Hooks, \/ Answer(h) \/ Load(h) \/ FailLoad(h) \/ Poll(h)
        PROVE  MembersHold'
    BY <1>8, <1>same DEF Answer, Load, FailLoad, Poll
  <1>9. CASE Deliver
    <2> DEFINE m == Head(wire)
    <2>1. m \in Messages /\ \E n \in DOMAIN wire : m = wire[n]
      BY <1>9, Arrival DEF Deliver
    <2>2. \A i \in DOMAIN wire' : \E n \in DOMAIN wire : wire'[i] = wire[n]
      BY <1>9, Arrival DEF Deliver
    <2>3. \/ ReceiveAck(m) \/ ReceiveRefusal(m) \/ ReceiveEvent(m) \/ ReceiveNothing(m)
      BY <1>9 DEF Deliver
    <2> HIDE DEF m
    <2>4. member' = member /\ socket' = socket
      BY <1>9 DEF Deliver
    <2>5. ASSUME NEW h \in Hooks, hook'[h] = "subscribed", socket'.up
          PROVE  RoomOf[h] \in member'
      <3>1. CASE hook[h] = "subscribed"
        BY <2>4, <2>5, <3>1 DEF MembersHold
      <3>2. CASE hook[h] # "subscribed"
        <4>1. ReceiveAck(m) /\ m.hook = h
          BY <2>1, <2>3, <2>5, <3>2, MessageShapes
          DEF ReceiveAck, ReceiveRefusal, ReceiveEvent, ReceiveNothing, TypeOK
        <4> QED
          BY <2>1, <2>4, <4>1 DEF ReceiveAck, MembersHold
      <3> QED
        BY <3>1, <3>2
    <2>6. \A i \in DOMAIN wire' : wire'[i].kind = "ack" => RoomOf[wire'[i].hook] \in member'
      BY <2>2, <2>4 DEF MembersHold
    <2> QED
      BY <2>5, <2>6 DEF MembersHold
  <1>10. CASE Drop \/ Connect
    BY <1>10 DEF Drop, Connect, Disconnected, MembersHold, Rejoins, TypeOK
  <1>11. ASSUME NEW u \in Users \union {Nobody}, ChangeUser(u) PROVE MembersHold'
    BY <1>11 DEF ChangeUser, Disconnected, MembersHold, TypeOK
  <1>12. CASE UNCHANGED vars
    BY <1>12, <1>3 DEF vars
  <1> QED
    BY <1>1, <1>2, <1>3, <1>4, <1>5, <1>6, <1>7, <1>8, <1>9, <1>10, <1>11, <1>12
    DEF Next, Tab

(* What is under way stays under way: an event's jobs, unless they become    *)
(* messages, and the messages, unless one is received.                      *)
JobsStay == \A f \in recorded : << f, "realtime" >> \in jobs \union parked =>
              f \in recorded' /\ << f, "realtime" >> \in jobs' \union parked'
MessagesStay(h) == \A n \in DOMAIN wire : Concerns(wire[n], h) =>
                     \E i \in DOMAIN wire' : Concerns(wire'[i], h)

LEMMA FreshKept ==
  ASSUME FreshInv, NEW h \in Hooks, Watches(h), JobsStay, MessagesStay(h),
         Row(RoomOf[h])' = Row(RoomOf[h]),
         view'[h] = view[h], fetch'[h] = fetch[h], h \in failed => h \in failed',
         h \in late => h \in late'
  PROVE  Fresh(h)'
  <1>1. Fresh(h)
    BY DEF FreshInv
  <1>2. Awaits(h) => Awaits(h)'
    BY DEF Awaits, JobsStay, MessagesStay, Concerns
  <1> QED
    BY <1>1, <1>2 DEF Fresh

LEMMA Unsent ==
  ASSUME NEW h \in Hooks, UNCHANGED wire
  PROVE  MessagesStay(h)
  BY DEF MessagesStay

LEMMA NoNews ==
  ASSUME UNCHANGED noticeVars, NEW h \in Hooks
  PROVE  JobsStay /\ Row(RoomOf[h])' = Row(RoomOf[h])
  BY DEF noticeVars, JobsStay, Row

(* A fact about the room has its broadcast under way; any other leaves the  *)
(* row as it is.                                                            *)
LEMMA HappenFresh ==
  ASSUME TypeOK, FreshInv, NEW f \in Facts, Happen(f)
  PROVE  FreshInv'
  <1> SUFFICES ASSUME NEW h \in Hooks, Watches(h)' PROVE Fresh(h)'
    BY DEF FreshInv
  <1>1. Watches(h) /\ UNCHANGED tabVars
    BY DEF Happen, Watches, tabVars, Type
  <1>2. /\ recorded' = recorded \union {f} /\ parked' = parked
        /\ jobs' = jobs \union ({f} \X Queues(f))
    BY DEF Happen, Record
  <1>3. CASE Subject(f) = RoomOf[h]
    <2>1. << f, "realtime" >> \in jobs'
      BY <1>1, <1>2, <1>3, QueuesAreKnown DEF Watches, Type
    <2> QED
      BY <1>2, <1>3, <2>1 DEF Fresh, Awaits, Subject
  <1>4. CASE Subject(f) # RoomOf[h]
    <2>1. Row(RoomOf[h])' = Row(RoomOf[h])
      BY <1>2, <1>4 DEF Row, Subject
    <2>2. JobsStay
      BY <1>2 DEF JobsStay
    <2> QED
      BY <1>1, <2>1, <2>2, FreshKept, Unsent DEF tabVars
  <1> QED
    BY <1>3, <1>4

(* A broadcast about the room goes to the tab, which is in the room. *)
LEMMA BroadcastFresh ==
  ASSUME TypeOK, MembersHold, FreshInv, NEW f \in Facts, Broadcast(f)
  PROVE  FreshInv'
  <1> SUFFICES ASSUME NEW h \in Hooks, Watches(h)' PROVE Fresh(h)'
    BY DEF FreshInv
  <1>1. Watches(h) /\ RoomOf[h] \in member
    BY DEF Broadcast, Watches, Type, MembersHold
  <1>2. wire' = wire \o Envelopes(f) /\ wire \in Seq(Messages) /\ Envelopes(f) \in Seq(Messages)
    BY EnvelopesAreMessages DEF Broadcast, TypeOK
  <1>3. CASE Subject(f) = RoomOf[h]
    <2> DEFINE event == [kind |-> "event", room |-> RoomOf[h], fact |-> f]
    <2>1. Envelope(f, Subject(f)) = << event >>
      BY <1>1, <1>3 DEF Envelope
    <2>2. event \in Messages
      BY DEF Messages, Rooms
    <2>3. Concerns(event, h) /\ Concerns(event, h)'
      BY DEF Concerns
    <2> HIDE DEF event
    <2>4. \E n \in DOMAIN Envelopes(f) : Envelopes(f)[n] = event
      <3>1. CASE Pokes(f)
        <4> DEFINE poke == Envelope(f, [type |-> "notification", id |-> Fact[f].user])
        <4>1. Envelopes(f) = << event >> \o poke
          BY <2>1, <3>1 DEF Envelopes
        <4>2. poke \in Seq(Messages)
          BY EnvelopeIsOfMessages
        <4>3. << event >> \in Seq(Messages) /\ 1 \in DOMAIN << event >> /\ << event >>[1] = event
          BY <2>2
        <4> HIDE DEF poke
        <4> QED
          BY <4>1, <4>2, <4>3, Joined
      <3>2. CASE ~Pokes(f)
        <4>1. Envelopes(f) = << event >> \o << >>
          BY <2>1, <3>2 DEF Envelopes
        <4>2. << event >> \in Seq(Messages) /\ 1 \in DOMAIN << event >> /\ << event >>[1] = event
          BY <2>2
        <4>3. << >> \in Seq(Messages)
          OBVIOUS
        <4> QED
          BY <4>1, <4>2, <4>3, Joined
      <3> QED
        BY <3>1, <3>2
    <2>5. \E n \in DOMAIN wire' : wire'[n] = event
      BY <1>2, <2>4, Joined
    <2> QED
      BY <2>3, <2>5 DEF Fresh, Awaits, Concerns
  <1>4. CASE Subject(f) # RoomOf[h]
    <2>1. MessagesStay(h)
      BY <1>2, Joined DEF MessagesStay
    <2>2. ASSUME NEW g \in recorded, Subject(g) = RoomOf[h],
                 << g, "realtime" >> \in jobs \union parked
          PROVE  << g, "realtime" >> \in jobs' \union parked'
      BY <1>4, <2>2 DEF Broadcast, Done
    <2>3. Row(RoomOf[h])' = Row(RoomOf[h]) /\ recorded' = recorded
      BY DEF Broadcast, Row
    <2>4. view' = view /\ fetch' = fetch /\ failed' = failed /\ late' = late
      BY DEF Broadcast
    <2>5. Awaits(h) => Awaits(h)'
      BY <2>1, <2>2, <2>3 DEF Awaits, MessagesStay, Concerns, Subject
    <2> QED
      BY <1>1, <2>3, <2>4, <2>5 DEF FreshInv, Fresh
  <1> QED
    BY <1>3, <1>4

(* The consumers and the queue leave the realtime jobs where they are, or   *)
(* parked.                                                                  *)
LEMMA NoticesFresh ==
  ASSUME FreshInv, UNCHANGED liveVars,
         \/ React
         \/ \E j \in jobs : Park(j)
         \/ \E u \in Users, r \in rows : MarkRead(u, r)
  PROVE  FreshInv'
  <1>1. recorded' = recorded
    BY DEF React, Skip, Notify, Mail, Park, MarkRead
  <1>2. JobsStay
    <2>1. ASSUME NEW f \in Facts, NEW q \in {"notifications", "email"}, Skip(f, q)
          PROVE  JobsStay
      BY <2>1 DEF Skip, JobsStay
    <2>2. ASSUME NEW f \in Facts, Notify(f) PROVE JobsStay
      BY <2>2 DEF Notify, Done, JobsStay
    <2>3. ASSUME NEW f \in Facts, Mail(f) PROVE JobsStay
      BY <2>3 DEF Mail, Refused, Sent, SentInVain, Done, JobsStay
    <2>4. ASSUME NEW j \in jobs, Park(j) PROVE JobsStay
      BY <2>4 DEF Park, JobsStay
    <2>5. ASSUME NEW u \in Users, NEW r \in rows, MarkRead(u, r) PROVE JobsStay
      BY <2>5 DEF MarkRead, JobsStay
    <2> QED
      BY <2>1, <2>2, <2>3, <2>4, <2>5 DEF React
  <1> SUFFICES ASSUME NEW h \in Hooks, Watches(h)' PROVE Fresh(h)'
    BY DEF FreshInv
  <1>3. Watches(h) /\ Row(RoomOf[h])' = Row(RoomOf[h])
    BY <1>1 DEF Watches, Type, Row, liveVars, tabVars
  <1> QED
    BY <1>2, <1>3, FreshKept, Unsent DEF liveVars, tabVars

(* A hook's own steps: it asks, is answered with the row as it is, and shows *)
(* the answer.                                                              *)
LEMMA TabFresh ==
  ASSUME TypeOK, FreshInv, NEW g \in Hooks, Tab(g)
  PROVE  FreshInv'
  <1> SUFFICES ASSUME NEW h \in Hooks, Watches(h)' PROVE Fresh(h)'
    BY DEF FreshInv
  <1>wire. wire \in Seq(Messages)
    BY DEF TypeOK
  <1>0. UNCHANGED noticeVars
    BY DEF Tab, Mount, Authorize, Join, Unmount, Answer, Load, FailLoad, Poll
  <1>kept. ASSUME Watches(h), MessagesStay(h), view'[h] = view[h], fetch'[h] = fetch[h],
                  h \in failed => h \in failed', h \in late => h \in late'
           PROVE  Fresh(h)'
    BY <1>0, <1>kept, FreshKept, NoNews
  <1>row. Row(RoomOf[h])' = Row(RoomOf[h])
    BY <1>0, NoNews
  <1>1. CASE Mount(g)
    <2>1. g # h /\ Watches(h)
      BY <1>1 DEF Mount, Watches, TypeOK, Type
    <2> QED
      BY <1>1, <1>kept, <2>1, MountTypes, Unsent DEF Mount
  <1>2. CASE Authorize(g)
    <2> DEFINE refusal == [kind |-> "refusal", hook |-> g]
    <2>1. refusal \in Messages
      BY DEF Messages
    <2>2. wire' = wire \/ wire' = Append(wire, refusal)
      BY <1>2 DEF Authorize
    <2> HIDE DEF refusal
    <2>3. MessagesStay(h)
      BY <1>wire, <2>1, <2>2, Sending DEF MessagesStay
    <2> QED
      BY <1>2, <1>kept, <2>3 DEF Authorize, Watches, Type
  <1>3. CASE Join(g)
    <2> DEFINE ack == [kind |-> "ack", hook |-> g, value |-> call[g].value]
    <2>1. call[g].value \in Values
      BY <1>3, NoAnswer DEF Join, TypeOK
    <2>2. ack \in Messages
      BY <2>1 DEF Messages
    <2>3. wire' = Append(wire, ack)
      BY <1>3 DEF Join
    <2> HIDE DEF ack
    <2>4. MessagesStay(h)
      BY <1>wire, <2>2, <2>3, Sending DEF MessagesStay
    <2> QED
      BY <1>3, <1>kept, <2>4 DEF Join, Watches, Type
  <1>4. CASE Unmount(g)
    <2>1. g # h /\ Watches(h)
      BY <1>4 DEF Unmount, Watches, TypeOK, Type
    <2>2. ASSUME NEW n \in DOMAIN wire, Concerns(wire[n], h)
          PROVE  n \in DOMAIN wire' /\ wire'[n] = wire[n]
      BY <1>4, <2>1, <2>2 DEF Unmount, Concerns, IsAnswerTo
    <2>3. MessagesStay(h)
      BY <2>2 DEF MessagesStay
    <2> QED
      BY <1>4, <1>kept, <2>1, <2>3 DEF Unmount
  <1>5. CASE Answer(g)
    <2>1. Watches(h) /\ MessagesStay(h)
      BY <1>5, Unsent DEF Answer, Watches, Type
    <2>2. CASE g # h
      BY <1>5, <1>kept, <2>1, <2>2 DEF Answer, TypeOK, FetchTypeOK
    <2>3. CASE g = h
      <3>1. Snapshot(RoomOf[h]) = Row(RoomOf[h])
        BY <2>1 DEF Watches, Type, Snapshot
      <3>2. fetch'[h] = [pc |-> "answered", value |-> Snapshot(RoomOf[h])]
        BY <1>5, <2>3 DEF Answer, TypeOK, FetchTypeOK
      <3>3. fetch'[h].pc = "answered" /\ fetch'[h].value = Row(RoomOf[h])'
        BY <1>row, <3>1, <3>2
      <3> QED
        BY <3>3 DEF Fresh
    <2> QED
      BY <2>2, <2>3
  <1>6. CASE Load(g)
    <2>1. Watches(h) /\ MessagesStay(h)
      BY <1>6, Unsent DEF Load, Watches, Type
    <2>2. CASE g # h
      BY <1>6, <1>kept, <2>1, <2>2 DEF Load, TypeOK, FetchTypeOK
    <2>3. CASE g = h
      <3>1. /\ fetch[h].pc = "answered" /\ fetch'[h] = Idle
            /\ view'[h] = fetch[h].value
        BY <1>6, <2>3 DEF Load, TypeOK, FetchTypeOK
      <3>2. fetch[h] # Asked /\ fetch[h].pc # "idle"
        BY <3>1, NoAnswer
      <3>3. Awaits(h) \/ h \in late \/ fetch[h].value = Row(RoomOf[h])
        BY <2>1, <3>2 DEF FreshInv, Fresh
      <3>4. CASE Awaits(h)
        BY <1>0, <2>1, <3>4, NoNews
        DEF Fresh, Awaits, JobsStay, MessagesStay, Concerns, noticeVars
      <3>5. CASE fetch[h].value = Row(RoomOf[h])
        BY <1>row, <3>1, <3>5, NoAnswer DEF Fresh
      <3>6. CASE h \in late
        BY <1>6, <3>6 DEF Load, Fresh
      <3> QED
        BY <3>3, <3>4, <3>5, <3>6
    <2> QED
      BY <2>2, <2>3
  <1>7. CASE FailLoad(g)
    <2>1. Watches(h) /\ MessagesStay(h)
      BY <1>7, Unsent DEF FailLoad, Watches, Type
    <2>2. CASE g # h
      BY <1>7, <1>kept, <2>1, <2>2 DEF FailLoad, TypeOK, FetchTypeOK
    <2>3. CASE g = h
      BY <1>7, <2>3, NoAnswer DEF FailLoad, Fresh, TypeOK, FetchTypeOK
    <2> QED
      BY <2>2, <2>3
  <1>8. CASE Poll(g)
    <2>1. Watches(h) /\ MessagesStay(h) /\ g # h
      BY <1>8, Unsent DEF Poll, Watches, Type
    <2> QED
      BY <1>8, <1>kept, <2>1, InvalidateTypes DEF Poll
  <1> QED
    BY <1>1, <1>2, <1>3, <1>4, <1>5, <1>6, <1>7, <1>8 DEF Tab

(* Whatever arrives for the room makes its hook ask, or finds its first load *)
(* on the way.                                                              *)
LEMMA DeliverFresh ==
  ASSUME TypeOK, FreshInv, Deliver
  PROVE  FreshInv'
  <1> SUFFICES ASSUME NEW h \in Hooks, Watches(h)' PROVE Fresh(h)'
    BY DEF FreshInv
  <1> DEFINE m == Head(wire)
  <1>1. /\ m \in Messages
        /\ \A n \in DOMAIN wire : wire[n] = m \/ \E i \in DOMAIN wire' : wire'[i] = wire[n]
    BY Arrival DEF Deliver
  <1>2. \/ ReceiveAck(m) \/ ReceiveRefusal(m) \/ ReceiveEvent(m) \/ ReceiveNothing(m)
    BY DEF Deliver
  <1>3. UNCHANGED noticeVars /\ socket' = socket /\ failed' = failed
    BY DEF Deliver
  <1> HIDE DEF m
  <1>kept. ASSUME Watches(h), ~Concerns(m, h), view'[h] = view[h], fetch'[h] = fetch[h],
                  h \in late => h \in late'
           PROVE  Fresh(h)'
    <2>1. MessagesStay(h)
      BY <1>1, <1>kept DEF MessagesStay
    <2> QED
      BY <1>3, <1>kept, <2>1, FreshKept, NoNews
  <1>asked. ASSUME NEW value \in Values, NEW message, Receive(h, value, message)
            PROVE  Fresh(h)'
    <2>1. Type(h) = "auction" /\ Row(RoomOf[h])' = Row(RoomOf[h])
      BY <1>3, NoNews DEF Watches, Type
    <2>2. Snapshot(RoomOf[h]) = Row(RoomOf[h])
      BY <2>1 DEF Snapshot, Type
    <2> QED
      BY <1>asked, <2>1, <2>2, ReceiveTypes DEF Fresh
  <1>4. CASE ReceiveAck(m)
    <2>1. m.hook \in Hooks /\ m.value \in Values /\ Receive(m.hook, m.value, "ack")
      BY <1>1, <1>4, MessageShapes DEF ReceiveAck
    <2>2. CASE m.hook = h
      BY <1>asked, <2>1, <2>2
    <2>3. CASE m.hook # h
      <3>1. Watches(h) /\ ~Concerns(m, h)
        BY <1>3, <1>4, <2>1, <2>3 DEF ReceiveAck, Watches, Type, Concerns, TypeOK
      <3> QED
        BY <1>kept, <2>1, <2>3, <3>1, ReceiveTypes
    <2> QED
      BY <2>2, <2>3
  <1>5. CASE ReceiveRefusal(m)
    <2>1. Watches(h) /\ ~Concerns(m, h)
      BY <1>1, <1>3, <1>5, MessageShapes DEF ReceiveRefusal, Watches, Type, Concerns, TypeOK
    <2> QED
      BY <1>5, <1>kept, <2>1 DEF ReceiveRefusal
  <1>6. CASE ReceiveEvent(m)
    <2>1. m.kind = "event" /\ hook' = hook /\ told[m.fact] \in Values
      BY <1>1, <1>6, MessageShapes DEF ReceiveEvent, TypeOK, Values
    <2>2. Watches(h) /\ Mounted(h)
      BY <1>3, <2>1 DEF Watches, Type, Mounted
    <2>3. CASE m.room = RoomOf[h]
      <3>1. PICK g \in Hooks : RoomOf[g] = m.room /\ Receive(g, told[m.fact], "event")
        BY <1>6, <2>2, <2>3 DEF ReceiveEvent
      <3>2. g = h
        BY <2>3, <3>1, LiveAssumption
      <3> QED
        BY <1>asked, <2>1, <3>1, <3>2
    <2>4. CASE m.room # RoomOf[h]
      <3>1. ~Concerns(m, h)
        BY <2>1, <2>4 DEF Concerns
      <3>2. view'[h] = view[h] /\ fetch'[h] = fetch[h] /\ (h \in late => h \in late')
        <4>1. CASE UNCHANGED << view, fetch, late >>
          BY <4>1
        <4>2. ASSUME NEW g \in Hooks, RoomOf[g] = m.room, Receive(g, told[m.fact], "event")
              PROVE  view'[h] = view[h] /\ fetch'[h] = fetch[h] /\ (h \in late => h \in late')
          BY <2>1, <2>4, <4>2, ReceiveTypes
        <4> QED
          BY <1>6, <4>1, <4>2 DEF ReceiveEvent
      <3> QED
        BY <1>kept, <2>2, <3>1, <3>2
    <2> QED
      BY <2>3, <2>4
  <1>7. CASE ReceiveNothing(m)
    <2>1. Watches(h) /\ ~Concerns(m, h)
      BY <1>3, <1>7 DEF ReceiveNothing, Watches, Type, Concerns, Ignored
    <2> QED
      BY <1>7, <1>kept, <2>1 DEF ReceiveNothing
  <1> QED
    BY <1>2, <1>4, <1>5, <1>6, <1>7

LEMMA LiveStep == LiveInv /\ ToldInv /\ [Next]_vars => LiveInv'
  <1> SUFFICES ASSUME LiveInv, ToldInv, [Next]_vars PROVE LiveInv'
    OBVIOUS
  <1> USE DEF LiveInv
  <1>1. TypeOK' /\ MembersHold'
    BY TypeStep, MembersStep
  <1>2. FreshInv'
    <2>1. CASE Drop \/ Connect \/ \E u \in Users \union {Nobody} : ChangeUser(u)
      <3>1. \A h \in Hooks : ~Watches(h)'
        BY <2>1 DEF Drop, Connect, ChangeUser, Disconnected, Rejoins, Watches, TypeOK
      <3> QED
        BY <3>1 DEF FreshInv
    <2>2. CASE UNCHANGED vars
      <3>1. ASSUME NEW h \in Hooks, Watches(h)' PROVE Fresh(h)'
        <4>1. Watches(h) /\ UNCHANGED << noticeVars, wire, view, fetch, failed, late >>
          BY <2>2, <3>1 DEF vars, liveVars, tabVars, Watches, Type
        <4> QED
          BY <4>1, FreshKept, NoNews, Unsent
      <3> QED
        BY <3>1 DEF FreshInv
    <2>3. ASSUME NEW f \in Facts, Happen(f) \/ Broadcast(f) PROVE FreshInv'
      BY <2>3, HappenFresh, BroadcastFresh
    <2>4. ASSUME UNCHANGED liveVars,
                 React \/ (\E j \in jobs : Park(j)) \/ (\E u \in Users, r \in rows : MarkRead(u, r))
          PROVE  FreshInv'
      BY <2>4, NoticesFresh
    <2>5. ASSUME NEW h \in Hooks, Tab(h) PROVE FreshInv'
      BY <2>5, TabFresh
    <2>6. CASE Deliver
      BY <2>6, DeliverFresh
    <2> QED
      BY <2>1, <2>2, <2>3, <2>4, <2>5, <2>6 DEF Next
  <1> QED
    BY <1>1, <1>2

(* Once everything about a watched auction has arrived, the page shows the *)
(* row as it is, for any number of hooks, rooms, facts, drops and sign-ins *)
(* (RealtimeGateway.subscribe, useAuctionRealtime).                        *)
THEOREM WatchedAuctionsSettle == Spec => []AuctionViewsSettle
  <1>1. Spec => [](LiveInv /\ ToldInv)
    <2>1. Init => LiveInv /\ ToldInv
      BY TypeInit, MembersInit, ToldInit DEF LiveInv
    <2>2. LiveInv /\ ToldInv /\ [Next]_vars => (LiveInv /\ ToldInv)'
      BY LiveStep, ToldStep
    <2> QED
      BY <2>1, <2>2, PTL DEF Spec
  <1>2. LiveInv => AuctionViewsSettle
    <2> SUFFICES ASSUME LiveInv, NEW h \in Hooks, Type(h) = "auction", Settled(h),
                        h \notin late
                 PROVE  view[h] = Snapshot(RoomOf[h])
      BY DEF AuctionViewsSettle
    <2>1. Fresh(h)
      BY DEF LiveInv, FreshInv, Watches, Settled
    <2>2. ~Awaits(h)
      <3>1. DOMAIN wire = {}
        BY DEF Settled
      <3>2. \A f \in recorded :
              Subject(f) = RoomOf[h] => << f, "realtime" >> \notin jobs \union parked
        BY DEF Settled
      <3> QED
        BY <3>1, <3>2 DEF Awaits
    <2>3. view[h] = Row(RoomOf[h])
      BY <2>1, <2>2, NoAnswer DEF Fresh, Settled
    <2> QED
      BY <2>3 DEF Snapshot, Type
  <1> QED
    BY <1>1, <1>2, PTL

-----------------------------------------------------------------------------
(* Accounts, tokens and rows: types, and who a row may be about *)

Roles == {"NONE", "CUSTOMER", "SELLER", "ADMIN"}
Profiles == {"NONE", "PENDING", "APPROVED", "REJECTED"}

(* The staff is who the tokens say it is, and never applies to sell. *)
AccountsHold ==
  /\ account \in [Accounts -> [role : Roles, profile : Profiles]]
  /\ claims \subseteq [user : Accounts, role : Roles]
  /\ \A u \in Accounts : account[u].role = "ADMIN" <=> u \in Staff
  /\ \A u \in Staff : account[u].profile = "NONE"
  /\ \A c \in claims : IsAdmin(c) <=> c.user \in Staff

(* A dispute is raised by the buyer or the staff, a notice goes to the two   *)
(* sides, and whatever is about a SellerOrder comes after its order.         *)
RowHolds(row) ==
  \/ \E o \in Purchases : row = Order(o)
  \/ \E g \in Wares : row \in {<< "listing", g >>, << "lot", g >>}
  \/ \E g \in Wares, u \in Accounts : row = << "bid", g, u >>
  \/ \E p \in Parts : row \in {RowOfReview(p), << "refund", p >>}
  \/ \E p \in Parts, u \in Accounts :
       row = RowOfDispute(p, u) /\ (u = Buyer(p) \/ u \in Staff)
  \/ \E d \in Of("dispute") : row = RowOfRuling(d)
  \/ \E d \in Of("dispute"), u \in Accounts : row = RowOfComment(d, u)
  \/ \E p \in Parts : \E u \in {Buyer(p), Seller(p)} : row = RowOfNotice(u, p)
  \/ \E g \in OnAuction, u \in Accounts : row = RowOfNotice(u, << "lot", g >>)

(* Who leads has bid. *)
LeadersBid ==
  /\ leader \in [Wares -> Accounts \union {Guest}]
  /\ \A g \in Wares : leader[g] # Guest => BidOn(g, leader[g])

AccessInv == AccountsHold /\ (\A row \in made : RowHolds(row)) /\ LeadersBid

(* Rows stay, so what a row is about does. *)
LEMMA RowsStay ==
  ASSUME NEW row, RowHolds(row), made \subseteq made'
  PROVE  RowHolds(row)'
  <1>1. Parts \subseteq Parts'
    BY DEF Parts, Placed, PartsOf, Part, Order, SellersIn
  <1>2. Of("dispute") \subseteq Of("dispute")'
    BY DEF Of
  <1>3. OnAuction \subseteq OnAuction'
    BY DEF OnAuction
  <1> QED
    BY <1>1, <1>2, <1>3
       DEF RowHolds, Order, RowOfReview, RowOfDispute, RowOfRuling, RowOfComment, RowOfNotice,
           Buyer, Seller

LEMMA PartFields ==
  ASSUME NEW p \in Parts
  PROVE  /\ p[1] = "part" /\ p[2] \in Placed /\ p[3] \in SellersIn(p[2]) /\ p = Part(p[2], p[3])
         /\ Buyer(p) \in Accounts /\ Seller(p) \in Accounts
  <1>1. PICK o \in Placed : \E s \in SellersIn(o) : p = Part(o, s)
    BY DEF Parts, PartsOf
  <1>2. /\ p[1] = "part" /\ p[2] \in Placed /\ p[3] \in SellersIn(p[2]) /\ p = Part(p[2], p[3])
    BY <1>1 DEF Part
  <1>3. PICK g \in ItemsOf[p[2]] : p[3] = OwnerOf[g]
    BY <1>2 DEF SellersIn
  <1>4. p[2] \in Purchases /\ g \in Wares
    BY <1>2, <1>3, PurchaseAssumption DEF Placed
  <1> QED
    BY <1>2, <1>3, <1>4, PurchaseAssumption, WareAssumption DEF Buyer, Seller

LEMMA AccountsStay ==
  ASSUME AccountsHold, UNCHANGED << account, claims >>
  PROVE  AccountsHold'
  BY DEF AccountsHold

LEMMA TokenIssued ==
  ASSUME AccountsHold, NEW u \in Accounts, Login(u) \/ Register(u)
  PROVE  AccountsHold'
  <1>1. CASE Login(u)
    BY <1>1 DEF Login, Holding, AccountsHold, IsAdmin
  <1>2. CASE Register(u)
    <2>1. account[u].role = "NONE" /\ u \notin Staff /\ account[u].profile \in Profiles
      BY <1>2 DEF Register, Registered, AccountsHold, Roles
    <2>2. account' = [account EXCEPT ![u] = [account[u] EXCEPT !.role = "CUSTOMER"]]
      BY <1>2 DEF Register
    <2>3. [account[u] EXCEPT !.role = "CUSTOMER"] \in [role : Roles, profile : Profiles]
      BY DEF AccountsHold, Roles
    <2>4. account' \in [Accounts -> [role : Roles, profile : Profiles]]
      BY <2>2, <2>3 DEF AccountsHold
    <2>5. \A v \in Accounts : account'[v].role = "ADMIN" <=> v \in Staff
      BY <2>1, <2>2 DEF AccountsHold
    <2>6. \A v \in Staff : account'[v].profile = "NONE"
      BY <2>1, <2>2, AccountAssumption DEF AccountsHold
    <2>7. /\ claims' \subseteq [user : Accounts, role : Roles]
          /\ \A c \in claims' : IsAdmin(c) <=> c.user \in Staff
      BY <1>2, <2>1 DEF Register, Holding, AccountsHold, Roles, IsAdmin
    <2> QED
      BY <2>4, <2>5, <2>6, <2>7 DEF AccountsHold, IsAdmin
  <1> QED
    BY <1>1, <1>2

LEMMA ProfileChanged ==
  ASSUME AccountsHold, NEW u \in Accounts \ Staff,
         NEW row \in [role : Roles \ {"ADMIN"}, profile : Profiles],
         account' = [account EXCEPT ![u] = row], claims' = claims
  PROVE  AccountsHold'
  <1>1. account' \in [Accounts -> [role : Roles, profile : Profiles]]
    BY DEF AccountsHold
  <1>2. \A v \in Accounts : account'[v].role = "ADMIN" <=> v \in Staff
    BY DEF AccountsHold
  <1>3. \A v \in Staff : account'[v].profile = "NONE"
    BY AccountAssumption DEF AccountsHold
  <1> QED
    BY <1>1, <1>2, <1>3 DEF AccountsHold

LEMMA AppliedToSell ==
  ASSUME AccountsHold, NEW c \in claims, ApplyToSell(c)
  PROVE  AccountsHold'
  <1> DEFINE u == c.user
             row == [account[u] EXCEPT !.profile = "PENDING"]
  <1>1. u \in Accounts \ Staff
    BY DEF ApplyToSell, Has, AccountsHold, IsAdmin
  <1>2. row \in [role : Roles \ {"ADMIN"}, profile : Profiles]
    BY <1>1 DEF AccountsHold, Profiles
  <1>3. account' = [account EXCEPT ![u] = row] /\ claims' = claims
    BY DEF ApplyToSell
  <1> QED
    BY <1>1, <1>2, <1>3, ProfileChanged

LEMMA SellerReviewed ==
  ASSUME AccountsHold, NEW u \in Accounts, NEW status \in {"PENDING", "APPROVED", "REJECTED"},
         ReviewSeller(u, status)
  PROVE  AccountsHold'
  <1>1. u \in Accounts \ Staff
    BY DEF ReviewSeller, Profiled, AccountsHold
  <1>2. [profile |-> status, role |-> RoleFor(status)]
          \in [role : Roles \ {"ADMIN"}, profile : Profiles]
    BY DEF RoleFor, Roles, Profiles
  <1> QED
    BY <1>1, <1>2, ProfileChanged DEF ReviewSeller

(* An action that adds a row about what there is. *)
LEMMA RowAdded ==
  ASSUME AccessInv, NEW row, RowHolds(row), Adds(row), UNCHANGED << account, claims, leader >>
  PROVE  AccessInv'
  <1>1. \A r \in made' : RowHolds(r)'
    BY RowsStay DEF AccessInv, Adds
  <1>2. LeadersBid'
    BY DEF AccessInv, LeadersBid, BidOn, Adds
  <1> QED
    BY <1>1, <1>2, AccountsStay DEF AccessInv

LEMMA AccountsChanged ==
  ASSUME AccessInv, AccountsHold', UNCHANGED << made, hidden, leader >>
  PROVE  AccessInv'
  <1>1. \A r \in made' : RowHolds(r)'
    BY RowsStay DEF AccessInv
  <1> QED
    BY <1>1 DEF AccessInv, LeadersBid, BidOn

LEMMA BidPlaced ==
  ASSUME AccessInv, NEW c \in claims, NEW g \in Wares, PlaceBid(c, g)
  PROVE  AccessInv'
  <1>1. c.user \in Accounts
    BY DEF AccessInv, AccountsHold
  <1>2. RowHolds(<< "bid", g, c.user >>)
    BY <1>1 DEF RowHolds
  <1>3. made' = made \union {<< "bid", g, c.user >>}
    BY DEF PlaceBid
  <1>4. \A r \in made' : RowHolds(r)'
    BY <1>2, <1>3, RowsStay DEF AccessInv
  <1>5. LeadersBid'
    BY <1>1, <1>3 DEF AccessInv, LeadersBid, BidOn, PlaceBid
  <1> QED
    BY <1>4, <1>5, AccountsStay DEF AccessInv, PlaceBid

LEMMA CallingHolds ==
  ASSUME AccessInv, NEW c \in claims, Calling(c)
  PROVE  AccessInv'
  <1>1. c.user \in Accounts /\ AccountsHold /\ (IsAdmin(c) <=> c.user \in Staff)
    BY DEF AccessInv, AccountsHold
  <1>2. CASE ApplyToSell(c)
    BY <1>1, <1>2, AppliedToSell, AccountsChanged DEF ApplyToSell
  <1>3. ASSUME NEW g \in Wares, CreateProduct(c, g) \/ OpenAuction(c, g)
        PROVE  AccessInv'
    <2>1. RowHolds(<< "listing", g >>) /\ RowHolds(<< "lot", g >>)
      BY DEF RowHolds
    <2> QED
      BY <1>3, <2>1, RowAdded DEF CreateProduct, OpenAuction
  <1>4. ASSUME NEW g \in Wares, HideOrShow(c, g)
        PROVE  AccessInv'
    <2>1. \A r \in made' : RowHolds(r)'
      BY <1>4, RowsStay DEF AccessInv, HideOrShow
    <2> QED
      BY <1>1, <1>4, <2>1, AccountsStay DEF AccessInv, LeadersBid, BidOn, HideOrShow
  <1>5. ASSUME NEW g \in Wares, PlaceBid(c, g)
        PROVE  AccessInv'
    BY <1>5, BidPlaced
  <1>6. ASSUME NEW o \in Purchases, PlaceOrder(c, o) \/ \E g \in Wares : CheckoutAuctionWin(c, o, g)
        PROVE  AccessInv'
    <2>1. RowHolds(Order(o))
      BY DEF RowHolds
    <2> QED
      BY <1>6, <2>1, RowAdded DEF PlaceOrder, CheckoutAuctionWin
  <1>7. ASSUME NEW p \in Parts, RaiseDispute(c, p)
        PROVE  AccessInv'
    <2>1. RowHolds(RowOfDispute(p, c.user))
      BY <1>1, <1>7 DEF RowHolds, RaiseDispute, FindSellerOrderAsBuyer
    <2> QED
      BY <1>7, <2>1, RowAdded DEF RaiseDispute
  <1>8. ASSUME NEW p \in Parts, WriteReview(c, p)
        PROVE  AccessInv'
    <2>1. RowHolds(RowOfReview(p))
      BY DEF RowHolds
    <2> QED
      BY <1>8, <2>1, RowAdded DEF WriteReview
  <1>9. ASSUME NEW d \in Of("dispute"), GiveRuling(c, d) \/ AddComment(c, d)
        PROVE  AccessInv'
    <2>1. RowHolds(RowOfRuling(d)) /\ RowHolds(RowOfComment(d, c.user))
      BY <1>1 DEF RowHolds
    <2> QED
      BY <1>9, <2>1, RowAdded DEF GiveRuling, AddComment
  <1> QED
    BY <1>2, <1>3, <1>4, <1>5, <1>6, <1>7, <1>8, <1>9 DEF Calling

LEMMA AccessHolds ==
  ASSUME AccessInv, [AccessNext]_accessVars
  PROVE  AccessInv'
  <1>1. ASSUME NEW u \in Accounts, Register(u) \/ Login(u) \/ GoogleCallback(u)
        PROVE  AccessInv'
    <2>1. AccountsHold' /\ UNCHANGED << made, hidden, leader >>
      BY <1>1, TokenIssued
         DEF AccessInv, GoogleCallback, LoginWithGoogleProfile, Register, Login
    <2> QED
      BY <2>1, AccountsChanged
  <1>2. ASSUME NEW c \in claims, Calling(c)
        PROVE  AccessInv'
    BY <1>2, CallingHolds
  <1>3. ASSUME NEW u \in Accounts, NEW status \in {"PENDING", "APPROVED", "REJECTED"},
               ReviewSeller(u, status) \/ ReviewSellerApplication(u, status)
        PROVE  AccessInv'
    <2>1. ReviewSeller(u, status)
      BY <1>3 DEF ReviewSellerApplication
    <2>2. AccountsHold' /\ UNCHANGED << made, hidden, leader >>
      BY <2>1, SellerReviewed DEF AccessInv, ReviewSeller
    <2> QED
      BY <2>2, AccountsChanged
  <1>4. ASSUME NEW p \in Parts, OpenRefund(p)
        PROVE  AccessInv'
    <2>1. RowHolds(<< "refund", p >>)
      BY DEF RowHolds
    <2> QED
      BY <1>4, <2>1, RowAdded DEF OpenRefund
  <1>5. ASSUME NEW p \in Parts, NEW u \in Accounts, NotifyParty(p, u)
        PROVE  AccessInv'
    <2>1. RowHolds(RowOfNotice(u, p))
      BY <1>5 DEF RowHolds, NotifyParty
    <2> QED
      BY <1>5, <2>1, RowAdded DEF NotifyParty
  <1>7. ASSUME NEW g \in Wares, NotifyWinner(g)
        PROVE  AccessInv'
    <2>1. leader[g] \in Accounts
      BY <1>7 DEF NotifyWinner, AccessInv, LeadersBid
    <2>2. RowHolds(RowOfNotice(leader[g], << "lot", g >>))
      BY <1>7, <2>1 DEF RowHolds, NotifyWinner
    <2> QED
      BY <1>7, <2>2, RowAdded DEF NotifyWinner
  <1>6. CASE UNCHANGED accessVars
    <2>1. AccountsHold' /\ UNCHANGED << made, hidden, leader >>
      BY <1>6, AccountsStay DEF AccessInv, accessVars
    <2> QED
      BY <2>1, AccountsChanged
  <1> QED
    BY <1>1, <1>2, <1>3, <1>4, <1>5, <1>6, <1>7 DEF AccessNext

LEMMA AccessStarts ==
  ASSUME AccessInit
  PROVE  AccessInv
  <1>1. AccountsHold
    BY AccountAssumption DEF AccessInit, AccountsHold, Roles, Profiles
  <1>2. \A row \in made : RowHolds(row)
    BY DEF AccessInit, RowHolds
  <1>3. LeadersBid
    BY DEF AccessInit, LeadersBid
  <1> QED
    BY <1>1, <1>2, <1>3 DEF AccessInv

-----------------------------------------------------------------------------
(* The API tells a caller of his own business *)

His(c, fact) == c.user \in Parties(fact) \/ (c.user \in Staff /\ ~Personal(fact))

LEMMA CallerFields ==
  ASSUME AccessInv, NEW c \in Callers
  PROVE  /\ c.user \in Accounts \union {Guest}
         /\ IsAdmin(c) => c.user \in Staff
         /\ SignedIn(c) => c.user \in Accounts
  BY DEF AccessInv, AccountsHold, Callers, Visitor, IsAdmin, SignedIn

LEMMA DisputeFields ==
  ASSUME AccessInv, NEW d \in Of("dispute")
  PROVE  /\ d[1] = "dispute" /\ d[2] \in Parts /\ d[3] \in Accounts
         /\ d[3] = Buyer(d[2]) \/ d[3] \in Staff
  <1>1. d \in made /\ d[1] = "dispute"
    BY DEF Of
  <1>2. RowHolds(d)
    BY <1>1 DEF AccessInv
  <1>3. PICK p \in Parts, u \in Accounts :
          d = RowOfDispute(p, u) /\ (u = Buyer(p) \/ u \in Staff)
    BY <1>1, <1>2 DEF RowHolds, Order, RowOfReview, RowOfRuling, RowOfComment, RowOfNotice
  <1> QED
    BY <1>3 DEF RowOfDispute

(* Facts by what they are about. *)

LEMMA OrderFacts ==
  ASSUME AccessInv, NEW c \in Callers, NEW o \in Placed, IsAdmin(c) \/ BuyerOf[o] = c.user,
         NEW fact \in WholeOrder(o)
  PROVE  His(c, fact)
  <1>1. CASE fact = Order(o)
    BY <1>1, CallerFields DEF His, Parties, Personal, Order
  <1>2. ASSUME NEW s \in SellersIn(o), fact = Part(o, s)
        PROVE  His(c, fact)
    BY <1>2, CallerFields DEF His, Parties, Personal, Part, Buyer
  <1> QED
    BY <1>1, <1>2 DEF WholeOrder, PartsOf

LEMMA PartFacts ==
  ASSUME AccessInv, NEW c \in Callers, NEW p \in Parts,
         IsAdmin(c) \/ c.user \in {Buyer(p), Seller(p)}
  PROVE  His(c, p) /\ His(c, << "refund", p >>) /\ His(c, << "pending", p >>)
  BY PartFields, CallerFields DEF His, Parties, Personal

LEMMA DisputeFacts ==
  ASSUME AccessInv, NEW c \in Callers, NEW d \in Of("dispute"),
         IsAdmin(c) \/ c.user \in {Seller(d[2]), d[3]}
  PROVE  /\ His(c, d) /\ His(c, d[2]) /\ \A m \in CommentsOn(d) : His(c, m)
  <1>1. His(c, d)
    BY DisputeFields, CallerFields DEF His, Parties, Personal
  <1>2. His(c, d[2])
    BY DisputeFields, CallerFields, PartFields DEF His, Parties, Personal
  <1>3. ASSUME NEW m \in CommentsOn(d)
        PROVE  His(c, m)
    <2>1. m[1] = "comment" /\ m[2] = d
      BY <1>3 DEF CommentsOn, Of
    <2> QED
      BY <2>1, CallerFields DEF His, Parties, Personal
  <1> QED
    BY <1>1, <1>2, <1>3

LEMMA WareFacts ==
  ASSUME AccessInv, NEW c \in Callers, NEW g
  PROVE  /\ His(c, << "listing", g >>) /\ His(c, << "lot", g >>) /\ His(c, << "amounts", g >>)
         /\ IsAdmin(c) \/ OwnerOf[g] = c.user => His(c, << "audit", g >>)
         /\ \A u : BidOn(g, c.user) /\ c.user \in Accounts =>
              His(c, << "bidder", g, u >>) /\ His(c, << "leads", g, u >>)
  <1>1. /\ His(c, << "listing", g >>) /\ His(c, << "lot", g >>) /\ His(c, << "amounts", g >>)
    BY CallerFields DEF His, Parties
  <1>2. IsAdmin(c) \/ OwnerOf[g] = c.user => His(c, << "audit", g >>)
    BY CallerFields DEF His, Parties, Personal
  <1>3. \A u : BidOn(g, c.user) /\ c.user \in Accounts =>
          His(c, << "bidder", g, u >>) /\ His(c, << "leads", g, u >>)
    BY DEF His, Parties
  <1> QED
    BY <1>1, <1>2, <1>3

LEMMA AccountFacts ==
  ASSUME AccessInv, NEW c \in Callers, NEW u
  PROVE  /\ His(c, << "shop", u >>) /\ His(c, << "review", u >>)
         /\ IsAdmin(c) \/ c.user = u =>
              His(c, << "user", u >>) /\ His(c, << "ledger", u >>) /\ His(c, << "unread", u >>)
         /\ His(c, << "cart", c.user >>)
         /\ \A n \in Of("notice") : n[2] = c.user => His(c, n)
         /\ \A r \in Of("review") : His(c, r)
  <1>1. His(c, << "shop", u >>) /\ His(c, << "review", u >>)
    BY CallerFields DEF His, Parties
  <1>2. IsAdmin(c) \/ c.user = u =>
          His(c, << "user", u >>) /\ His(c, << "ledger", u >>) /\ His(c, << "unread", u >>)
    BY CallerFields DEF His, Parties, Personal
  <1>3. /\ His(c, << "cart", c.user >>)
        /\ \A n \in Of("notice") : n[2] = c.user => His(c, n)
        /\ \A r \in Of("review") : His(c, r)
    BY CallerFields DEF His, Parties, Of
  <1> QED
    BY <1>1, <1>2, <1>3

(* Facts by the route that tells of them. *)

LEMMA OrderRoutes ==
  ASSUME AccessInv, NEW c \in Callers
  PROVE  /\ \A fact \in FindMyOrders(c) \union FindMySellerOrders(c) \union ListOrders(c) :
              His(c, fact)
         /\ \A o \in Placed : \A fact \in FindOrder(c, o) \union OrderRoom(c, o) : His(c, fact)
         /\ \A p \in Parts :
              \A fact \in UpdateSellerOrderStatus(c, p) \union SellerOrderRoom(c, p) : His(c, fact)
         /\ \A r \in Of("refund") : \A fact \in FindRefundById(c, r[2]) : His(c, fact)
  <1>1. ASSUME NEW fact \in FindMyOrders(c) \union ListOrders(c)
        PROVE  His(c, fact)
    <2>1. \E o \in Placed : fact \in WholeOrder(o) /\ (IsAdmin(c) \/ BuyerOf[o] = c.user)
      BY <1>1 DEF FindMyOrders, FindByBuyerId, ListOrders, AllOrders, If, Has, IsAdmin
    <2> QED
      BY <2>1, OrderFacts
  <1>2. ASSUME NEW fact \in FindMySellerOrders(c)
        PROVE  His(c, fact)
    BY <1>2, PartFacts DEF FindMySellerOrders, FindBySeller, If
  <1>3. ASSUME NEW o \in Placed, NEW fact \in FindOrder(c, o) \union OrderRoom(c, o)
        PROVE  His(c, fact)
    BY <1>3, OrderFacts DEF FindOrder, OrderRoom, OwnsOrderOrIsAdmin, If, WholeOrder
  <1>4. ASSUME NEW p \in Parts,
               NEW fact \in UpdateSellerOrderStatus(c, p) \union SellerOrderRoom(c, p)
        PROVE  His(c, fact)
    BY <1>4, PartFacts
       DEF UpdateSellerOrderStatus, SellerOrderRoom, OwnsSellerOrderOrIsAdmin, If
  <1>5. ASSUME NEW r \in Of("refund"), NEW fact \in FindRefundById(c, r[2])
        PROVE  His(c, fact)
    <2>1. r[2] \in Parts
      <3>1. r \in made /\ r[1] = "refund"
        BY DEF Of
      <3> QED
        BY <3>1 DEF AccessInv, RowHolds, Order, RowOfReview, RowOfDispute, RowOfRuling,
                    RowOfComment, RowOfNotice
    <2> QED
      BY <1>5, <2>1, PartFacts DEF FindRefundById, CanReadRefund, FindSellerOrderAsBuyer, If
  <1> QED
    BY <1>1, <1>2, <1>3, <1>4, <1>5

LEMMA WareRoutes ==
  ASSUME AccessInv, NEW c \in Callers
  PROVE  /\ \A fact \in FindAllForCatalog \union ListOwnProducts(c)
                          \union ListProductsForModeration(c) : His(c, fact)
         /\ \A fact \in FindPublicAuctions(c) \union FindMyAuctions(c) : His(c, fact)
         /\ \A g \in Listed :
              \A fact \in FindByIdForCatalog(g) \union ChangeProduct(c, g)
                            \union ModerateProduct(c, g) : His(c, fact)
         /\ \A g \in OnAuction :
              \A fact \in FindPublicAuction(c, g) \union ListPublicBids(c, g) : His(c, fact)
  <1>1. ASSUME NEW fact \in FindAllForCatalog \union ListOwnProducts(c)
                              \union ListProductsForModeration(c)
        PROVE  His(c, fact)
    <2>1. \/ \E g \in Listed : fact = << "listing", g >>
          \/ \E g \in Listed : fact = << "audit", g >> /\ (IsAdmin(c) \/ OwnerOf[g] = c.user)
      BY <1>1 DEF FindAllForCatalog, ToCatalogProduct, ListOwnProducts, ListProductsForModeration,
                  ProductRows, If, Has, IsAdmin
    <2> QED
      BY <2>1, WareFacts
  <1>2. ASSUME NEW g \in OnAuction,
               NEW fact \in FindPublicAuction(c, g) \union ListPublicBids(c, g)
        PROVE  His(c, fact)
    <2>1. g \in Wares
      BY DEF OnAuction
    <2>2. leader[g] \in Accounts => BidOn(g, leader[g])
      BY <2>1, AccountAssumption DEF AccessInv, LeadersBid
    <2>3. \/ fact \in {<< "lot", g >>, << "amounts", g >>}
          \/ /\ BidOn(g, c.user) /\ c.user \in Accounts
             /\ fact \in {<< "leads", g, c.user >>, << "bidder", g, c.user >>}
      BY <1>2, <2>2 DEF FindPublicAuction, ListPublicBids, ToPublicAuction, ToPublicBids
    <2> QED
      BY <2>3, WareFacts
  <1>3. \A fact \in FindPublicAuctions(c) : His(c, fact)
    BY <1>2 DEF FindPublicAuctions, FindPublicAuction
  <1>4. ASSUME NEW fact \in FindMyAuctions(c)
        PROVE  His(c, fact)
    <2>1. PICK g \in OnAuction : /\ BidOn(g, c.user)
                                 /\ fact \in {<< "lot", g >>, << "bidder", g, leader[g] >>}
      BY <1>4 DEF FindMyAuctions, FindAuctionsForBidder
    <2>2. c.user \in Accounts
      <3>1. RowHolds(<< "bid", g, c.user >>)
        BY <2>1 DEF AccessInv, BidOn
      <3> QED
        BY <3>1 DEF RowHolds, Order, RowOfReview, RowOfDispute, RowOfRuling, RowOfComment,
                    RowOfNotice
    <2> QED
      BY <2>1, <2>2, WareFacts
  <1>5. ASSUME NEW g \in Listed,
               NEW fact \in FindByIdForCatalog(g) \union ChangeProduct(c, g)
                              \union ModerateProduct(c, g)
        PROVE  His(c, fact)
    <2>1. \/ fact = << "listing", g >>
          \/ fact = << "audit", g >> /\ (IsAdmin(c) \/ OwnerOf[g] = c.user)
      BY <1>5 DEF FindByIdForCatalog, ToCatalogProduct, ChangeProduct, ModerateProduct,
                  OwnsProductOrIsAdmin, ProductRows, If, Has, IsAdmin
    <2> QED
      BY <2>1, WareFacts
  <1> QED
    BY <1>1, <1>2, <1>3, <1>4, <1>5

LEMMA DisputeRoutes ==
  ASSUME AccessInv, NEW c \in Callers
  PROVE  /\ \A fact \in ListDisputes(c) \union ListOwnDisputes(c) \union ListDisputesForSeller(c) :
              His(c, fact)
         /\ \A d \in Of("dispute") :
              \A fact \in FindDispute(c, d) \union ListComments(c, d) \union ResolveDispute(c, d) :
                His(c, fact)
  <1>1. ASSUME NEW fact \in ListDisputes(c) \union ListOwnDisputes(c)
                              \union ListDisputesForSeller(c)
        PROVE  His(c, fact)
    <2>1. /\ fact \in Of("dispute")
          /\ IsAdmin(c) \/ c.user \in {Seller(fact[2]), fact[3]}
      BY <1>1 DEF ListDisputes, ListOwnDisputes, ListDisputesForSeller, DisputesOf, If, Has, IsAdmin
    <2> QED
      BY <2>1, DisputeFacts
  <1>2. ASSUME NEW d \in Of("dispute"),
               NEW fact \in FindDispute(c, d) \union ListComments(c, d) \union ResolveDispute(c, d)
        PROVE  His(c, fact)
    <2>1. /\ IsAdmin(c) \/ c.user \in {Seller(d[2]), d[3]}
          /\ fact \in {d, d[2]} \union CommentsOn(d)
      BY <1>2 DEF FindDispute, ListComments, ResolveDispute, DisputeWithOrder, CanReadDispute,
                  If, Has, IsAdmin
    <2> QED
      BY <2>1, DisputeFacts
  <1> QED
    BY <1>1, <1>2

LEMMA AccountRoutes ==
  ASSUME AccessInv, NEW c \in Callers
  PROVE  /\ \A fact \in ListReviewsForProduct \union ListReviewable(c) \union ListOwnReviews(c) :
              His(c, fact)
         /\ \A fact \in ListSellerApplications(c) \union FindNotifications(c) : His(c, fact)
         /\ \A u \in Accounts :
              \A fact \in ListLedgerForSeller(c, u) \union FindUser(c, u) \union UpdateUser(c, u)
                            \union FindSeller(u) \union NotificationRoom(c, u) : His(c, fact)
         /\ \A n \in Of("notice") : \A fact \in ReadNotification(c, n) : His(c, fact)
         /\ \A fact \in FindMyProfile(c) \union GetCart(c) \union GetMySellerReport(c) :
              His(c, fact)
         /\ \A fact \in GetAnalytics(c) \union ExportAnalytics(c) : His(c, fact)
  <1>1. ASSUME NEW fact \in ListReviewsForProduct \union ListReviewable(c) \union ListOwnReviews(c)
        PROVE  His(c, fact)
    <2>1. CASE fact \in Of("review")
      BY <2>1, AccountFacts
    <2>2. CASE fact \in ListReviewable(c)
      BY <2>2, PartFacts DEF ListReviewable
    <2> QED
      BY <1>1, <2>1, <2>2 DEF ListReviewsForProduct, ListOwnReviews
  <1>2. ASSUME NEW fact \in ListSellerApplications(c) \union FindNotifications(c)
        PROVE  His(c, fact)
    BY <1>2, AccountFacts DEF ListSellerApplications, FindNotifications, If
  <1>3. ASSUME NEW u \in Accounts,
               NEW fact \in ListLedgerForSeller(c, u) \union FindUser(c, u) \union UpdateUser(c, u)
                              \union FindSeller(u) \union NotificationRoom(c, u)
        PROVE  His(c, fact)
    <2>1. \/ fact = << "shop", u >>
          \/ /\ fact \in {<< "user", u >>, << "ledger", u >>, << "unread", u >>}
             /\ IsAdmin(c) \/ c.user = u
      BY <1>3 DEF ListLedgerForSeller, CanReadLedger, FindUser, FindUserForCaller, UpdateUser,
                  UpdateUserForCaller, ToPublicUser, FindSeller, NotificationRoom, If
    <2> QED
      BY <2>1, AccountFacts
  <1>4. ASSUME NEW n \in Of("notice"), NEW fact \in ReadNotification(c, n)
        PROVE  His(c, fact)
    BY <1>4, AccountFacts DEF ReadNotification, If
  <1>5. ASSUME NEW fact \in FindMyProfile(c) \union GetCart(c) \union GetMySellerReport(c)
        PROVE  His(c, fact)
    BY <1>5, AccountFacts DEF FindMyProfile, GetCart, GetMySellerReport, If
  <1>6. ASSUME NEW fact \in GetAnalytics(c) \union ExportAnalytics(c)
        PROVE  His(c, fact)
    BY <1>6, AccountFacts DEF GetAnalytics, ExportAnalytics, PlatformReport, If, Has, IsAdmin
  <1> QED
    BY <1>1, <1>2, <1>3, <1>4, <1>5, <1>6

LEMMA OnlyTheirs ==
  ASSUME AccessInv
  PROVE  PartiesOnly
  <1> SUFFICES ASSUME NEW c \in Callers, NEW fact \in Lists(c) \union Pages(c)
               PROVE  His(c, fact)
    BY DEF PartiesOnly, His
  <1>1. CASE fact \in Lists(c)
    BY <1>1, OrderRoutes, WareRoutes, DisputeRoutes, AccountRoutes DEF Lists
  <1>2. CASE fact \in Pages(c)
    BY <1>2, OrderRoutes, WareRoutes, DisputeRoutes, AccountRoutes DEF Pages
  <1> QED
    BY <1>1, <1>2

(* What a list tells of an order, a SellerOrder, a dispute or an audit trail *)
(* comes from the lists of its controller.                                   *)
LEMMA ListedKinds ==
  ASSUME AccessInv, NEW c \in Callers, NEW fact \in Lists(c)
  PROVE  /\ fact[1] \in {"order", "part"} =>
              fact \in FindMyOrders(c) \union FindMySellerOrders(c) \union ListOrders(c)
         /\ fact[1] = "dispute" =>
              fact \in ListDisputes(c) \union ListOwnDisputes(c) \union ListDisputesForSeller(c)
         /\ fact[1] = "audit" => fact \in ListOwnProducts(c) \union ListProductsForModeration(c)
  <1>1. \A f \in FindMyOrders(c) \union ListOrders(c) : f[1] \in {"order", "part"}
    BY DEF FindMyOrders, FindByBuyerId, ListOrders, AllOrders, If, WholeOrder, PartsOf, Order, Part
  <1>2. \A f \in FindMySellerOrders(c) : f[1] = "part"
    BY PartFields DEF FindMySellerOrders, FindBySeller, If
  <1>3. \A f \in FindAllForCatalog : f[1] = "listing"
    BY DEF FindAllForCatalog, ToCatalogProduct
  <1>4. \A f \in ListOwnProducts(c) \union ListProductsForModeration(c) :
          f[1] \in {"listing", "audit"}
    BY DEF ListOwnProducts, ListProductsForModeration, ProductRows, If
  <1>5. \A f \in FindPublicAuctions(c) \union FindMyAuctions(c) :
          f[1] \in {"lot", "leads", "bidder"}
    BY DEF FindPublicAuctions, FindMyAuctions, ToPublicAuction
  <1>6. \A f \in ListDisputes(c) \union ListOwnDisputes(c) \union ListDisputesForSeller(c) :
          f[1] = "dispute"
    BY DEF ListDisputes, ListOwnDisputes, ListDisputesForSeller, DisputesOf, Of, If
  <1>7. \A f \in ListReviewsForProduct \union ListReviewable(c) \union ListOwnReviews(c) :
          f[1] \in {"review", "pending"}
    BY DEF ListReviewsForProduct, ListReviewable, ListOwnReviews, Of
  <1>8. \A f \in ListSellerApplications(c) \union FindNotifications(c) : f[1] \in {"shop", "notice"}
    BY DEF ListSellerApplications, FindNotifications, Of, If
  <1> QED
    BY <1>1, <1>2, <1>3, <1>4, <1>5, <1>6, <1>7, <1>8 DEF Lists

LEMMA OrdersOpen ==
  ASSUME AccessInv, NEW c \in Callers
  PROVE  /\ \A o \in Placed : /\ Order(o) \in Lists(c) => FindOrder(c, o) # {}
                              /\ OrderRoom(c, o) # {} <=> FindOrder(c, o) # {}
         /\ \A p \in Lists(c) \cap Parts : SellerOrderRoom(c, p) # {}
         /\ \A p \in FindMySellerOrders(c) : UpdateSellerOrderStatus(c, p) # {}
  <1>1. ASSUME NEW o \in Placed
        PROVE  OrderRoom(c, o) # {} <=> FindOrder(c, o) # {}
    BY DEF OrderRoom, FindOrder, OwnsOrderOrIsAdmin, If, WholeOrder
  <1>2. ASSUME NEW o \in Placed, Order(o) \in Lists(c)
        PROVE  FindOrder(c, o) # {}
    <2>1. Order(o)[1] = "order"
      BY DEF Order
    <2>2. \A p \in FindMySellerOrders(c) : p # Order(o)
      BY <2>1, PartFields DEF FindMySellerOrders, FindBySeller, If
    <2>3. Order(o) \in FindMyOrders(c) \union ListOrders(c)
      BY <1>2, <2>1, <2>2, ListedKinds
    <2>4. \A q \in Placed : Order(o) \in WholeOrder(q) => q = o
      BY DEF WholeOrder, PartsOf, Order, Part
    <2>5. IsAdmin(c) \/ BuyerOf[o] = c.user
      BY <2>3, <2>4 DEF FindMyOrders, FindByBuyerId, ListOrders, If, Has, IsAdmin
    <2> QED
      BY <2>5 DEF FindOrder, OwnsOrderOrIsAdmin, If, WholeOrder
  <1>3. ASSUME NEW p \in Lists(c) \cap Parts
        PROVE  SellerOrderRoom(c, p) # {}
    <2>1. p \in FindMyOrders(c) \union FindMySellerOrders(c) \union ListOrders(c)
      BY <1>3, PartFields, ListedKinds
    <2>2. \A o \in Placed : p \in WholeOrder(o) => Buyer(p) = BuyerOf[o]
      BY <1>3, PartFields DEF WholeOrder, PartsOf, Order, Part, Buyer
    <2>3. IsAdmin(c) \/ Buyer(p) = c.user \/ Seller(p) = c.user
      BY <2>1, <2>2 DEF FindMyOrders, FindByBuyerId, FindMySellerOrders, FindBySeller,
                        ListOrders, If, Has, IsAdmin
    <2> QED
      BY <2>3 DEF SellerOrderRoom, If
  <1>4. ASSUME NEW p \in FindMySellerOrders(c)
        PROVE  UpdateSellerOrderStatus(c, p) # {}
    BY <1>4 DEF FindMySellerOrders, FindBySeller, UpdateSellerOrderStatus, AsSeller,
                OwnsSellerOrderOrIsAdmin, If, Has
  <1> QED
    BY <1>1, <1>2, <1>3, <1>4

LEMMA AllOpen ==
  ASSUME AccessInv
  PROVE  ListsOpen
  <1>1. ASSUME NEW c \in Callers, NEW d \in Of("dispute") \cap Lists(c)
        PROVE  FindDispute(c, d) # {} /\ ListComments(c, d) = CommentsOn(d)
    <2>1. d \in ListDisputes(c) \union ListOwnDisputes(c) \union ListDisputesForSeller(c)
      BY <1>1, ListedKinds DEF Of
    <2>2. CanReadDispute(c, d)
      BY <2>1 DEF ListDisputes, ListOwnDisputes, ListDisputesForSeller, DisputesOf, CanReadDispute,
                  AsSeller, Approved, Profiled, If, Has, IsAdmin
    <2> QED
      BY <2>2 DEF FindDispute, ListComments, DisputeWithOrder, If
  <1>2. ASSUME NEW c \in Callers, NEW g \in Listed, << "audit", g >> \in Lists(c)
        PROVE  ChangeProduct(c, g) # {}
    <2>1. << "audit", g >> \in ListOwnProducts(c) \union ListProductsForModeration(c)
      BY <1>2, ListedKinds
    <2>2. IsAdmin(c) \/ (AsSeller(c) /\ OwnerOf[g] = c.user)
      BY <2>1 DEF ListOwnProducts, ListProductsForModeration, ProductRows, If, Has, IsAdmin
    <2> QED
      BY <2>2 DEF ChangeProduct, OwnsProductOrIsAdmin, ProductRows, AsSeller, If, Has, IsAdmin
  <1>3. ASSUME NEW c \in Callers, NEW n \in FindNotifications(c)
        PROVE  ReadNotification(c, n) # {}
    BY <1>3 DEF FindNotifications, ReadNotification, If
  <1> QED
    BY <1>1, <1>2, <1>3, OrdersOpen DEF ListsOpen

(* However roles change, whatever a token still claims and whoever buys from *)
(* whom, no route tells a caller of what is not his business, and what a     *)
(* list shows him its page opens (the guards of the controllers, the checks  *)
(* of the services, the queries of the repositories).                        *)
THEOREM TheirsAlone == AccessInit /\ [][AccessNext]_accessVars => []AccountsSeeTheirs
  <1>1. AccessInit => AccessInv
    BY AccessStarts
  <1>2. AccessInv /\ [AccessNext]_accessVars => AccessInv'
    BY AccessHolds
  <1>3. AccessInv => AccountsSeeTheirs
    BY OnlyTheirs, AllOpen DEF AccountsSeeTheirs
  <1> QED
    BY <1>1, <1>2, <1>3, PTL

-----------------------------------------------------------------------------
(* The screens.  The role of an account follows its profile, and tokens are  *)
(* issued to the registered; who put a ware on sale has a profile.           *)

RolesFollow ==
  /\ \A u \in Accounts :
       /\ account[u].role = "SELLER" <=> account[u].profile = "APPROVED"
       /\ account[u].role = "NONE" => account[u].profile = "NONE"
  /\ \A c \in claims : c.role # "NONE" /\ Registered(c.user)
  /\ \A g \in Listed \union OnAuction : Profiled(OwnerOf[g])

(* The screens of a viewer whose token is up to date: whatever he clicks, he *)
(* stays among them.                                                         *)
Reached(c, s) ==
  \/ s \in Static({"home", "myAuctions", "disputes", "orders", "cart", "checkout",
                   "notifications", "account"})
  \/ \E g \in Wares : s = << "product", g >>
  \/ \E g \in OnAuction : s = << "auction", g >>
  \/ \E o \in Placed : s = << "order", o >> /\ OwnsOrderOrIsAdmin(c, o)
  \/ \E d \in Of("dispute") : s = << "dispute", d >> /\ d[3] = c.user
  \/ /\ c.role = "SELLER"
     /\ \/ s \in Static({"seller", "sellerNewProduct"}) \union SellerTabs
        \/ \E g \in Wares : s = << "sellerProduct", g >> /\ OwnerOf[g] = c.user
        \/ \E d \in Of("dispute") : s = << "sellerDispute", d >> /\ Seller(d[2]) = c.user
  \/ c.role = "ADMIN" /\ s \in AdminTabs

LEMMA RolesChanged ==
  ASSUME AccessInv, RolesFollow, NEW u \in Accounts, NEW row \in [role : Roles, profile : Profiles],
         row.role = "SELLER" <=> row.profile = "APPROVED",
         row.role # "NONE", row.profile = "NONE" => account[u].profile = "NONE",
         account' = [account EXCEPT ![u] = row], made' = made,
         \A c \in claims' : c.role # "NONE" /\ (c \in claims \/ c.user = u)
  PROVE  RolesFollow'
  <1>1. account \in [Accounts -> [role : Roles, profile : Profiles]]
        /\ \A c \in claims : c.user \in Accounts
    BY DEF AccessInv, AccountsHold
  <1>2. /\ account'[u] = row /\ \A v \in Accounts \ {u} : account'[v] = account[v]
    BY <1>1
  <1>3. \A v \in Accounts :
          /\ account'[v].role = "SELLER" <=> account'[v].profile = "APPROVED"
          /\ account'[v].role = "NONE" => account'[v].profile = "NONE"
    BY <1>2 DEF RolesFollow
  <1>4. \A c \in claims' : c.role # "NONE" /\ Registered(c.user)'
    BY <1>1, <1>2 DEF RolesFollow, Registered
  <1>5. \A v : Profiled(v) => Profiled(v)'
    BY <1>2 DEF Profiled
  <1>6. \A g \in Listed' \union OnAuction' : Profiled(OwnerOf[g])'
    BY <1>5 DEF RolesFollow, Listed, OnAuction
  <1> QED
    BY <1>3, <1>4, <1>6 DEF RolesFollow

(* Rows are added: a ware is put on sale by its seller. *)
LEMMA RolesStay ==
  ASSUME RolesFollow, UNCHANGED << account, claims >>,
         \A g \in (Listed' \union OnAuction') \ (Listed \union OnAuction) : Profiled(OwnerOf[g])
  PROVE  RolesFollow'
  <1>1. \A g \in Listed' \union OnAuction' : Profiled(OwnerOf[g])'
    BY DEF RolesFollow, Profiled
  <1> QED
    BY <1>1 DEF RolesFollow, Registered

LEMMA CallingKeepsRoles ==
  ASSUME AccessInv, RolesFollow, NEW c \in claims, Calling(c)
  PROVE  RolesFollow'
  <1> DEFINE u == c.user
  <1>1. /\ account \in [Accounts -> [role : Roles, profile : Profiles]] /\ u \in Accounts
        /\ account[u].role # "NONE" /\ c.role # "NONE"
    BY DEF AccessInv, AccountsHold, RolesFollow, Registered
  <1>2. CASE ApplyToSell(c)
    <2> DEFINE row == [account[u] EXCEPT !.profile = "PENDING"]
    <2>1. account[u].profile = "NONE" /\ account[u].role # "SELLER"
      BY <1>1, <1>2 DEF ApplyToSell, Profiled, RolesFollow
    <2>2. /\ row \in [role : Roles, profile : Profiles]
          /\ row.role = account[u].role /\ row.profile = "PENDING"
      BY <1>1 DEF Profiles
    <2>3. account' = [account EXCEPT ![u] = row] /\ claims' = claims /\ made' = made
      BY <1>2 DEF ApplyToSell
    <2> HIDE DEF row
    <2>4. \A d \in claims : d.role # "NONE"
      BY DEF RolesFollow
    <2> QED
      BY <1>1, <2>1, <2>2, <2>3, <2>4, RolesChanged
  <1>3. ASSUME NEW row, Adds(row), UNCHANGED << account, claims >>,
               \A g \in Wares : row \in {<< "listing", g >>, << "lot", g >>} => Profiled(OwnerOf[g])
        PROVE  RolesFollow'
    BY <1>3, RolesStay DEF Adds, Listed, OnAuction
  <1>4. ASSUME NEW g \in Wares, CreateProduct(c, g) \/ OpenAuction(c, g)
        PROVE  RolesFollow'
    <2>1. Profiled(OwnerOf[g])
      BY <1>4 DEF CreateProduct, OpenAuction, AsSeller, Approved, Profiled
    <2>2. /\ Adds(<< "listing", g >>) \/ Adds(<< "lot", g >>)
          /\ UNCHANGED << account, claims >>
      BY <1>4 DEF CreateProduct, OpenAuction
    <2> QED
      BY <1>3, <2>1, <2>2
  <1>5. ASSUME NEW g \in Wares, HideOrShow(c, g)
        PROVE  RolesFollow'
    BY <1>5, RolesStay DEF HideOrShow, Listed, OnAuction
  <1>6. ASSUME NEW g \in Wares, PlaceBid(c, g)
        PROVE  RolesFollow'
    BY <1>6, RolesStay DEF PlaceBid, Listed, OnAuction
  <1>7. ASSUME NEW o \in Purchases, PlaceOrder(c, o) \/ \E g \in Wares : CheckoutAuctionWin(c, o, g)
        PROVE  RolesFollow'
    BY <1>3, <1>7 DEF PlaceOrder, CheckoutAuctionWin, Order
  <1>8. ASSUME NEW p \in Parts, RaiseDispute(c, p) \/ WriteReview(c, p)
        PROVE  RolesFollow'
    BY <1>3, <1>8 DEF RaiseDispute, WriteReview, RowOfDispute, RowOfReview
  <1>9. ASSUME NEW d \in Of("dispute"), GiveRuling(c, d) \/ AddComment(c, d)
        PROVE  RolesFollow'
    BY <1>3, <1>9 DEF GiveRuling, AddComment, RowOfRuling, RowOfComment
  <1> QED
    BY <1>2, <1>4, <1>5, <1>6, <1>7, <1>8, <1>9 DEF Calling

LEMMA RolesHold ==
  ASSUME AccessInv, RolesFollow, [AccessNext]_accessVars
  PROVE  RolesFollow'
  <1>0. account \in [Accounts -> [role : Roles, profile : Profiles]]
        /\ \A c \in claims : c.role # "NONE"
    BY DEF AccessInv, AccountsHold, RolesFollow
  <1>1. ASSUME NEW u \in Accounts, Register(u)
        PROVE  RolesFollow'
    <2> DEFINE row == [account[u] EXCEPT !.role = "CUSTOMER"]
    <2>1. account[u].profile = "NONE"
      BY <1>1 DEF Register, Registered, RolesFollow
    <2>2. /\ row \in [role : Roles, profile : Profiles]
          /\ row.role = "CUSTOMER" /\ row.profile = "NONE"
      BY <1>0, <2>1 DEF Roles
    <2>3. account' = [account EXCEPT ![u] = row] /\ made' = made
      BY <1>1 DEF Register
    <2> HIDE DEF row
    <2>4. \A c \in claims' : c.role # "NONE" /\ (c \in claims \/ c.user = u)
      BY <1>0, <1>1 DEF Register, Holding
    <2> QED
      BY <2>1, <2>2, <2>3, <2>4, RolesChanged
  <1>2. ASSUME NEW u \in Accounts, Login(u)
        PROVE  RolesFollow'
    <2>1. \A c \in claims' : c.role # "NONE" /\ Registered(c.user)'
      BY <1>2 DEF Login, Holding, Registered, RolesFollow
    <2>2. UNCHANGED << account, made >>
      BY <1>2 DEF Login
    <2> QED
      BY <2>1, <2>2 DEF RolesFollow, Profiled, Listed, OnAuction
  <1>3. ASSUME NEW c \in claims, Calling(c)
        PROVE  RolesFollow'
    BY <1>3, CallingKeepsRoles
  <1>4. ASSUME NEW u \in Accounts, NEW status \in {"PENDING", "APPROVED", "REJECTED"},
               ReviewSeller(u, status)
        PROVE  RolesFollow'
    <2> DEFINE row == [profile |-> status, role |-> RoleFor(status)]
    <2>1. /\ row \in [role : Roles, profile : Profiles] /\ row.role # "NONE" /\ row.profile # "NONE"
          /\ row.role = "SELLER" <=> row.profile = "APPROVED"
      BY DEF RoleFor, Roles, Profiles
    <2>2. account' = [account EXCEPT ![u] = row] /\ made' = made /\ claims' = claims
      BY <1>4 DEF ReviewSeller
    <2> HIDE DEF row
    <2> QED
      BY <1>0, <2>1, <2>2, RolesChanged
  <1>5. ASSUME NEW p \in Parts, OpenRefund(p) \/ \E u \in Accounts : NotifyParty(p, u)
        PROVE  RolesFollow'
    BY <1>5, RolesStay DEF OpenRefund, NotifyParty, Adds, RowOfNotice, Listed, OnAuction
  <1>7. ASSUME NEW g \in Wares, NotifyWinner(g)
        PROVE  RolesFollow'
    BY <1>7, RolesStay DEF NotifyWinner, Adds, RowOfNotice, Listed, OnAuction
  <1>6. CASE UNCHANGED accessVars
    BY <1>6, RolesStay DEF accessVars, Listed, OnAuction
  <1> QED
    BY <1>1, <1>2, <1>3, <1>4, <1>5, <1>6, <1>7
       DEF AccessNext, GoogleCallback, LoginWithGoogleProfile, ReviewSellerApplication

LEMMA RolesStart ==
  ASSUME AccessInit
  PROVE  RolesFollow
  <1>1. /\ \A u \in Accounts :
             /\ account[u].role = "SELLER" <=> account[u].profile = "APPROVED"
             /\ account[u].role = "NONE" => account[u].profile = "NONE"
        /\ claims = {}
    BY DEF AccessInit
  <1>2. \A u \in Founders : Profiled(u)
    BY AccountAssumption DEF AccessInit, Profiled
  <1>3. \A g \in Listed \union OnAuction : OwnerOf[g] \in Founders
    BY DEF AccessInit, Listed, OnAuction
  <1> QED
    BY <1>1, <1>2, <1>3 DEF RolesFollow

(* What a viewer of a screen needs: it works, and what it links to he may    *)
(* reach.                                                                    *)
Fine(c, s) ==
  /\ Works(c, s)
  /\ \A to \in ScreenOf(c, s).links : DeadEnd(c, s, to) \/ Reached(c, to)

LEMMA FineScreen ==
  ASSUME NEW c, NEW s, NEW loads, NEW links, NEW accepted,
         Opens(c, s), ScreenOf(c, s) = Screen(loads, links, accepted),
         loads = TRUE, accepted = TRUE, \A to \in links : DeadEnd(c, s, to) \/ Reached(c, to)
  PROVE  Fine(c, s)
  BY DEF Fine, Works, Screen

LEMMA ViewerRoles ==
  ASSUME AccessInv, RolesFollow, NEW c \in claims, UpToDate(c)
  PROVE  /\ c.user \in Accounts /\ SignedIn(c) /\ Registered(c.user) /\ c \in Callers
         /\ c.role \in {"CUSTOMER", "SELLER", "ADMIN"}
         /\ c.role = "SELLER" <=> AsSeller(c)
         /\ Approved(c.user) => c.role = "SELLER"
         /\ c.role = "ADMIN" <=> IsAdmin(c)
  BY AccountAssumption
     DEF AccessInv, AccountsHold, RolesFollow, UpToDate, SignedIn, Callers, AsSeller, Approved, Has,
         IsAdmin, Roles

LEMMA CommonScreens ==
  ASSUME AccessInv, RolesFollow, NEW c \in claims, UpToDate(c)
  PROVE  \A s \in Static({"home", "myAuctions", "disputes", "orders", "cart", "checkout",
                          "notifications", "account"}) : Fine(c, s)
  <1> USE DEF ScreenOf, SellerArea, AdminArea
  <1>1. /\ c.user \in Accounts /\ SignedIn(c) /\ Registered(c.user)
        /\ c.role \in {"CUSTOMER", "SELLER", "ADMIN"}
        /\ Approved(c.user) => c.role = "SELLER"
    BY ViewerRoles
  <1>2. \A name \in {"home", "myAuctions", "disputes", "orders", "cart", "checkout",
                     "notifications", "account"} : Opens(c, << name >>)
    BY <1>1 DEF Opens, ProtectedRoute
  <1>3. GetCart(c) # {} /\ LinesLoad
    BY <1>1 DEF GetCart, LinesLoad, FindByIdForCatalog, If
  <1>4. Fine(c, << "home" >>)
    <2>1. \A to \in About("product", Listed \ hidden) : Reached(c, to)
      BY DEF About, Reached, Listed
    <2> QED
      BY <1>2, <2>1, FineScreen DEF HomePage
  <1>5. Fine(c, << "myAuctions" >>)
    <2>1. \A to \in About("auction", FindAuctionsForBidder(c.user)) : Reached(c, to)
      BY DEF About, Reached, FindAuctionsForBidder
    <2> QED
      BY <1>1, <1>2, <2>1, FineScreen DEF MyAuctionsPage
  <1>6. Fine(c, << "disputes" >>)
    <2>1. \A to \in About("dispute", ListOwnDisputes(c)) : Reached(c, to)
      BY DEF About, Reached, ListOwnDisputes, DisputesOf
    <2> QED
      BY <1>1, <1>2, <2>1, FineScreen DEF DisputesPage
  <1>7. Fine(c, << "orders" >>)
    <2>1. ASSUME NEW o \in Placed, Order(o) \in FindMyOrders(c)
          PROVE  BuyerOf[o] = c.user
      BY <2>1 DEF FindMyOrders, FindByBuyerId, WholeOrder, PartsOf, Order, Part
    <2>2. \A to \in About("order", {o \in Placed : Order(o) \in FindMyOrders(c)}) : Reached(c, to)
      BY <2>1 DEF About, Reached, OwnsOrderOrIsAdmin
    <2> QED
      BY <1>1, <1>2, <2>2, FineScreen DEF OrdersPage
  <1>8. Fine(c, << "cart" >>)
    <2>1. \A to \in {<< "checkout" >>} \union About("product", Lines) : Reached(c, to)
      BY DEF About, Reached, Lines, Listed, Static
    <2> QED
      BY <1>2, <1>3, <2>1, FineScreen DEF CartPage
  <1>9. Fine(c, << "checkout" >>)
    <2>1. \A to \in About("order", {o \in Placed : BuyerOf[o] = c.user}) : Reached(c, to)
      BY DEF About, Reached, OwnsOrderOrIsAdmin
    <2> QED
      BY <1>2, <1>3, <2>1, FineScreen DEF CheckoutPage
  <1>10. Fine(c, << "notifications" >>)
    <2>1. ASSUME NEW n \in FindNotifications(c)
          PROVE  /\ MarkReadButton(c, n)
                 /\ DeadEnd(c, << "notifications" >>, ActionFor(n)) \/ Reached(c, ActionFor(n))
      <3>1. n \in made /\ n[1] = "notice" /\ n[2] = c.user
        BY DEF FindNotifications, Of
      <3>2. MarkReadButton(c, n)
        BY <3>1 DEF MarkReadButton, ReadNotification, If
      <3>3. \/ \E p \in Parts : \E u \in {Buyer(p), Seller(p)} : n = RowOfNotice(u, p)
            \/ \E g \in OnAuction, u \in Accounts : n = RowOfNotice(u, << "lot", g >>)
        BY <3>1 DEF AccessInv, RowHolds, Order, RowOfReview, RowOfDispute, RowOfRuling, RowOfComment
      <3>4. ASSUME NEW p \in Parts, NEW u \in {Buyer(p), Seller(p)}, n = RowOfNotice(u, p)
            PROVE  DeadEnd(c, << "notifications" >>, ActionFor(n)) \/ Reached(c, ActionFor(n))
        <4>1. n[3] = p /\ c.user = u /\ p[1] = "part" /\ p[2] \in Placed
          BY <3>1, <3>4, PartFields DEF RowOfNotice
        <4>2. CASE u = Seller(p)
          <5>1. ActionFor(n) = << "sellerOrders" >>
            BY <3>1, <4>1, <4>2 DEF ActionFor
          <5> QED
            BY <1>1, <5>1 DEF DeadEnd, Reached, SellerTabs, Static
        <4>3. CASE u # Seller(p)
          <5>1. ActionFor(n) = << "order", p[2] >> /\ BuyerOf[p[2]] = c.user
            BY <3>1, <4>1, <4>3 DEF ActionFor, Buyer
          <5> QED
            BY <4>1, <5>1 DEF Reached, OwnsOrderOrIsAdmin
        <4> QED
          BY <4>2, <4>3
      <3>5. ASSUME NEW g \in OnAuction, NEW u \in Accounts, n = RowOfNotice(u, << "lot", g >>)
            PROVE  Reached(c, ActionFor(n))
        <4>1. n[3] = << "lot", g >>
          BY <3>5 DEF RowOfNotice
        <4>2. n[3][1] = "lot" /\ n[3][2] = g
          BY <4>1
        <4>3. ActionFor(n) = << "auction", g >>
          BY <4>2 DEF ActionFor
        <4> QED
          BY <4>3 DEF Reached
      <3> QED
        BY <3>2, <3>3, <3>4, <3>5
    <2>2. \A to \in {ActionFor(n) : n \in FindNotifications(c)} :
            DeadEnd(c, << "notifications" >>, to) \/ Reached(c, to)
      BY <2>1
    <2>3. SignedIn(c) = TRUE /\ (\A n \in FindNotifications(c) : MarkReadButton(c, n)) = TRUE
      BY <1>1, <2>1
    <2>4. ScreenOf(c, << "notifications" >>) = NotificationsPage(c)
      OBVIOUS
    <2>5. Opens(c, << "notifications" >>)
      BY <1>2
    <2> QED
      BY <2>2, <2>3, <2>4, <2>5, FineScreen DEF NotificationsPage
  <1>11. Fine(c, << "account" >>)
    <2> DEFINE links == CASE c.role = "SELLER" -> {<< "seller" >>}
                          [] c.role = "ADMIN"  -> {<< "admin" >>}
                          [] OTHER             -> {}
    <2>1. \A to \in links : Reached(c, to)
      BY <1>1 DEF Reached, Static, AdminTabs
    <2>2. FindUser(c, c.user) # {} /\ EditProfileNameForm(c)
      BY <1>1 DEF FindUser, FindUserForCaller, EditProfileNameForm, UpdateUser, UpdateUserForCaller,
                  ToPublicUser, If
    <2>3. c.role = "CUSTOMER" => ApplySellerForm(c)
      BY DEF ApplySellerForm, Has
    <2> QED
      BY <1>2, <2>1, <2>2, <2>3, FineScreen DEF AccountPage
  <1> QED
    BY <1>4, <1>5, <1>6, <1>7, <1>8, <1>9, <1>10, <1>11 DEF Static

(* A screen that leads nowhere. *)
LEMMA FineLeaf ==
  ASSUME NEW c, NEW s, Opens(c, s), ScreenOf(c, s) = Screen(TRUE, {}, TRUE)
  PROVE  Fine(c, s)
  BY DEF Fine, Works, Screen

LEMMA RowScreens ==
  ASSUME AccessInv, RolesFollow, NEW c \in claims, UpToDate(c)
  PROVE  /\ \A g \in Wares : Fine(c, << "product", g >>)
         /\ \A g \in OnAuction : Fine(c, << "auction", g >>)
         /\ \A o \in Placed : OwnsOrderOrIsAdmin(c, o) => Fine(c, << "order", o >>)
         /\ \A d \in Of("dispute") : d[3] = c.user => Fine(c, << "dispute", d >>)
  <1>1. c.user \in Accounts /\ SignedIn(c) /\ c \in Callers
    BY ViewerRoles
  <1>2. \A name \in {"product", "auction", "order", "dispute"} : \A x : Opens(c, << name, x >>)
    BY <1>1 DEF Opens, ProtectedRoute, SellerArea, AdminArea
  <1>3. ASSUME NEW g \in Wares
        PROVE  Fine(c, << "product", g >>)
    <2>1. (FindByIdForCatalog(g) # {}) = TRUE
      BY DEF FindByIdForCatalog
    <2>2. ProductReviews(c) = TRUE
      BY DEF ProductReviews, ListReviewable, LeaveReviewForm
    <2>3. \A to \in About("auction", {g} \cap OnAuction) : Reached(c, to)
      BY DEF About, Reached
    <2>4. ScreenOf(c, << "product", g >>) = ProductDetailPage(c, g)
      BY DEF ScreenOf, SellerArea, AdminArea
    <2> QED
      BY <1>2, <2>1, <2>2, <2>3, <2>4, FineScreen DEF ProductDetailPage
  <1>4. ASSUME NEW g \in OnAuction
        PROVE  Fine(c, << "auction", g >>)
    <2>1. (FindPublicAuction(c, g) # {}) = TRUE
      BY DEF FindPublicAuction, ToPublicAuction
    <2>2. PlaceBidForm(c, g)
      BY DEF PlaceBidForm, FindMyProfile, RolesFollow, If
    <2>3. AuctionCheckout(c, g)
      BY DEF AuctionCheckout, FindPublicAuction, ToPublicAuction
    <2>4. ScreenOf(c, << "auction", g >>) = AuctionDetailPage(c, g)
      BY DEF ScreenOf, SellerArea, AdminArea
    <2>5. ScreenOf(c, << "auction", g >>) = Screen(TRUE, {}, TRUE)
      BY <2>1, <2>2, <2>3, <2>4 DEF AuctionDetailPage
    <2>6. Opens(c, << "auction", g >>)
      BY <1>2
    <2> QED
      BY <2>5, <2>6, FineLeaf
  <1>5. ASSUME NEW o \in Placed, OwnsOrderOrIsAdmin(c, o)
        PROVE  Fine(c, << "order", o >>)
    <2>1. (FindOrder(c, o) # {} /\ OrderRoom(c, o) # {}) = TRUE
      BY <1>5 DEF FindOrder, OrderRoom, OwnsOrderOrIsAdmin, WholeOrder, If
    <2>2. InVain(c, << "order", o >>)
      BY <1>5 DEF InVain, RaiseDisputeButton, FindSellerOrderAsBuyer, PartsOf, Part, Buyer,
                  OwnsOrderOrIsAdmin
    <2>3. \A to \in About("product", ItemsOf[o]) : Reached(c, to)
      BY PurchaseAssumption DEF About, Reached, Placed
    <2>4. ScreenOf(c, << "order", o >>) = OrderDetailPage(c, o)
      BY DEF ScreenOf, SellerArea, AdminArea
    <2> QED
      <3>1. Opens(c, << "order", o >>)
        BY <1>2
      <3> DEFINE accepted == \A p \in PartsOf(o) : RaiseDisputeButton(c, p)
      <3>3. ScreenOf(c, << "order", o >>) = Screen(TRUE, About("product", ItemsOf[o]), accepted)
        BY <2>1, <2>4 DEF OrderDetailPage
      <3> HIDE DEF accepted
      <3>2. /\ ScreenOf(c, << "order", o >>).loads
            /\ ScreenOf(c, << "order", o >>).links = About("product", ItemsOf[o])
        BY <3>3 DEF Screen
      <3> QED
        BY <2>2, <2>3, <3>1, <3>2 DEF Fine, Works
  <1>6. ASSUME NEW d \in Of("dispute"), d[3] = c.user
        PROVE  Fine(c, << "dispute", d >>)
    <2>1. CanReadDispute(c, d)
      BY <1>6 DEF CanReadDispute
    <2>2. (FindDispute(c, d) # {} /\ DisputeThread(c, d)) = TRUE /\ AddReply(c, d) = TRUE
      BY <2>1 DEF FindDispute, DisputeWithOrder, DisputeThread, ListComments, AddReply, If,
                  CanReadDispute
    <2>3. d[2] \in Parts /\ d[2][2] \in Placed /\ (d[3] = Buyer(d[2]) \/ d[3] \in Staff)
      BY DisputeFields, PartFields
    <2>4. OwnsOrderOrIsAdmin(c, d[2][2])
      BY <1>6, <2>3 DEF OwnsOrderOrIsAdmin, Buyer, AccessInv, AccountsHold
    <2>5. \A to \in DisputeSubject(d) : Reached(c, to)
      BY <2>3, <2>4, PurchaseAssumption DEF DisputeSubject, About, Reached, Placed
    <2>6. ScreenOf(c, << "dispute", d >>) = DisputeDetailPage(c, d)
      BY DEF ScreenOf, SellerArea, AdminArea
    <2> QED
      BY <1>2, <2>2, <2>5, <2>6, FineScreen DEF DisputeDetailPage
  <1> QED
    BY <1>3, <1>4, <1>5, <1>6

(* The seller's dashboard. *)
LEMMA FineTab ==
  ASSUME NEW c, NEW s, NEW links,
         s[1] \in SellerArea, Has(c, {"SELLER"}), SignedIn(c), Approved(c.user),
         SellerScreen(c, s) = Screen(TRUE, links, TRUE),
         \A to \in links : DeadEnd(c, s, to) \/ Reached(c, to)
  PROVE  Fine(c, s)
  <1>1. ScreenOf(c, s) = InDashboard(c, SellerScreen(c, s))
    BY DEF ScreenOf, SellerArea, AdminArea
  <1>2. ScreenOf(c, s).accepted = TRUE /\ ScreenOf(c, s).links = links
    BY <1>1 DEF InDashboard, Screen
  <1>3. ScreenOf(c, s).loads = (SellerLayout(c) /\ TRUE)
    BY <1>1 DEF InDashboard, Screen
  <1>4. ScreenOf(c, s).loads
    BY <1>3 DEF SellerLayout
  <1>5. Opens(c, s)
    <2>1. ProtectedRoute(c, {"SELLER"})
      BY DEF ProtectedRoute
    <2> QED
      BY <2>1 DEF Opens, SellerArea, AdminArea
  <1> QED
    BY <1>2, <1>4, <1>5 DEF Fine, Works

LEMMA FineLeafTab ==
  ASSUME NEW c, NEW s, s[1] \in SellerArea, Has(c, {"SELLER"}), SignedIn(c), Approved(c.user),
         SellerScreen(c, s) = Screen(TRUE, {}, TRUE)
  PROVE  Fine(c, s)
  <1> DEFINE links == {}
  <1>1. SellerScreen(c, s) = Screen(TRUE, links, TRUE)
    OBVIOUS
  <1>2. \A to \in links : DeadEnd(c, s, to) \/ Reached(c, to)
    OBVIOUS
  <1> HIDE DEF links
  <1> QED
    BY <1>1, <1>2, FineTab

LEMMA SellerScreens ==
  ASSUME AccessInv, RolesFollow, NEW c \in claims, UpToDate(c), c.role = "SELLER"
  PROVE  /\ \A s \in Static({"seller", "sellerNewProduct"}) \union SellerTabs : Fine(c, s)
         /\ \A g \in Wares : OwnerOf[g] = c.user => Fine(c, << "sellerProduct", g >>)
         /\ \A d \in Of("dispute") : Seller(d[2]) = c.user => Fine(c, << "sellerDispute", d >>)
  <1>1. Has(c, {"SELLER"}) /\ SignedIn(c) /\ Approved(c.user) /\ AsSeller(c)
    BY ViewerRoles DEF AsSeller
  <1>2. \A g \in Wares : OwnerOf[g] = c.user => EditProduct(c, g)
    BY <1>1 DEF EditProduct, ChangeProduct, OwnsProductOrIsAdmin, ProductRows, Has, If
  <1>3. \A g \in OwnListings(c) : g \in Wares /\ OwnerOf[g] = c.user
    <2>1. ASSUME NEW g \in OwnListings(c)
          PROVE  OwnerOf[g] = c.user
      BY DEF OwnListings, ListOwnProducts, ProductRows, If
    <2> QED
      BY <2>1 DEF OwnListings, Listed
  <1>4. (\A g \in OwnListings(c) : EditProduct(c, g)) = TRUE
    BY <1>2, <1>3
  <1>5. \A to \in About("sellerProduct", OwnListings(c)) : Reached(c, to)
    BY <1>3 DEF About, Reached
  <1>6. Fine(c, << "seller" >>)
    <2>1. (GetMySellerReport(c) # {}) = TRUE
      BY <1>1 DEF GetMySellerReport, If
    <2>2. SellerScreen(c, << "seller" >>) = SellerOverviewPage(c)
      BY DEF SellerScreen
    <2>3. SellerScreen(c, << "seller" >>) = Screen(TRUE, {}, TRUE)
      BY <2>1, <2>2 DEF SellerOverviewPage
    <2>4. << "seller" >>[1] \in SellerArea
      BY DEF SellerArea
    <2> QED
      BY <1>1, <2>3, <2>4, FineLeafTab
  <1>7. Fine(c, << "sellerProducts" >>)
    <2>1. AsSeller(c) = TRUE
      BY <1>1 DEF AsSeller
    <2>2. Reached(c, << "sellerNewProduct" >>)
      BY DEF Reached, Static
    <2>3. SellerScreen(c, << "sellerProducts" >>) = SellerProductsPage(c)
      BY DEF SellerScreen
    <2> DEFINE links == {<< "sellerNewProduct" >>} \union About("sellerProduct", OwnListings(c))
    <2>4. SellerScreen(c, << "sellerProducts" >>) = Screen(TRUE, links, TRUE)
      BY <1>4, <2>1, <2>3 DEF SellerProductsPage
    <2>5. \A to \in links : DeadEnd(c, << "sellerProducts" >>, to) \/ Reached(c, to)
      BY <1>5, <2>2
    <2>6. << "sellerProducts" >>[1] \in SellerArea
      BY DEF SellerArea
    <2> HIDE DEF links
    <2> QED
      BY <1>1, <2>4, <2>5, <2>6, FineTab
  <1>8. Fine(c, << "sellerNewProduct" >>)
    <2>1. (CreateProductForm(c) /\ \A g \in OwnListings(c) : EditProduct(c, g)) = TRUE
      BY <1>1, <1>4 DEF CreateProductForm
    <2>2. SellerScreen(c, << "sellerNewProduct" >>) = SellerProductNewPage(c)
      BY DEF SellerScreen
    <2> DEFINE links == About("sellerProduct", OwnListings(c))
    <2>3. SellerScreen(c, << "sellerNewProduct" >>) = Screen(TRUE, links, TRUE)
      BY <2>1, <2>2 DEF SellerProductNewPage
    <2>4. \A to \in links : DeadEnd(c, << "sellerNewProduct" >>, to) \/ Reached(c, to)
      BY <1>5
    <2>5. << "sellerNewProduct" >>[1] \in SellerArea
      BY DEF SellerArea
    <2> HIDE DEF links
    <2> QED
      BY <1>1, <2>3, <2>4, <2>5, FineTab
  <1>9. Fine(c, << "sellerAuctions" >>)
    <2>1. (\A g \in Listed \ hidden : OwnerOf[g] = c.user => CreateAuctionForm(c, g)) = TRUE
      BY <1>1 DEF CreateAuctionForm
    <2>2. \A to \in About("auction", {g \in OnAuction : OwnerOf[g] = c.user}) : Reached(c, to)
      BY DEF About, Reached
    <2>3. SellerScreen(c, << "sellerAuctions" >>) = SellerAuctionsPage(c)
      BY DEF SellerScreen
    <2> DEFINE links == About("auction", {g \in OnAuction : OwnerOf[g] = c.user})
    <2>4. SellerScreen(c, << "sellerAuctions" >>) = Screen(TRUE, links, TRUE)
      BY <2>1, <2>3 DEF SellerAuctionsPage
    <2>5. \A to \in links : DeadEnd(c, << "sellerAuctions" >>, to) \/ Reached(c, to)
      BY <2>2
    <2>6. << "sellerAuctions" >>[1] \in SellerArea
      BY DEF SellerArea
    <2> HIDE DEF links
    <2> QED
      BY <1>1, <2>4, <2>5, <2>6, FineTab
  <1>10. Fine(c, << "sellerOrders" >>)
    <2>1. AsSeller(c) = TRUE
      BY <1>1 DEF AsSeller
    <2>2. (\A p \in FindMySellerOrders(c) : SellerOrderStatusControl(c, p)) = TRUE
      BY <1>1 DEF FindMySellerOrders, FindBySeller, SellerOrderStatusControl,
                  UpdateSellerOrderStatus, OwnsSellerOrderOrIsAdmin, Has, If
    <2>3. SellerScreen(c, << "sellerOrders" >>) = SellerOrdersPage(c)
      BY DEF SellerScreen
    <2>4. SellerScreen(c, << "sellerOrders" >>) = Screen(TRUE, {}, TRUE)
      BY <2>1, <2>2, <2>3 DEF SellerOrdersPage
    <2>5. << "sellerOrders" >>[1] \in SellerArea
      BY DEF SellerArea
    <2> QED
      BY <1>1, <2>4, <2>5, FineLeafTab
  <1>11. Fine(c, << "sellerDisputes" >>)
    <2>1. AsSeller(c) = TRUE
      BY <1>1 DEF AsSeller
    <2>2. \A to \in About("sellerDispute", ListDisputesForSeller(c)) : Reached(c, to)
      BY DEF About, Reached, ListDisputesForSeller, DisputesOf, If
    <2>3. SellerScreen(c, << "sellerDisputes" >>) = SellerDisputesPage(c)
      BY DEF SellerScreen
    <2> DEFINE links == About("sellerDispute", ListDisputesForSeller(c))
    <2>4. SellerScreen(c, << "sellerDisputes" >>) = Screen(TRUE, links, TRUE)
      BY <2>1, <2>3 DEF SellerDisputesPage
    <2>5. \A to \in links : DeadEnd(c, << "sellerDisputes" >>, to) \/ Reached(c, to)
      BY <2>2
    <2>6. << "sellerDisputes" >>[1] \in SellerArea
      BY DEF SellerArea
    <2> HIDE DEF links
    <2> QED
      BY <1>1, <2>4, <2>5, <2>6, FineTab
  <1>12. ASSUME NEW g \in Wares, OwnerOf[g] = c.user
         PROVE  Fine(c, << "sellerProduct", g >>)
    <2>1. (FindByIdForCatalog(g) # {}) = TRUE /\ EditProduct(c, g) = TRUE
      BY <1>2, <1>12 DEF FindByIdForCatalog, EditProduct
    <2>2. Reached(c, << "sellerAuctions" >>)
      BY DEF Reached, Static, SellerTabs
    <2>3. SellerScreen(c, << "sellerProduct", g >>) = SellerProductEditPage(c, g)
      BY DEF SellerScreen
    <2> DEFINE links == {<< "sellerAuctions" >>}
    <2>4. SellerScreen(c, << "sellerProduct", g >>) = Screen(TRUE, links, TRUE)
      BY <2>1, <2>3 DEF SellerProductEditPage
    <2>5. \A to \in links : DeadEnd(c, << "sellerProduct", g >>, to) \/ Reached(c, to)
      BY <2>2
    <2> HIDE DEF links
    <2>6. << "sellerProduct", g >>[1] \in SellerArea
      BY DEF SellerArea
    <2> QED
      BY <1>1, <2>4, <2>5, <2>6, FineTab
  <1>13. ASSUME NEW d \in Of("dispute"), Seller(d[2]) = c.user
         PROVE  Fine(c, << "sellerDispute", d >>)
    <2>1. CanReadDispute(c, d)
      BY <1>1, <1>13 DEF CanReadDispute, Approved, Profiled
    <2>2. (FindDispute(c, d) # {} /\ DisputeThread(c, d)) = TRUE /\ AddReply(c, d) = TRUE
      BY <2>1 DEF FindDispute, DisputeWithOrder, DisputeThread, ListComments, AddReply, If,
                  CanReadDispute
    <2>3. d[2] \in Parts /\ d[2][2] \in Placed
      BY DisputeFields, PartFields
    <2>4. \A to \in DisputeSubject(d) : DeadEnd(c, << "sellerDispute", d >>, to) \/ Reached(c, to)
      BY <2>3, PurchaseAssumption DEF DisputeSubject, About, Reached, Placed, DeadEnd
    <2>5. SellerScreen(c, << "sellerDispute", d >>) = DisputeDetailPage(c, d)
      BY DEF SellerScreen
    <2>6. SellerScreen(c, << "sellerDispute", d >>) = Screen(TRUE, DisputeSubject(d), TRUE)
      BY <2>2, <2>5 DEF DisputeDetailPage
    <2>7. \A to \in DisputeSubject(d) : DeadEnd(c, << "sellerDispute", d >>, to) \/ Reached(c, to)
      BY <2>4
    <2>8. << "sellerDispute", d >>[1] \in SellerArea
      BY DEF SellerArea
    <2> QED
      BY <1>1, <2>6, <2>7, <2>8, FineTab
  <1> QED
    BY <1>6, <1>7, <1>8, <1>9, <1>10, <1>11, <1>12, <1>13 DEF Static, SellerTabs

LEMMA AdminScreens ==
  ASSUME AccessInv, RolesFollow, NEW c \in claims, UpToDate(c), c.role = "ADMIN"
  PROVE  \A s \in AdminTabs : Fine(c, s)
  <1>1. IsAdmin(c) /\ SignedIn(c) /\ Has(c, {"ADMIN"}) = TRUE
    BY ViewerRoles DEF Has
  <1>2. \A name \in AdminArea : Opens(c, << name >>)
    BY <1>1 DEF Opens, ProtectedRoute, Has, SellerArea, AdminArea
  <1>3. Fine(c, << "admin" >>)
    <2>1. ScreenOf(c, << "admin" >>) = AdminOverviewPage(c)
      BY DEF ScreenOf, AdminScreen, SellerArea, AdminArea
    <2>2. ScreenOf(c, << "admin" >>) = Screen(TRUE, {}, TRUE)
      BY <1>1, <2>1 DEF AdminOverviewPage
    <2>3. Opens(c, << "admin" >>)
      BY <1>2 DEF AdminArea
    <2> QED
      BY <2>2, <2>3, FineLeaf
  <1>4. Fine(c, << "adminSellers" >>)
    <2>1. ((\E u \in Accounts : Profiled(u)) => ReviewSellerApplicationControl(c)) = TRUE
      BY <1>1 DEF ReviewSellerApplicationControl, ListSellerApplications, If
    <2>2. ScreenOf(c, << "adminSellers" >>) = AdminSellersPage(c)
      BY DEF ScreenOf, AdminScreen, SellerArea, AdminArea
    <2>3. ScreenOf(c, << "adminSellers" >>) = Screen(TRUE, {}, TRUE)
      BY <1>1, <2>1, <2>2 DEF AdminSellersPage
    <2>4. Opens(c, << "adminSellers" >>)
      BY <1>2 DEF AdminArea
    <2> QED
      BY <2>3, <2>4, FineLeaf
  <1>5. Fine(c, << "adminProducts" >>)
    <2>1. (\A g \in Listed : ModerateProductControl(c, g)) = TRUE
      BY <1>1 DEF ModerateProductControl, ModerateProduct, ProductRows, If
    <2>2. ScreenOf(c, << "adminProducts" >>) = AdminProductsPage(c)
      BY DEF ScreenOf, AdminScreen, SellerArea, AdminArea
    <2>3. ScreenOf(c, << "adminProducts" >>) = Screen(TRUE, {}, TRUE)
      BY <1>1, <2>1, <2>2 DEF AdminProductsPage
    <2>4. Opens(c, << "adminProducts" >>)
      BY <1>2 DEF AdminArea
    <2> QED
      BY <2>3, <2>4, FineLeaf
  <1>6. Fine(c, << "adminOrders" >>)
    <2>1. (\A p \in Parts : SellerOrderStatusControl(c, p)) = TRUE
      BY <1>1 DEF SellerOrderStatusControl, UpdateSellerOrderStatus, OwnsSellerOrderOrIsAdmin,
                  Has, IsAdmin, If
    <2>2. \A to \in About("order", Placed) : Reached(c, to)
      BY <1>1 DEF About, Reached, OwnsOrderOrIsAdmin
    <2>3. ScreenOf(c, << "adminOrders" >>) = AdminOrdersPage(c)
      BY DEF ScreenOf, AdminScreen, SellerArea, AdminArea
    <2> QED
      BY <1>1, <1>2, <2>1, <2>2, <2>3, FineScreen DEF AdminOrdersPage, AdminArea
  <1>7. Fine(c, << "adminDisputes" >>)
    <2>1. \A d \in ListDisputes(c) : d \in Of("dispute")
      BY DEF ListDisputes, DisputesOf, If
    <2>2. \A d : FindDispute(c, d) # {} /\ DisputeThread(c, d) /\ AddReply(c, d)
                 /\ ResolveDisputeControl(c, d)
      BY <1>1 DEF FindDispute, CanReadDispute, DisputeWithOrder, DisputeThread, ListComments,
                  AddReply, ResolveDisputeControl, ResolveDispute, If
    <2>3. ASSUME NEW d \in Of("dispute"), NEW to \in DisputeSubject(d)
          PROVE  Reached(c, to)
      <3>1. d[2] \in Parts /\ d[2][2] \in Placed
        BY DisputeFields, PartFields
      <3> QED
        BY <1>1, <3>1, PurchaseAssumption
           DEF DisputeSubject, About, Reached, Placed, OwnsOrderOrIsAdmin
    <2>4. \A to \in UNION {DisputeSubject(d) : d \in ListDisputes(c)} : Reached(c, to)
      BY <2>1, <2>3
    <2>5. (\A d \in ListDisputes(c) : AddReply(c, d) /\ ResolveDisputeControl(c, d)) = TRUE
      BY <2>2
    <2>6. (/\ Has(c, {"ADMIN"})
           /\ \A d \in ListDisputes(c) : FindDispute(c, d) # {} /\ DisputeThread(c, d)) = TRUE
      BY <1>1, <2>2
    <2>7. ScreenOf(c, << "adminDisputes" >>) = AdminDisputesPage(c)
      BY DEF ScreenOf, AdminScreen, SellerArea, AdminArea
    <2>8. Opens(c, << "adminDisputes" >>)
      BY <1>2 DEF AdminArea
    <2> QED
      BY <2>4, <2>5, <2>6, <2>7, <2>8, FineScreen DEF AdminDisputesPage
  <1> QED
    BY <1>3, <1>4, <1>5, <1>6, <1>7 DEF AdminTabs, AdminArea, Static

LEMMA ReachedScreens ==
  ASSUME AccessInv, RolesFollow, NEW c \in claims, UpToDate(c), NEW s, Reached(c, s)
  PROVE  Fine(c, s)
  BY CommonScreens, RowScreens, SellerScreens, AdminScreens DEF Reached

(* Both roles and profiles may change under a viewer, and rows of all kinds  *)
(* come and go; while his token is up to date every screen he can click to   *)
(* opens, loads and shows no button that is refused, but for that of a       *)
(* second dispute (ProtectedRoute, the pages, and the guards of the API).    *)
THEOREM AllScreensWork == AccessInit /\ [][AccessNext]_accessVars => []ScreensWork
  <1>1. AccessInit => AccessInv /\ RolesFollow
    BY AccessStarts, RolesStart
  <1>2. AccessInv /\ RolesFollow /\ [AccessNext]_accessVars => (AccessInv /\ RolesFollow)'
    BY AccessHolds, RolesHold
  <1>3. AccessInv /\ RolesFollow => ScreensWork
    <2> SUFFICES ASSUME AccessInv, RolesFollow, NEW c \in claims, UpToDate(c)
                 PROVE  LET Clicks(S) == UNION {{to \in ScreenOf(c, s).links : ~DeadEnd(c, s, to)} :
                                                  s \in S}
                            first == AppHeader(c)
                            second == Clicks(first)
                        IN /\ \A s \in first \union second : Works(c, s)
                           /\ \A s \in Clicks(second) \ (first \union second) : Works(c, s)
      BY DEF ScreensWork
    <2> DEFINE Clicks(S) == UNION {{to \in ScreenOf(c, s).links : ~DeadEnd(c, s, to)} : s \in S}
               first == AppHeader(c)
               second == Clicks(first)
    <2>1. \A s : Reached(c, s) => Works(c, s)
      BY ReachedScreens DEF Fine
    <2>2. ASSUME NEW S, \A s \in S : Reached(c, s)
          PROVE  \A to \in Clicks(S) : Reached(c, to)
      BY <2>2, ReachedScreens DEF Fine
    <2>3. \A s \in first : Reached(c, s)
      BY DEF AppHeader, Reached, Static, SellerTabs, AdminTabs, If
    <2> HIDE DEF Clicks, first
    <2>4. \A s \in second : Reached(c, s)
      BY <2>2, <2>3
    <2>5. \A s \in Clicks(second) : Reached(c, s)
      BY <2>2, <2>4
    <2> QED
      BY <2>1, <2>3, <2>4, <2>5 DEF Clicks, first
  <1> QED
    BY <1>1, <1>2, <1>3, PTL

-----------------------------------------------------------------------------
(* Seed: the statements in order.  What a recursive function computes goes  *)
(* by the least argument at which it would not.                             *)

LEMMA LeastOf ==
  ASSUME NEW B \in SUBSET Nat, B # {}
  PROVE  \E m \in B : \A k \in B : m <= k
  <1>1. PICK m \in B : \A k \in B : ~(<< k, m >> \in OpToRel(<, Nat))
    BY NatLessThanWellFounded, WFMin, Zenon
  <1>2. \A k \in B : ~(k < m)
    BY <1>1 DEF OpToRel
  <1> QED
    BY <1>2

Joins(f, seqs, n) == f = [k \in 0 .. n |-> IF k = 0 THEN << >> ELSE f[k - 1] \o seqs[k]]

LEMMA FlatIs ==
  ASSUME NEW seqs
  PROVE  Flat(seqs) = (CHOOSE f : Joins(f, seqs, Len(seqs)))[Len(seqs)]
  BY DEF Flat, Joins

LEMMA JoinExists ==
  ASSUME NEW seqs, NEW n \in Nat
  PROVE  \E f : Joins(f, seqs, n)
  <1> DEFINE B == {k \in Nat : ~ \E f : Joins(f, seqs, k)}
  <1> SUFFICES ASSUME B # {} PROVE FALSE
    OBVIOUS
  <1>1. PICK m \in B : \A k \in B : m <= k
    <2>1. B \in SUBSET Nat
      OBVIOUS
    <2> HIDE DEF B
    <2> QED
      BY <2>1, LeastOf
  <1>2. m # 0
    <2>1. Joins([k \in 0 .. 0 |-> << >>], seqs, 0)
      BY DEF Joins
    <2> QED
      BY <1>1, <2>1
  <1>3. m - 1 \in Nat /\ m - 1 \notin B
    <2>1. m - 1 \in Nat /\ ~(m <= m - 1)
      BY <1>1, <1>2
    <2> HIDE DEF B
    <2> QED
      BY <1>1, <2>1
  <1>4. PICK g : Joins(g, seqs, m - 1)
    BY <1>3
  <1> DEFINE f == [k \in 0 .. m |-> IF k = m THEN g[m - 1] \o seqs[m] ELSE g[k]]
  <1>5. \A k \in 0 .. m - 1 : g[k] = IF k = 0 THEN << >> ELSE g[k - 1] \o seqs[k]
    BY <1>4 DEF Joins
  <1>6. \A k \in 0 .. m : f[k] = IF k = 0 THEN << >> ELSE f[k - 1] \o seqs[k]
    BY <1>2, <1>3, <1>5
  <1>7. Joins(f, seqs, m)
    BY <1>6 DEF Joins
  <1> QED
    BY <1>1, <1>7

(* Some sequence of statements is a sequence of blocks: every statement of  *)
(* it is in a block that is there whole.                                    *)
Singles ==
  {Do("admin", Admin), Do("applicant", Applicant), Do("application", Applicant)}
    \union {Do("category", c) : c \in Categories}
    \union {Do("seller", s) : s \in Sellers} \union {Do("profile", s) : s \in Sellers}
    \union {Do("reviewer", r) : r \in Reviewers}
    \union {Do("product", g) : g \in AllGoods} \union {Do("inventory", g) : g \in AllGoods}
    \union {Do("sync", g) : g \in AllGoods}
AuctionSteps(g) == << Do("findAuction", g), Do("auction", g) >>
Statements ==
  Singles
    \union {Do("findAuction", g) : g \in AllGoods} \union {Do("auction", g) : g \in AllGoods}
    \union {Do("findReview", x) : x \in Pairs} \union {Do("order", x) : x \in Pairs}
    \union {Do("review", x) : x \in Pairs}
    \union {Do("findDispute", Complaint), Do("dispute", Complaint)}
Blocks ==
  {<< s >> : s \in Singles} \union {AuctionSteps(g) : g \in AllGoods}
    \union {ReviewSteps(x) : x \in Pairs \ {Complaint}} \union {DisputeSteps}

There(q, j, b) == \A i \in 1 .. Len(b) : j + i \in 1 .. Len(q) /\ q[j + i] = b[i]
InBlock(q, n) == \E b \in Blocks : \E k \in 1 .. Len(b) : There(q, n - k, b)
Planned(q) == q \in Seq(Statements) /\ \A n \in 1 .. Len(q) : InBlock(q, n)

LEMMA BlockTypes ==
  ASSUME NEW b \in Blocks
  PROVE  b \in Seq(Statements) /\ Planned(b)
  <1>1. b \in Seq(Statements)
    <2>1. Complaint \in Pairs
      BY DEF Pairs
    <2>2. ASSUME NEW s \in Singles, b = << s >>
          PROVE  b \in Seq(Statements)
      BY <2>2 DEF Statements
    <2>3. ASSUME NEW g \in AllGoods, b = AuctionSteps(g)
          PROVE  b \in Seq(Statements)
      BY <2>3 DEF Statements, AuctionSteps
    <2>4. ASSUME NEW x \in Pairs, b = ReviewSteps(x)
          PROVE  b \in Seq(Statements)
      BY <2>4 DEF Statements, ReviewSteps
    <2>5. ASSUME b = DisputeSteps
          PROVE  b \in Seq(Statements)
      BY <2>1, <2>5 DEF Statements, DisputeSteps
    <2> QED
      BY <2>2, <2>3, <2>4, <2>5 DEF Blocks
  <1>2. ASSUME NEW n \in 1 .. Len(b)
        PROVE  InBlock(b, n)
    <2>1. Len(b) \in Nat
      BY <1>1
    <2>2. There(b, n - n, b)
      BY <2>1 DEF There
    <2> QED
      BY <2>2 DEF InBlock
  <1> QED
    BY <1>1, <1>2 DEF Planned

LEMMA PlansJoin ==
  ASSUME NEW a, NEW b, Planned(a), Planned(b)
  PROVE  Planned(a \o b)
  <1> DEFINE q == a \o b
  <1>1. /\ a \in Seq(Statements) /\ b \in Seq(Statements) /\ q \in Seq(Statements)
        /\ Len(a) \in Nat /\ Len(b) \in Nat /\ Len(q) = Len(a) + Len(b)
        /\ \A i \in 1 .. Len(a) : q[i] = a[i]
        /\ \A i \in 1 .. Len(b) : q[Len(a) + i] = b[i]
    BY DEF Planned
  <1> HIDE DEF q
  <1>2. ASSUME NEW n \in 1 .. Len(a)
        PROVE  InBlock(q, n)
    <2>1. PICK c \in Blocks : \E k \in 1 .. Len(c) : There(a, n - k, c)
      BY DEF Planned, InBlock
    <2> PICK k \in 1 .. Len(c) : There(a, n - k, c)
      BY <2>1
    <2>2. ASSUME NEW i \in 1 .. Len(c)
          PROVE  n - k + i \in 1 .. Len(q) /\ q[n - k + i] = c[i]
      <3> DEFINE j == n - k + i
      <3>1. j \in 1 .. Len(a) /\ a[j] = c[i]
        BY <2>1, <2>2 DEF There
      <3> HIDE DEF j
      <3>2. j \in 1 .. Len(q) /\ q[j] = c[i]
        BY <1>1, <3>1
      <3> QED
        BY <3>2 DEF j
    <2>3. There(q, n - k, c)
      BY <2>2 DEF There
    <2> QED
      BY <2>1, <2>3 DEF InBlock
  <1>3. ASSUME NEW m \in 1 .. Len(b)
        PROVE  InBlock(q, Len(a) + m)
    <2>1. PICK c \in Blocks : \E k \in 1 .. Len(c) : There(b, m - k, c)
      BY DEF Planned, InBlock
    <2> PICK k \in 1 .. Len(c) : There(b, m - k, c)
      BY <2>1
    <2>2. Len(c) \in Nat
      BY <2>1, BlockTypes
    <2>3. ASSUME NEW i \in 1 .. Len(c)
          PROVE  /\ (Len(a) + m) - k + i \in 1 .. Len(q)
                 /\ q[(Len(a) + m) - k + i] = c[i]
      <3> DEFINE j == m - k + i
      <3>1. j \in 1 .. Len(b) /\ b[j] = c[i]
        BY <2>1, <2>3 DEF There
      <3>2. (Len(a) + m) - k + i = Len(a) + j
        BY <1>1, <2>1, <2>2
      <3> HIDE DEF j
      <3>3. q[Len(a) + j] = c[i] /\ Len(a) + j \in 1 .. Len(q)
        BY <1>1, <3>1
      <3> QED
        BY <3>2, <3>3
    <2>4. There(q, (Len(a) + m) - k, c)
      BY <2>3 DEF There
    <2> QED
      BY <2>1, <2>4 DEF InBlock
  <1>4. \A n \in 1 .. Len(q) : n \in 1 .. Len(a) \/ \E m \in 1 .. Len(b) : n = Len(a) + m
    <2> SUFFICES ASSUME NEW n \in 1 .. Len(q), n \notin 1 .. Len(a)
                 PROVE  \E m \in 1 .. Len(b) : n = Len(a) + m
      OBVIOUS
    <2>1. n - Len(a) \in 1 .. Len(b) /\ n = Len(a) + (n - Len(a))
      BY <1>1
    <2> QED
      BY <2>1
  <1>5. \A n \in 1 .. Len(q) : InBlock(q, n)
    BY <1>2, <1>3, <1>4
  <1> QED
    BY <1>1, <1>5 DEF Planned, q

LEMMA FlatPlanned ==
  ASSUME NEW seqs, Len(seqs) \in Nat, \A n \in 1 .. Len(seqs) : Planned(seqs[n])
  PROVE  Planned(Flat(seqs))
  <1> DEFINE f == CHOOSE f : Joins(f, seqs, Len(seqs))
  <1>1. Joins(f, seqs, Len(seqs))
    BY JoinExists
  <1>2. Flat(seqs) = f[Len(seqs)]
    BY FlatIs
  <1> HIDE DEF f
  <1>3. \A k \in 0 .. Len(seqs) : f[k] = IF k = 0 THEN << >> ELSE f[k - 1] \o seqs[k]
    BY <1>1 DEF Joins
  <1> DEFINE B == {k \in 0 .. Len(seqs) : ~Planned(f[k])}
  <1>4. B = {}
    <2> SUFFICES ASSUME B # {} PROVE FALSE
      OBVIOUS
    <2>1. PICK m \in B : \A k \in B : m <= k
      <3>1. B \in SUBSET Nat
        OBVIOUS
      <3> HIDE DEF B
      <3> QED
        BY <3>1, LeastOf
    <2>2. m \in 0 .. Len(seqs) /\ ~Planned(f[m])
      OBVIOUS
    <2>3. CASE m = 0
      <3>1. Planned(<< >>)
        BY DEF Planned
      <3> QED
        BY <1>3, <2>2, <2>3, <3>1
    <2>4. CASE m # 0
      <3>1. m - 1 \in 0 .. Len(seqs) /\ m \in 1 .. Len(seqs) /\ ~(m <= m - 1)
        BY <2>2, <2>4
      <3>2. Planned(f[m - 1])
        BY <2>1, <3>1
      <3>3. f[m] = f[m - 1] \o seqs[m]
        BY <1>3, <2>2, <2>4
      <3> QED
        BY <2>2, <3>1, <3>2, <3>3, PlansJoin
    <2> QED
      BY <2>3, <2>4
  <1>5. Len(seqs) \in 0 .. Len(seqs)
    OBVIOUS
  <1> QED
    BY <1>2, <1>4, <1>5

LEMMA SinglesPlanned ==
  ASSUME NEW q \in Seq(Singles)
  PROVE  Planned(q)
  <1>1. q \in Seq(Statements) /\ Len(q) \in Nat
    BY DEF Statements
  <1>2. ASSUME NEW n \in 1 .. Len(q)
        PROVE  InBlock(q, n)
    <2> DEFINE b == << q[n] >>
    <2>1. b \in Blocks
      BY <1>2 DEF Blocks
    <2>2. Len(b) = 1 /\ b[1] = q[n]
      OBVIOUS
    <2> HIDE DEF b
    <2>3. (n - 1) + 1 = n /\ 1 \in 1 .. 1
      BY <1>1
    <2>4. There(q, n - 1, b)
      BY <2>2, <2>3 DEF There
    <2>5. 1 \in 1 .. Len(b)
      BY <2>2
    <2> QED
      BY <2>1, <2>4, <2>5 DEF InBlock
  <1> QED
    BY <1>1, <1>2 DEF Planned

(* A finite set has an order. *)
LEMMA OrderOf ==
  ASSUME NEW S, IsFiniteSet(S)
  PROVE  InOrder(S) \in Seq(S)
  <1>1. PICK f : f \in Bijection(1 .. Cardinality(S), S)
    BY FS_CardinalityType DEF ExistsBijection
  <1>2. f \in [1 .. Cardinality(S) -> S] /\ \A u \in S : \E n \in DOMAIN f : f[n] = u
    BY <1>1 DEF Bijection, Injection, Surjection
  <1>3. InOrder(S) \in [1 .. Cardinality(S) -> S]
    BY <1>2 DEF InOrder
  <1>4. Cardinality(S) \in Nat
    BY FS_CardinalityType
  <1> QED
    BY <1>3, <1>4

LEMMA FiniteRange ==
  ASSUME NEW S, IsFiniteSet(S), NEW f
  PROVE  IsFiniteSet({f[x] : x \in S})
  <1> DEFINE T == {f[x] : x \in S}
             g == [x \in S |-> f[x]]
  <1>1. g \in Surjection(S, T)
    BY DEF Surjection
  <1> QED
    BY <1>1, FS_Surjection

LEMMA GoodsTypes ==
  /\ \A s \in Sellers : Goods(s) \in Seq(AllGoods) /\ Lot[s] \in AllGoods
  /\ Lots \subseteq AllGoods /\ IsFiniteSet(AllGoods)
  <1>1. ASSUME NEW s \in Sellers
        PROVE  Goods(s) \in Seq(AllGoods) /\ Lot[s] \in AllGoods
    <2>1. Products[s] \in Seq(AllGoods)
      BY SeedAssumption
    <2>2. /\ Len(Products[s]) + 1 \in 1 .. Len(Goods(s))
          /\ Goods(s)[Len(Products[s]) + 1] = Lot[s]
      BY <2>1 DEF Goods
    <2>3. Lot[s] \in AllGoods
      BY <2>2 DEF AllGoods
    <2> QED
      BY <2>1, <2>3 DEF Goods
  <1>2. IsFiniteSet(AllGoods)
    <2> DEFINE range == [s \in Sellers |-> {Goods(s)[n] : n \in 1 .. Len(Goods(s))}]
               T == {range[s] : s \in Sellers}
    <2>1. ASSUME NEW s \in Sellers
          PROVE  IsFiniteSet(range[s])
      <3> DEFINE g == Goods(s)
      <3>1. g \in Seq(AllGoods)
        BY <1>1
      <3>2. range[s] = {g[n] : n \in 1 .. Len(g)}
        OBVIOUS
      <3> HIDE DEF g
      <3>3. IsFiniteSet(1 .. Len(g))
        BY <3>1, FS_Interval
      <3>4. IsFiniteSet({g[n] : n \in 1 .. Len(g)})
        BY <3>3, FiniteRange
      <3> QED
        BY <3>2, <3>4
    <2>2. AllGoods = UNION T
      BY DEF AllGoods
    <2> HIDE DEF range
    <2>3. IsFiniteSet(T)
      BY SeedAssumption, FiniteRange
    <2> HIDE DEF T
    <2>4. \A S \in T : IsFiniteSet(S)
      BY <2>1 DEF T
    <2> QED
      BY <2>2, <2>3, <2>4, FS_UNION
  <1> QED
    BY <1>1, <1>2 DEF Lots

LEMMA ProductsPlanned ==
  ASSUME NEW g \in AllGoods
  PROVE  Planned(ProductSteps(g))
  <1> DEFINE first == << Do("product", g), Do("inventory", g) >>
             then == IF g \in Lots THEN AuctionSteps(g) ELSE << >>
  <1>1. Planned(first)
    <2>1. first \in Seq(Singles)
      BY DEF Singles
    <2> QED
      BY <2>1, SinglesPlanned
  <1>2. Planned(then)
    <2>1. Planned(<< >>)
      BY DEF Planned
    <2>2. Planned(AuctionSteps(g))
      BY BlockTypes DEF Blocks
    <2> QED
      BY <2>1, <2>2
  <1>3. ProductSteps(g) = first \o then
    BY DEF ProductSteps, AuctionSteps
  <1> HIDE DEF first, then
  <1> QED
    BY <1>1, <1>2, <1>3, PlansJoin

LEMMA SellersPlanned ==
  ASSUME NEW s \in Sellers
  PROVE  Planned(SellerSteps(s))
  <1> DEFINE first == << Do("seller", s), Do("profile", s) >>
             g == Goods(s)
             steps == [n \in 1 .. Len(g) |-> ProductSteps(g[n])]
  <1>1. Planned(first)
    <2>1. first \in Seq(Singles)
      BY DEF Singles
    <2> QED
      BY <2>1, SinglesPlanned
  <1>2. g \in Seq(AllGoods)
    BY GoodsTypes
  <1>3. SellerSteps(s) = first \o Flat(steps)
    BY DEF SellerSteps, Each
  <1> HIDE DEF g
  <1>4. Len(steps) = Len(g) /\ Len(g) \in Nat
    BY <1>2
  <1>5. \A n \in 1 .. Len(g) : Planned(steps[n])
    BY <1>2, ProductsPlanned
  <1> HIDE DEF steps, first
  <1>6. Planned(Flat(steps))
    BY <1>4, <1>5, FlatPlanned
  <1> QED
    BY <1>1, <1>3, <1>6, PlansJoin

Starts(q) == q \in Seq(Statements) /\ Len(q) >= 1 /\ q[1] = Do("admin", Admin)

LEMMA MainPlanned == Planned(Main) /\ Len(Main) >= 1 /\ Main[1] = Do("admin", Admin)
  <1> DEFINE c == InOrder(Categories)
             s == InOrder(Sellers)
             r == InOrder(Reviewers)
             g == InOrder(AllGoods)
             first == << Do("admin", Admin), Do("applicant", Applicant),
                         Do("application", Applicant) >>
             categorySteps == [n \in 1 .. Len(c) |-> << Do("category", c[n]) >>]
             sellerSteps == [n \in 1 .. Len(s) |-> SellerSteps(s[n])]
             reviewerSteps == [n \in 1 .. Len(r) |-> << Do("reviewer", r[n]) >>]
             reviewSteps == [n \in 1 .. Len(Reviews) |-> ReviewSteps(Reviews[n])]
             syncSteps == [n \in 1 .. Len(g) |-> << Do("sync", g[n]) >>]
             rest == Flat(categorySteps) \o Flat(sellerSteps) \o Flat(reviewerSteps)
                       \o Flat(reviewSteps) \o DisputeSteps \o Flat(syncSteps)
  <1>1. Main = first \o Flat(categorySteps) \o Flat(sellerSteps) \o Flat(reviewerSteps)
                 \o Flat(reviewSteps) \o DisputeSteps \o Flat(syncSteps)
    BY DEF Main, Each
  <1>2. /\ c \in Seq(Categories) /\ s \in Seq(Sellers)
        /\ r \in Seq(Reviewers) /\ g \in Seq(AllGoods)
    BY OrderOf, GoodsTypes, SeedAssumption
  <1>3. Planned(first)
    <2>1. first \in Seq(Singles)
      BY DEF Singles
    <2> QED
      BY <2>1, SinglesPlanned
  <1> HIDE DEF c, s, r, g
  <1>4. Planned(Flat(categorySteps))
    <2>1. \A n \in 1 .. Len(c) : << Do("category", c[n]) >> \in Seq(Singles)
      BY <1>2 DEF Singles
    <2>2. Len(categorySteps) = Len(c) /\ Len(c) \in Nat
      BY <1>2
    <2>3. \A n \in 1 .. Len(c) : Planned(categorySteps[n])
      BY <2>1, SinglesPlanned
    <2> HIDE DEF categorySteps
    <2> QED
      BY <2>2, <2>3, FlatPlanned
  <1>5. Planned(Flat(sellerSteps))
    <2>1. Len(sellerSteps) = Len(s) /\ Len(s) \in Nat
      BY <1>2
    <2>2. \A n \in 1 .. Len(s) : Planned(sellerSteps[n])
      BY <1>2, SellersPlanned
    <2> HIDE DEF sellerSteps
    <2> QED
      BY <2>1, <2>2, FlatPlanned
  <1>6. Planned(Flat(reviewerSteps))
    <2>1. \A n \in 1 .. Len(r) : << Do("reviewer", r[n]) >> \in Seq(Singles)
      BY <1>2 DEF Singles
    <2>2. Len(reviewerSteps) = Len(r) /\ Len(r) \in Nat
      BY <1>2
    <2>3. \A n \in 1 .. Len(r) : Planned(reviewerSteps[n])
      BY <2>1, SinglesPlanned
    <2> HIDE DEF reviewerSteps
    <2> QED
      BY <2>2, <2>3, FlatPlanned
  <1>7. Planned(Flat(reviewSteps))
    <2>1. Len(reviewSteps) = Len(Reviews) /\ Len(Reviews) \in Nat
      BY SeedAssumption
    <2>2. \A n \in 1 .. Len(Reviews) : Reviews[n] \in Pairs \ {Complaint}
      BY SeedAssumption DEF Pairs
    <2>3. \A n \in 1 .. Len(Reviews) : Planned(reviewSteps[n])
      <3>1. \A x \in Pairs \ {Complaint} : Planned(ReviewSteps(x))
        BY BlockTypes DEF Blocks
      <3> QED
        BY <2>2, <3>1
    <2> HIDE DEF reviewSteps
    <2> QED
      BY <2>1, <2>3, FlatPlanned
  <1>8. Planned(DisputeSteps)
    BY BlockTypes DEF Blocks
  <1>9. Planned(Flat(syncSteps))
    <2>1. \A n \in 1 .. Len(g) : << Do("sync", g[n]) >> \in Seq(Singles)
      BY <1>2 DEF Singles
    <2>2. Len(syncSteps) = Len(g) /\ Len(g) \in Nat
      BY <1>2
    <2>3. \A n \in 1 .. Len(g) : Planned(syncSteps[n])
      BY <2>1, SinglesPlanned
    <2> HIDE DEF syncSteps
    <2> QED
      BY <2>2, <2>3, FlatPlanned
  <1> HIDE DEF categorySteps, sellerSteps, reviewerSteps, reviewSteps, syncSteps
  <1>10. Planned(Main)
    <2> HIDE DEF first
    <2> QED
      BY <1>1, <1>3, <1>4, <1>5, <1>6, <1>7, <1>8, <1>9, PlansJoin
  <1>11. Starts(first)
    <2>1. Len(first) = 3 /\ first[1] = Do("admin", Admin) /\ first \in Seq(Statements)
      BY <1>3 DEF Planned
    <2> HIDE DEF first
    <2> QED
      BY <2>1 DEF Starts
  <1>12. \A q, p : Starts(p) /\ Planned(q) => Starts(p \o q)
    BY DEF Starts, Planned
  <1>13. Starts(Main)
    <2> HIDE DEF first
    <2> QED
      BY <1>1, <1>4, <1>5, <1>6, <1>7, <1>8, <1>9, <1>11, <1>12
  <1> QED
    BY <1>10, <1>13 DEF Starts

(* What follows a statement, and what precedes the second and third of a     *)
(* block.                                                                   *)
Inner == {"auction", "order", "review", "dispute"}
Finds == {"findAuction", "findReview", "findDispute"}

LEMMA PlanOf ==
  ASSUME NEW q, Planned(q), NEW n \in 1 .. Len(q)
  PROVE  LET s == q[n]
             x == s.on
         IN  /\ Len(q) \in Nat
             /\ \/ s \in Singles
                \/ /\ s = Do("findAuction", x) /\ x \in AllGoods
                   /\ n + 1 \in 1 .. Len(q) /\ q[n + 1] = Do("auction", x)
                \/ /\ s = Do("auction", x) /\ x \in AllGoods
                   /\ n - 1 \in 1 .. Len(q) /\ q[n - 1] = Do("findAuction", x)
                \/ /\ s = Do("findReview", x) /\ x \in Pairs \ {Complaint}
                   /\ n + 1 \in 1 .. Len(q) /\ q[n + 1] = Do("order", x)
                   /\ n + 2 \in 1 .. Len(q) /\ q[n + 2] = Do("review", x)
                \/ /\ s = Do("order", x) /\ x \in Pairs \ {Complaint}
                   /\ n - 1 \in 1 .. Len(q) /\ q[n - 1] = Do("findReview", x)
                   /\ n + 1 \in 1 .. Len(q) /\ q[n + 1] = Do("review", x)
                \/ /\ s = Do("review", x) /\ x \in Pairs \ {Complaint}
                   /\ n - 1 \in 1 .. Len(q) /\ q[n - 1] = Do("order", x)
                \/ /\ s = Do("findDispute", x) /\ x = Complaint
                   /\ n + 1 \in 1 .. Len(q) /\ q[n + 1] = Do("order", x)
                   /\ n + 2 \in 1 .. Len(q) /\ q[n + 2] = Do("dispute", x)
                \/ /\ s = Do("order", x) /\ x = Complaint
                   /\ n - 1 \in 1 .. Len(q) /\ q[n - 1] = Do("findDispute", x)
                   /\ n + 1 \in 1 .. Len(q) /\ q[n + 1] = Do("dispute", x)
                \/ /\ s = Do("dispute", x) /\ x = Complaint
                   /\ n - 1 \in 1 .. Len(q) /\ q[n - 1] = Do("order", x)
  <1> DEFINE s == q[n]
             x == s.on
  <1>1. \A w, u : Do(w, u).do = w /\ Do(w, u).on = u
    BY DEF Do
  <1>2. PICK b \in Blocks : \E k \in 1 .. Len(b) : There(q, n - k, b)
    BY DEF Planned, InBlock
  <1>3. PICK k \in 1 .. Len(b) : There(q, n - k, b)
    BY <1>2
  <1>4. b \in Seq(Statements) /\ Len(b) \in Nat /\ Len(q) \in Nat
    BY BlockTypes DEF Planned
  <1>5. \A i \in 1 .. Len(b) : n - k + i \in 1 .. Len(q) /\ q[n - k + i] = b[i]
    BY <1>3 DEF There
  <1>6. q[n] = b[k]
    <2>1. n - k + k = n
      BY <1>4
    <2> QED
      BY <1>5, <2>1
  <1>7. CASE \E y \in Singles : b = << y >>
    BY <1>4, <1>6, <1>7
  <1>8. ASSUME NEW g \in AllGoods, b = AuctionSteps(g)
        PROVE  \/ /\ s = Do("findAuction", g)
                  /\ n + 1 \in 1 .. Len(q) /\ q[n + 1] = Do("auction", g)
               \/ /\ s = Do("auction", g)
                  /\ n - 1 \in 1 .. Len(q) /\ q[n - 1] = Do("findAuction", g)
    <2>1. Len(b) = 2 /\ b[1] = Do("findAuction", g) /\ b[2] = Do("auction", g)
      BY <1>8 DEF AuctionSteps
    <2>2. k = 1 \/ k = 2
      BY <2>1
    <2> QED
      BY <1>5, <1>6, <2>1, <2>2
  <1>9. ASSUME NEW y, NEW first, NEW last,
               b = << Do(first, y), Do("order", y), Do(last, y) >>
        PROVE  \/ /\ s = Do(first, y)
                  /\ n + 1 \in 1 .. Len(q) /\ q[n + 1] = Do("order", y)
                  /\ n + 2 \in 1 .. Len(q) /\ q[n + 2] = Do(last, y)
               \/ /\ s = Do("order", y)
                  /\ n - 1 \in 1 .. Len(q) /\ q[n - 1] = Do(first, y)
                  /\ n + 1 \in 1 .. Len(q) /\ q[n + 1] = Do(last, y)
               \/ /\ s = Do(last, y)
                  /\ n - 1 \in 1 .. Len(q) /\ q[n - 1] = Do("order", y)
    <2>1. Len(b) = 3 /\ b[1] = Do(first, y) /\ b[2] = Do("order", y) /\ b[3] = Do(last, y)
      BY <1>9
    <2>2. k = 1 \/ k = 2 \/ k = 3
      BY <2>1
    <2>3. CASE k = 1
      BY <1>5, <1>6, <2>1, <2>3
    <2>4. CASE k = 2
      BY <1>5, <1>6, <2>1, <2>4
    <2>5. CASE k = 3
      BY <1>5, <1>6, <2>1, <2>5
    <2> QED
      BY <2>2, <2>3, <2>4, <2>5
  <1>10. CASE \E g \in AllGoods : b = AuctionSteps(g)
    <2>1. PICK g \in AllGoods : b = AuctionSteps(g)
      BY <1>10
    <2>2. s = Do("findAuction", g) \/ s = Do("auction", g)
      BY <2>1, <1>8
    <2>3. x = g
      BY <2>2, <1>1
    <2> QED
      BY <2>1, <2>3, <1>4, <1>8
  <1>11. CASE \E y \in Pairs \ {Complaint} : b = ReviewSteps(y)
    <2>1. PICK y \in Pairs \ {Complaint} :
            b = << Do("findReview", y), Do("order", y), Do("review", y) >>
      BY <1>11 DEF ReviewSteps
    <2>2. s = Do("findReview", y) \/ s = Do("order", y) \/ s = Do("review", y)
      BY <2>1, <1>9
    <2>3. x = y
      BY <2>2, <1>1
    <2> QED
      BY <2>1, <2>3, <1>4, <1>9
  <1>12. CASE b = DisputeSteps
    <2>1. b = << Do("findDispute", Complaint), Do("order", Complaint), Do("dispute", Complaint) >>
      BY <1>12 DEF DisputeSteps
    <2>2. s = Do("findDispute", Complaint) \/ s = Do("order", Complaint)
          \/ s = Do("dispute", Complaint)
      BY <2>1, <1>9
    <2>3. x = Complaint
      BY <2>2, <1>1
    <2> QED
      BY <2>1, <2>3, <1>4, <1>9
  <1> QED
    BY <1>7, <1>10, <1>11, <1>12 DEF Blocks

LEMMA SingleKinds ==
  /\ \A s \in Singles : s.do \notin Inner \union Finds /\ (s.do = "admin" => s.on = Admin)
  /\ \A w, u : Do(w, u).do = w /\ Do(w, u).on = u
  BY DEF Singles, Inner, Finds, Do

(* Two sections of main never share a block. *)
LEMMA InnerFollows ==
  ASSUME NEW n \in 1 .. Len(Main), Main[n].do \in Inner
  PROVE  n - 1 \in 1 .. Len(Main) /\ Main[n - 1].do \in Finds \union {"order"}
  BY MainPlanned, PlanOf, SingleKinds DEF Inner, Finds

(* What a statement that is no single one may count on. *)
LEMMA Following ==
  ASSUME NEW n \in 1 .. Len(Main)
  PROVE  LET do == Main[n].do
             x == Main[n].on
         IN  /\ do = "admin" => x = Admin
             /\ do = "findAuction" => n + 1 \in 1 .. Len(Main) /\ Main[n + 1] = Do("auction", x)
             /\ do = "findReview" =>
                  /\ x \in Pairs \ {Complaint}
                  /\ n + 1 \in 1 .. Len(Main) /\ Main[n + 1] = Do("order", x)
                  /\ n + 2 \in 1 .. Len(Main) /\ Main[n + 2] = Do("review", x)
             /\ do = "findDispute" =>
                  /\ x = Complaint
                  /\ n + 1 \in 1 .. Len(Main) /\ Main[n + 1] = Do("order", x)
                  /\ n + 2 \in 1 .. Len(Main) /\ Main[n + 2] = Do("dispute", x)
             /\ do = "order" =>
                  /\ x \in Pairs /\ n + 1 \in 1 .. Len(Main)
                  /\ Main[n + 1] = IF x = Complaint THEN Do("dispute", x) ELSE Do("review", x)
             /\ do = "review" => x \in Pairs \ {Complaint}
             /\ do = "dispute" => x = Complaint
  <1>1. Complaint \in Pairs
    BY DEF Pairs
  <1> QED
    BY <1>1, MainPlanned, PlanOf, SingleKinds DEF Inner, Finds

-----------------------------------------------------------------------------
(* Seed: what holds between two statements                                 *)

(* What a pair is still owed, or a run that found nothing may still make. *)
SeedSettled(x) == IF x = Complaint THEN dispute # Absent ELSE x \in reviewed
Earned(x) == IF SeedSettled(x) THEN 1 ELSE 0
Slack(x) ==
  IF Runs("order") /\ On = x THEN 0
  ELSE IF (Runs("review") \/ Runs("dispute")) /\ On = x THEN 1 ELSE Earned(x)

SeedTypes ==
  /\ at \in 0 .. Len(Main) /\ kills \in Nat
  /\ DOMAIN role = SeedUsers /\ DOMAIN profile = SeedUsers
  /\ DOMAIN product = AllGoods /\ DOMAIN stock = AllGoods /\ DOMAIN lots = AllGoods
  /\ orders \in [Pairs -> Nat]
AdminHolds == role[Admin] \in {Absent, "ADMIN"} /\ (at > 1 => role[Admin] # Absent)
LooksHold ==
  /\ Runs("auction") => ~(lots[On].live > 0)
  /\ Runs("dispute") \/ (Runs("order") /\ On = Complaint) => dispute = Absent
OrdersHold == \A x \in Pairs : orders[x] <= kills + Slack(x)
SeedInv == SeedTypes /\ AdminHolds /\ LooksHold /\ OrdersHold

(* The script is at none of the statements that hang on a find. *)
Outer == at = 0 \/ Main[at].do \notin Inner

LEMMA SlackOuter ==
  ASSUME Outer
  PROVE  \A x : Slack(x) = Earned(x)
  BY DEF Outer, Slack, Runs, Inner

LEMMA SlackIsSmall == \A x : Slack(x) \in {0, 1} /\ Earned(x) \in {0, 1}
  BY DEF Slack, Earned

LEMMA OrdersAreFew ==
  ASSUME SeedInv
  PROVE  \A x \in Pairs : orders[x] <= 1 + kills /\ orders[x] \in Nat
  BY SlackIsSmall DEF SeedInv, SeedTypes, OrdersHold

LEMMA OuterHolds ==
  ASSUME Outer, \A x \in Pairs : orders[x] <= kills + Earned(x)
  PROVE  LooksHold /\ OrdersHold
  <1>1. LooksHold
    BY DEF LooksHold, Outer, Runs, Inner
  <1> QED
    BY <1>1, SlackOuter DEF OrdersHold

LEMMA Gone ==
  ASSUME NEW n \in Nat, n >= 1, Goto(n)
  PROVE  at' \in 0 .. Len(Main) /\ (at' = 0 \/ at' = n) /\ (n \in 1 .. Len(Main) => at' = n)
  <1>1. Len(Main) \in Nat
    BY MainPlanned DEF Planned
  <1> QED
    BY <1>1 DEF Goto

(* The statement after a block, or after a single one. *)
LEMMA GoesOuter ==
  ASSUME NEW n \in 1 .. Len(Main), Main[n].do \notin Finds \union {"order"}, Goto(n + 1)
  PROVE  Outer' /\ at' \in 0 .. Len(Main)
  <1>1. Len(Main) \in Nat
    BY MainPlanned DEF Planned
  <1>2. at' \in 0 .. Len(Main) /\ (at' = 0 \/ at' = n + 1)
    BY <1>1, Gone
  <1>3. ASSUME at' # 0, Main[at'].do \in Inner
        PROVE  FALSE
    <2>1. n + 1 \in 1 .. Len(Main) /\ Main[n + 1].do \in Inner
      BY <1>1, <1>2, <1>3
    <2>2. Main[(n + 1) - 1].do \in Finds \union {"order"}
      BY <2>1, InnerFollows
    <2>3. (n + 1) - 1 = n
      BY <1>1
    <2> QED
      BY <2>2, <2>3
  <1> QED
    BY <1>2, <1>3 DEF Outer

-----------------------------------------------------------------------------
(* Seed: every step keeps it                                               *)

(* What a step shows: the invariant, and that it may be made again. *)
Repeatable ==
  /\ at' # at => Untouched
  /\ \A x \in Pairs : orders'[x] <= 1 + kills

LEMMA UpsertKeeps ==
  ASSUME NEW table, NEW key, NEW value
  PROVE  /\ DOMAIN Upsert(table, key, value) = DOMAIN table
         /\ \A u \in DOMAIN table :
              table[u] # Absent => Upsert(table, key, value)[u] = table[u]
  BY DEF Upsert

LEMMA OuterHoldsNext ==
  ASSUME Outer', \A x \in Pairs : orders'[x] <= kills' + Earned(x)'
  PROVE  LooksHold' /\ OrdersHold'
  <1>1. LooksHold'
    BY DEF LooksHold, Outer, Runs, Inner
  <1>2. \A x \in Pairs : Slack(x)' = Earned(x)'
    BY DEF Outer, Slack, Runs, Inner
  <1> QED
    BY <1>2, <1>1 DEF OrdersHold

LEMMA SeedStarts ==
  ASSUME SeedInit
  PROVE  SeedInv
  <1>1. SeedTypes
    BY MainPlanned DEF SeedInit, SeedTypes, Planned
  <1>2. AdminHolds
    <2>1. Admin \in SeedUsers
      BY DEF SeedUsers
    <2> QED
      BY <2>1 DEF SeedInit, AdminHolds
  <1>3. Outer
    BY DEF SeedInit, Outer
  <1>4. \A x \in Pairs : orders[x] <= kills + Earned(x)
    BY SlackIsSmall DEF SeedInit
  <1> QED
    BY <1>1, <1>2, <1>3, <1>4, OuterHolds DEF SeedInv

(* The statement that runs is one of main. *)
LEMMA RunsOne ==
  ASSUME SeedInv, NEW what, Runs(what)
  PROVE  at \in 1 .. Len(Main) /\ Main[at].do = what /\ at \in Nat /\ Len(Main) \in Nat
  BY MainPlanned DEF SeedInv, SeedTypes, Runs, Planned

LEMMA NothingTouched ==
  ASSUME SeedInv, UNCHANGED tables
  PROVE  Repeatable
  <1>1. Untouched
    <2>1. role[Admin] \in {Absent, "ADMIN"}
      BY DEF SeedInv, AdminHolds
    <2> QED
      BY <2>1 DEF Untouched, tables
  <1> QED
    BY <1>1, OrdersAreFew DEF Repeatable, tables

LEMMA StartKeeps ==
  ASSUME SeedInv, Start
  PROVE  SeedInv' /\ Repeatable
  <1>1. at' = 1 /\ 1 \in 1 .. Len(Main) /\ Main[1].do = "admin"
    BY MainPlanned, SingleKinds DEF Start, Planned
  <1>2. SeedTypes' /\ AdminHolds'
    BY <1>1 DEF SeedInv, SeedTypes, AdminHolds, Start, tables
  <1>3. Outer' /\ Outer
    BY <1>1 DEF Start, Outer, Inner
  <1>4. \A x \in Pairs : orders'[x] <= kills' + Earned(x)'
    BY <1>3, SlackOuter DEF SeedInv, OrdersHold, Start, tables, Earned, SeedSettled
  <1> QED
    BY <1>2, <1>3, <1>4, OuterHoldsNext, NothingTouched DEF SeedInv, Start

(* A kill pays for the order whose review or dispute it cuts off. *)
LEMMA KillKeeps ==
  ASSUME SeedInv, Kill
  PROVE  SeedInv' /\ Repeatable
  <1>1. SeedTypes' /\ AdminHolds'
    BY MainPlanned DEF SeedInv, SeedTypes, AdminHolds, Kill, tables, Planned
  <1>2. Outer'
    BY DEF Kill, Outer
  <1>3. \A x \in Pairs : orders'[x] <= kills' + Earned(x)'
    <2> SUFFICES ASSUME NEW x \in Pairs
                 PROVE  orders'[x] <= kills' + Earned(x)'
      OBVIOUS
    <2>1. orders[x] <= 1 + kills /\ orders[x] \in Nat /\ kills \in Nat
      BY OrdersAreFew DEF SeedInv, SeedTypes
    <2>2. Earned(x)' \in {0, 1}
      BY DEF Earned
    <2> QED
      BY <2>1, <2>2 DEF Kill, tables
  <1> QED
    BY <1>1, <1>2, <1>3, OuterHoldsNext, NothingTouched DEF SeedInv, Kill

LEMMA AbortKeeps ==
  ASSUME SeedInv, Abort
  PROVE  SeedInv' /\ Repeatable
  <1>1. SeedTypes' /\ AdminHolds'
    BY MainPlanned DEF SeedInv, SeedTypes, AdminHolds, Abort, tables, Planned
  <1>2. Outer' /\ Outer
    BY DEF Abort, Outer, Runs, Inner
  <1>3. \A x \in Pairs : orders'[x] <= kills' + Earned(x)'
    BY <1>2, SlackOuter DEF SeedInv, OrdersHold, Abort, tables, Earned, SeedSettled
  <1> QED
    BY <1>1, <1>2, <1>3, OuterHoldsNext, NothingTouched DEF SeedInv, Abort

(* Behind the first statement the administrator is there. *)
LEMMA AdminIsThere ==
  ASSUME SeedInv, NEW what, Runs(what), what # "admin"
  PROVE  at > 1 /\ role[Admin] = "ADMIN"
  <1>1. at # 1
    BY MainPlanned, SingleKinds DEF Runs
  <1> QED
    BY <1>1, RunsOne DEF SeedInv, AdminHolds

(* A statement on which none hangs, after it has run. *)
LEMMA PlainKeeps ==
  ASSUME SeedInv, NEW what, Runs(what), what \notin Finds \union Inner, Onward,
         DOMAIN role' = SeedUsers, DOMAIN profile' = SeedUsers,
         DOMAIN product' = AllGoods, DOMAIN stock' = AllGoods,
         UNCHANGED << lots, orders, reviewed, dispute >>,
         role'[Admin] = "ADMIN", Untouched
  PROVE  SeedInv' /\ Repeatable
  <1>1. at \in 1 .. Len(Main) /\ Main[at].do = what
    BY RunsOne
  <1>2. Outer' /\ at' \in 0 .. Len(Main)
    BY <1>1, GoesOuter DEF Onward, Inner
  <1>3. Outer
    BY <1>1 DEF Outer
  <1>4. SeedTypes' /\ AdminHolds'
    BY <1>2, SeedAssumption DEF SeedInv, SeedTypes, AdminHolds, Onward
  <1>5. \A x \in Pairs : orders'[x] <= kills' + Earned(x)'
    BY <1>3, SlackOuter DEF SeedInv, OrdersHold, Onward, Earned, SeedSettled
  <1>6. \A x \in Pairs : orders'[x] <= 1 + kills
    BY OrdersAreFew
  <1> QED
    BY <1>2, <1>4, <1>5, <1>6, OuterHoldsNext DEF SeedInv, Repeatable

LEMMA AdminKeeps ==
  ASSUME SeedInv, UpsertAdmin, Onward
  PROVE  SeedInv' /\ Repeatable
  <1>1. Runs("admin") /\ On = Admin
    BY RunsOne, Following DEF UpsertAdmin, On
  <1>2. DOMAIN role = SeedUsers /\ Admin \in SeedUsers
    BY DEF SeedInv, SeedTypes, SeedUsers
  <1>3. DOMAIN role' = SeedUsers /\ role'[Admin] = "ADMIN"
        /\ \A u \in SeedUsers \ {Admin} : role'[u] = role[u]
    BY <1>1, <1>2 DEF UpsertAdmin
  <1>4. Untouched
    BY <1>3 DEF UpsertAdmin, Untouched
  <1>5. UNCHANGED << lots, orders, reviewed, dispute, profile, product, stock >>
    BY DEF UpsertAdmin
  <1> QED
    BY <1>1, <1>3, <1>4, <1>5, PlainKeeps DEF Finds, Inner, SeedInv, SeedTypes

LEMMA UserKeeps ==
  ASSUME SeedInv, UpsertUser, Onward
  PROVE  SeedInv' /\ Repeatable
  <1>1. PICK what \in {"applicant", "reviewer", "seller"}, value \in {"CUSTOMER", "SELLER"} :
          Runs(what) /\ role' = Upsert(role, On, value)
    BY DEF UpsertUser
  <1>2. role[Admin] = "ADMIN" /\ Admin \in SeedUsers /\ DOMAIN role = SeedUsers
    BY <1>1, AdminIsThere DEF SeedUsers, SeedInv, SeedTypes
  <1>3. DOMAIN role' = SeedUsers
        /\ \A u \in SeedUsers : role[u] # Absent => role'[u] = role[u]
    BY <1>1, <1>2, UpsertKeeps
  <1>4. role'[Admin] = "ADMIN"
    BY <1>2, <1>3, SeedAssumption
  <1>5. UNCHANGED << lots, orders, reviewed, dispute, profile, product, stock, categories >>
    BY DEF UpsertUser
  <1>6. Untouched
    BY <1>3, <1>4, <1>5 DEF Untouched
  <1> QED
    BY <1>1, <1>3, <1>4, <1>5, <1>6, PlainKeeps DEF Finds, Inner, SeedInv, SeedTypes

LEMMA ProfileKeeps ==
  ASSUME SeedInv, UpsertProfile, Onward
  PROVE  SeedInv' /\ Repeatable
  <1>1. PICK what \in {"application", "profile"}, value \in {"PENDING", "APPROVED"} :
          Runs(what) /\ profile' = Upsert(profile, On, value)
    BY DEF UpsertProfile
  <1>2. role[Admin] = "ADMIN" /\ DOMAIN profile = SeedUsers
    BY <1>1, AdminIsThere DEF SeedInv, SeedTypes
  <1>3. DOMAIN profile' = SeedUsers
        /\ \A u \in SeedUsers : profile[u] # Absent => profile'[u] = profile[u]
    BY <1>1, <1>2, UpsertKeeps
  <1>5. UNCHANGED << lots, orders, reviewed, dispute, role, product, stock, categories >>
    BY DEF UpsertProfile
  <1>6. Untouched
    BY <1>2, <1>3, <1>5 DEF Untouched
  <1> QED
    BY <1>1, <1>2, <1>3, <1>5, <1>6, PlainKeeps DEF Finds, Inner, SeedInv, SeedTypes

(* A product, its stock, a category and a search document. *)
LEMMA ShopKeeps ==
  ASSUME SeedInv, Onward, UpsertProduct \/ UpsertInventory \/ UpsertCategory \/ Sync
  PROVE  SeedInv' /\ Repeatable
  <1>1. PICK what \in {"product", "inventory", "category", "sync"} : Runs(what)
    BY DEF UpsertProduct, UpsertInventory, UpsertCategory, Sync
  <1>2. role[Admin] = "ADMIN" /\ DOMAIN product = AllGoods /\ DOMAIN stock = AllGoods
    BY <1>1, AdminIsThere DEF SeedInv, SeedTypes
  <1>3. UNCHANGED << lots, orders, reviewed, dispute, role, profile >>
    BY DEF UpsertProduct, UpsertInventory, UpsertCategory, Sync
  <1>4. \/ UNCHANGED product
        \/ \E value : product' = Upsert(product, On, value)
    BY DEF UpsertProduct, UpsertInventory, UpsertCategory, Sync
  <1>5. \/ UNCHANGED stock
        \/ \E value : stock' = Upsert(stock, On, value)
    BY DEF UpsertProduct, UpsertInventory, UpsertCategory, Sync
  <1>6. categories \subseteq categories'
    BY DEF UpsertProduct, UpsertInventory, UpsertCategory, Sync
  <1>7. DOMAIN product' = AllGoods
        /\ \A g \in AllGoods : product[g] # Absent => product'[g] = product[g]
    BY <1>2, <1>4, UpsertKeeps
  <1>8. DOMAIN stock' = AllGoods
        /\ \A g \in AllGoods : stock[g] # Absent => stock'[g] = stock[g]
    BY <1>2, <1>5, UpsertKeeps
  <1>9. Untouched
    BY <1>2, <1>3, <1>6, <1>7, <1>8 DEF Untouched
  <1> QED
    BY <1>1, <1>2, <1>3, <1>7, <1>8, <1>9, PlainKeeps DEF Finds, Inner, SeedInv, SeedTypes

(* A find that finds goes on behind what it skips. *)
LEMMA FindsKeep ==
  ASSUME SeedInv, Find
  PROVE  SeedInv' /\ Repeatable
  <1> SUFFICES SeedInv'
    BY NothingTouched DEF Find, Looked
  <1>1. PICK what \in Finds : Runs(what)
    BY DEF Find, Finds
  <1>2. /\ at \in 1 .. Len(Main) /\ Main[at].do = what /\ at \in Nat /\ Len(Main) \in Nat
        /\ at > 1 /\ role[Admin] = "ADMIN"
    BY <1>1, RunsOne, AdminIsThere DEF Finds
  <1>3. UNCHANGED << tables, kills >> /\ \A x : Earned(x)' = Earned(x)
    BY DEF Find, Looked, tables, Earned, SeedSettled
  <1>4. at' \in 0 .. Len(Main) => SeedTypes' /\ AdminHolds'
    BY <1>2, <1>3, SeedAssumption DEF SeedInv, SeedTypes, AdminHolds, tables
  <1>5. \A x \in Pairs : orders'[x] <= kills' + Earned(x)'
    BY <1>1, <1>3, SlackOuter DEF SeedInv, OrdersHold, tables, Outer, Runs, Finds, Inner
  <1>6. ASSUME at' \in 0 .. Len(Main), Outer'
        PROVE  SeedInv'
    BY <1>4, <1>5, <1>6, OuterHoldsNext DEF SeedInv
  <1>7. CASE what = "findAuction"
    <2>1. at + 1 \in 1 .. Len(Main) /\ Main[at + 1] = Do("auction", On)
      BY <1>2, <1>7, Following DEF On
    <2>2. Looked(lots[On].live > 0, 1)
      BY <1>2, <1>7 DEF Find, Runs
    <2>3. CASE lots[On].live > 0
      <3>1. Goto((at + 1) + 1)
        BY <2>2, <2>3, <1>2 DEF Looked
      <3> QED
        BY <2>1, <3>1, <1>6, GoesOuter, SingleKinds DEF Finds
    <2>4. CASE ~(lots[On].live > 0)
      <3>1. at' = at + 1
        BY <2>1, <2>2, <2>4, <1>2 DEF Looked, Goto
      <3>2. ~Runs("dispute")' /\ ~Runs("order")' /\ ~Runs("review")' /\ On' = On
        BY <2>1, <3>1, SingleKinds DEF Runs, On
      <3>3. LooksHold'
        BY <2>4, <3>2, <1>3 DEF LooksHold, tables
      <3>4. OrdersHold'
        BY <1>5, <3>2 DEF OrdersHold, Slack
      <3> QED
        BY <2>1, <3>1, <3>3, <3>4, <1>2, <1>4 DEF SeedInv
    <2> QED
      BY <2>3, <2>4
  <1>8. CASE what \in {"findReview", "findDispute"}
    <2> DEFINE last == IF what = "findReview" THEN "review" ELSE "dispute"
    <2>1. /\ at + 1 \in 1 .. Len(Main) /\ Main[at + 1] = Do("order", On)
          /\ at + 2 \in 1 .. Len(Main) /\ Main[at + 2] = Do(last, On)
          /\ what = "findDispute" <=> On = Complaint
      BY <1>2, <1>8, Following DEF On
    <2>2. Looked(SeedSettled(On), 2)
      BY <1>2, <1>8, <2>1 DEF Find, Runs, SeedSettled, Look
    <2>3. CASE SeedSettled(On)
      <3>1. Goto((at + 2) + 1)
        BY <2>2, <2>3, <1>2 DEF Looked
      <3>2. Main[at + 2].do = last
        BY <2>1, SingleKinds
      <3>3. Main[at + 2].do \notin Finds \union {"order"}
        BY <3>2 DEF Finds
      <3> QED
        BY <2>1, <3>1, <3>3, <1>6, GoesOuter
    <2>4. CASE ~SeedSettled(On)
      <3>1. at' = at + 1
        BY <2>1, <2>2, <2>4, <1>2 DEF Looked, Goto
      <3>2. Runs("order")' /\ ~Runs("auction")' /\ ~Runs("dispute")' /\ ~Runs("review")'
            /\ On' = On
        BY <2>1, <3>1, SingleKinds DEF Runs, On
      <3>3. LooksHold'
        BY <2>4, <3>2, <1>3 DEF LooksHold, tables, SeedSettled
      <3>4. \A x \in Pairs : orders'[x] <= kills' + Slack(x)'
        <4> SUFFICES ASSUME NEW x \in Pairs
                     PROVE  orders'[x] <= kills' + Slack(x)'
          OBVIOUS
        <4>1. CASE x = On
          BY <4>1, <1>3, <1>5, <2>4, <3>2 DEF Slack, Earned
        <4>2. CASE x # On
          BY <4>2, <1>5, <3>2 DEF Slack
        <4> QED
          BY <4>1, <4>2
      <3> QED
        BY <2>1, <3>1, <3>3, <3>4, <1>2, <1>4 DEF SeedInv, OrdersHold
    <2> QED
      BY <2>3, <2>4
  <1> QED
    BY <1>7, <1>8 DEF Finds

LEMMA AuctionKeeps ==
  ASSUME SeedInv, CreateAuction, Onward
  PROVE  SeedInv' /\ Repeatable
  <1>1. Runs("auction") /\ ~(lots[On].live > 0)
    BY DEF CreateAuction, SeedInv, LooksHold
  <1>2. /\ at \in 1 .. Len(Main) /\ Main[at].do = "auction" /\ at \in Nat
        /\ at > 1 /\ role[Admin] = "ADMIN"
    BY <1>1, RunsOne, AdminIsThere
  <1>3. Outer' /\ at' \in 0 .. Len(Main)
    BY <1>2, GoesOuter DEF Onward, Finds
  <1>4. SeedTypes' /\ AdminHolds'
    BY <1>2, <1>3, SeedAssumption DEF SeedInv, SeedTypes, AdminHolds, CreateAuction, Onward
  <1>5. \A x \in Pairs : Slack(x) = Earned(x)
    BY <1>2 DEF Slack, Runs
  <1>6. \A x \in Pairs : orders'[x] <= kills' + Earned(x)'
    BY <1>5 DEF SeedInv, OrdersHold, CreateAuction, Onward, Earned, SeedSettled
  <1>7. \A g \in AllGoods : lots[g].live > 0 => lots'[g] = lots[g]
    BY <1>1 DEF CreateAuction, SeedInv, SeedTypes
  <1>8. Untouched
    BY <1>2, <1>7 DEF Untouched, CreateAuction
  <1> QED
    BY <1>3, <1>4, <1>6, <1>8, OuterHoldsNext, OrdersAreFew
    DEF SeedInv, Repeatable, CreateAuction

(* Between the find and the order nobody can have settled the complaint; for *)
(* a pair, somebody may have reviewed, and the order is one too many only    *)
(* until its review.                                                         *)
LEMMA OrderKeeps ==
  ASSUME SeedInv, CreateOrder, Onward
  PROVE  SeedInv' /\ Repeatable
  <1> DEFINE y == On
             last == IF y = Complaint THEN "dispute" ELSE "review"
  <1>1. Runs("order")
    BY DEF CreateOrder
  <1>2. /\ at \in 1 .. Len(Main) /\ Main[at].do = "order" /\ at \in Nat /\ Len(Main) \in Nat
        /\ at > 1 /\ role[Admin] = "ADMIN"
    BY <1>1, RunsOne, AdminIsThere
  <1>3. y \in Pairs /\ at + 1 \in 1 .. Len(Main) /\ Main[at + 1] = Do(last, y)
    BY <1>2, Following DEF On
  <1>4. at' = at + 1 /\ On' = y
    BY <1>2, <1>3, SingleKinds DEF Onward, Goto, On
  <1>5. Runs(last)' /\ ~Runs("order")' /\ ~Runs("auction")' /\ (Runs("dispute")' => y = Complaint)
    BY <1>2, <1>3, <1>4, SingleKinds DEF Runs
  <1>6. UNCHANGED << role, profile, product, stock, lots, reviewed, dispute, categories, kills >>
    BY DEF CreateOrder, Onward
  <1>7. orders' = [orders EXCEPT ![y] = @ + 1] /\ orders \in [Pairs -> Nat] /\ kills \in Nat
    BY DEF CreateOrder, SeedInv, SeedTypes
  <1>8. \A x \in Pairs :
          orders[x] \in Nat /\ orders'[x] = IF x = y THEN orders[x] + 1 ELSE orders[x]
    BY <1>7
  <1>9. orders[y] <= kills + 0
    BY <1>1, <1>3 DEF SeedInv, OrdersHold, Slack
  <1>10. SeedTypes' /\ AdminHolds'
    <2>1. orders' \in [Pairs -> Nat]
      BY <1>3, <1>7, <1>8
    <2> QED
      BY <2>1, <1>2, <1>3, <1>4, <1>6, SeedAssumption DEF SeedInv, SeedTypes, AdminHolds
  <1>11. LooksHold'
    BY <1>1, <1>5, <1>6 DEF LooksHold, SeedInv
  <1>12. \A x \in Pairs : orders'[x] <= kills' + Slack(x)'
    <2> SUFFICES ASSUME NEW x \in Pairs
                 PROVE  orders'[x] <= kills' + Slack(x)'
      OBVIOUS
    <2>1. CASE x = y
      <3>1. Slack(x)' = 1
        BY <2>1, <1>4, <1>5 DEF Slack
      <3> QED
        BY <3>1, <2>1, <1>3, <1>6, <1>7, <1>8, <1>9
    <2>2. CASE x # y
      <3>1. Slack(x)' = Slack(x)
        BY <2>2, <1>4, <1>5, <1>6 DEF Slack, Earned, SeedSettled
      <3> QED
        BY <3>1, <2>2, <1>6, <1>8 DEF SeedInv, OrdersHold
    <2> QED
      BY <2>1, <2>2
  <1>13. \A x \in Pairs : orders'[x] <= 1 + kills
    BY <1>7, <1>8, <1>9, <1>3, OrdersAreFew
  <1>14. Untouched
    BY <1>2, <1>6 DEF Untouched
  <1> QED
    BY <1>10, <1>11, <1>12, <1>13, <1>14 DEF SeedInv, OrdersHold, Repeatable

(* A review or a dispute settles the order it was made for. *)
LEMMA SettleKeeps ==
  ASSUME SeedInv, CreateReview \/ CreateDispute, Onward
  PROVE  SeedInv' /\ Repeatable
  <1>1. PICK what \in {"review", "dispute"} :
          Runs(what) /\ (what = "review" <=> CreateReview)
    BY DEF CreateReview, CreateDispute, Runs
  <1>2. /\ at \in 1 .. Len(Main) /\ Main[at].do = what /\ at \in Nat
        /\ at > 1 /\ role[Admin] = "ADMIN"
    BY <1>1, RunsOne, AdminIsThere
  <1>3. /\ what = "review" => On \in Pairs \ {Complaint}
        /\ what = "dispute" => On = Complaint
    BY <1>2, Following DEF On
  <1>4. Outer' /\ at' \in 0 .. Len(Main)
    BY <1>1, <1>2, GoesOuter DEF Onward, Finds
  <1>5. UNCHANGED << role, profile, product, stock, lots, orders, categories, kills >>
    BY DEF CreateReview, CreateDispute, Onward
  <1>6. SeedTypes' /\ AdminHolds'
    BY <1>2, <1>4, <1>5, SeedAssumption DEF SeedInv, SeedTypes, AdminHolds
  <1>7. \A x \in Pairs : (SeedSettled(x) => SeedSettled(x)') /\ (x = On => SeedSettled(x)')
    <2>1. CASE what = "review"
      <3>1. reviewed' = reviewed \union {On} /\ dispute' = dispute
        BY <1>1, <2>1 DEF CreateReview
      <3> QED
        BY <3>1, <2>1, <1>3 DEF SeedSettled
    <2>2. CASE what = "dispute"
      <3>1. reviewed' = reviewed /\ dispute' = "UNDER_REVIEW"
        BY <1>1, <2>2 DEF CreateDispute
      <3> QED
        BY <3>1, <2>2, <1>3, SeedAssumption DEF SeedSettled
    <2> QED
      BY <2>1, <2>2
  <1>8. \A x \in Pairs : orders'[x] <= kills' + Earned(x)'
    <2> SUFFICES ASSUME NEW x \in Pairs
                 PROVE  orders'[x] <= kills' + Earned(x)'
      OBVIOUS
    <2>1. orders[x] <= 1 + kills /\ orders[x] <= kills + Slack(x) /\ kills \in Nat
          /\ orders[x] \in Nat
      BY OrdersAreFew DEF SeedInv, OrdersHold, SeedTypes
    <2>2. CASE x = On
      BY <2>1, <2>2, <1>5, <1>7 DEF Earned
    <2>3. CASE x # On
      <3>1. Slack(x) = Earned(x)
        BY <2>3 DEF Slack
      <3>2. Earned(x) <= Earned(x)' /\ Earned(x) \in {0, 1} /\ Earned(x)' \in {0, 1}
        BY <1>7 DEF Earned
      <3> QED
        BY <2>1, <3>1, <3>2, <1>5
    <2> QED
      BY <2>2, <2>3
  <1>9. dispute # Absent => dispute' = dispute
    BY <1>1 DEF CreateReview, CreateDispute, SeedInv, LooksHold
  <1>10. Untouched
    BY <1>2, <1>5, <1>9 DEF Untouched
  <1> QED
    BY <1>4, <1>5, <1>6, <1>8, <1>10, OuterHoldsNext, OrdersAreFew DEF SeedInv, Repeatable

(* The people: they never take back what the script counts on. *)
LEMMA UseKeeps ==
  ASSUME SeedInv, Use, UNCHANGED script
  PROVE  SeedInv' /\ Repeatable
  <1>1. UNCHANGED << at, kills, orders >> /\ On' = On /\ \A what : Runs(what)' = Runs(what)
    BY DEF Use, script, On, Runs, Sell, Archive, EndAuction, ReviewApplication, Rule,
           ReviewByHand, EditCategory, CreateCategory, RenameCategory
  <1>2. DOMAIN role' = DOMAIN role /\ DOMAIN profile' = DOMAIN profile
        /\ DOMAIN product' = DOMAIN product /\ DOMAIN stock' = DOMAIN stock
        /\ DOMAIN lots' = DOMAIN lots
    BY DEF Use, Sell, Archive, EndAuction, ReviewApplication, Rule,
           ReviewByHand, EditCategory, CreateCategory, RenameCategory
  <1>3. role'[Admin] = role[Admin]
    <2>1. Admin \in DOMAIN role
      BY DEF SeedInv, SeedTypes, SeedUsers
    <2>2. UNCHANGED role \/ role' = [role EXCEPT ![Applicant] = "SELLER"]
      BY DEF Use, Sell, Archive, EndAuction, ReviewApplication, Rule,
             ReviewByHand, EditCategory, CreateCategory, RenameCategory
    <2> QED
      BY <2>1, <2>2, SeedAssumption
  <1>4. (dispute' = Absent <=> dispute = Absent) /\ reviewed \subseteq reviewed'
    BY SeedAssumption DEF Use, Sell, Archive, EndAuction, ReviewApplication, Rule,
           ReviewByHand, EditCategory, CreateCategory, RenameCategory
  <1>5. \A g \in AllGoods : lots'[g] = lots[g] \/ lots[g].live > 0
    <2>1. DOMAIN lots = AllGoods
      BY DEF SeedInv, SeedTypes
    <2>2. UNCHANGED lots \/ \E h \in AllGoods : EndAuction(h)
      BY DEF Use, Sell, Archive, ReviewApplication, Rule,
             ReviewByHand, EditCategory, CreateCategory, RenameCategory
    <2> QED
      BY <2>1, <2>2 DEF EndAuction
  <1>6. SeedTypes' /\ AdminHolds'
    BY <1>1, <1>2, <1>3 DEF SeedInv, SeedTypes, AdminHolds
  <1>7. LooksHold'
    <2>1. Runs("auction") => On \in AllGoods
      BY RunsOne, MainPlanned, PlanOf, SingleKinds DEF Inner, On
    <2>2. Runs("auction") => lots'[On] = lots[On]
      BY <1>5, <2>1 DEF SeedInv, LooksHold
    <2>3. Runs("auction") => ~(lots'[On].live > 0)
      BY <2>2 DEF SeedInv, LooksHold
    <2> QED
      BY <1>1, <1>4, <2>3 DEF SeedInv, LooksHold
  <1>8. \A x \in Pairs : orders'[x] <= kills' + Slack(x)'
    <2> SUFFICES ASSUME NEW x \in Pairs
                 PROVE  orders'[x] <= kills' + Slack(x)'
      OBVIOUS
    <2>1. SeedSettled(x) => SeedSettled(x)'
      BY <1>4 DEF SeedSettled
    <2>2. Earned(x) <= Earned(x)' /\ Earned(x) \in {0, 1} /\ Earned(x)' \in {0, 1}
      BY <2>1 DEF Earned
    <2>3. Slack(x) <= Slack(x)' /\ Slack(x) \in {0, 1} /\ Slack(x)' \in {0, 1}
      BY <2>2, <1>1 DEF Slack
    <2>4. orders[x] <= kills + Slack(x) /\ orders[x] \in Nat /\ kills \in Nat
      BY OrdersAreFew DEF SeedInv, OrdersHold, SeedTypes
    <2> QED
      BY <2>3, <2>4, <1>1
  <1> QED
    BY <1>1, <1>6, <1>7, <1>8, OrdersAreFew DEF SeedInv, OrdersHold, Repeatable

LEMMA RestKeeps ==
  ASSUME SeedInv, UNCHANGED seedVars
  PROVE  SeedInv' /\ Repeatable
  <1>1. UNCHANGED << role, profile, product, stock, lots, orders, reviewed, dispute,
                     index, categories, at, kills >>
    BY DEF seedVars, tables, script
  <1>2. SeedTypes' /\ AdminHolds' /\ LooksHold' /\ OrdersHold'
    BY <1>1 DEF SeedInv, SeedTypes, AdminHolds, LooksHold, OrdersHold, Slack, Earned, SeedSettled,
                Runs, On
  <1> QED
    BY <1>1, <1>2, OrdersAreFew DEF SeedInv, Repeatable

LEMMA SeedNextKeeps ==
  ASSUME SeedInv, [SeedNext]_seedVars
  PROVE  SeedInv' /\ Repeatable
  <1>1. CASE Start
    BY <1>1, StartKeeps
  <1>2. CASE Kill
    BY <1>2, KillKeeps
  <1>3. CASE Find
    BY <1>3, FindsKeep
  <1>4. CASE Abort
    BY <1>4, AbortKeeps
  <1>5. CASE Write /\ Onward
    BY <1>5, AdminKeeps, UserKeeps, ProfileKeeps, ShopKeeps, AuctionKeeps, OrderKeeps,
       SettleKeeps DEF Write
  <1>6. CASE Use /\ UNCHANGED script
    BY <1>6, UseKeeps
  <1>7. CASE UNCHANGED seedVars
    BY <1>7, RestKeeps
  <1> QED
    BY <1>1, <1>2, <1>3, <1>4, <1>5, <1>6, <1>7 DEF SeedNext, SeedStep

(* A statement that hangs on a find runs only on what the find saw, and a    *)
(* pair has no more seeded orders than kills and the review or dispute they  *)
(* led to (seed.ts, main and the helpers it calls).                          *)
THEOREM SeedInvariant == SeedSpec => []SeedInv
  <1>1. SeedInit => SeedInv
    BY SeedStarts
  <1>2. SeedInv /\ [SeedNext]_seedVars => SeedInv'
    BY SeedNextKeeps
  <1> QED
    BY <1>1, <1>2, PTL DEF SeedSpec

(* The seed script may be run again at any time, on any fixtures: no        *)
(* statement of it changes what is there, and only a kill can leave a pair   *)
(* one more order (seed.ts, upsert helpers, seedReviewsForProduct,           *)
(* seedDispute).                                                             *)
THEOREM SeedingIsSafe == SeedSpec => SafeToRepeat
  <1>1. SeedInv /\ [SeedNext]_seedVars =>
          [/\ at' # at => Untouched
           /\ \A x \in Pairs : orders'[x] <= 1 + kills]_seedVars
    BY SeedNextKeeps DEF Repeatable
  <1> QED
    BY <1>1, SeedInvariant, PTL DEF SeedSpec, SafeToRepeat

=============================================================================
