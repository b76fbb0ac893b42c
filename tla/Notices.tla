------------------------------- MODULE Notices -------------------------------
(***************************************************************************)
(* The leaf consumers of domain events: NotificationsConsumer writes a     *)
(* Notification row, EmailConsumer sends a mail, each once for an event as *)
(* far as its ProcessedEvent marker can tell.  A fact is an outbox event;  *)
(* its jobs, one for each queue that EVENT_QUEUE_MAP names, may be taken   *)
(* late, in any order, again after they were done (the worker stalled), or *)
(* never (parked).  Outbox models how the jobs got there.                  *)
(***************************************************************************)
EXTENDS Naturals, FiniteSets

CONSTANTS
  Facts,      \* events the modules may record
  Fact,       \* Fact[f]: kind, status, subject (a room) and user of an event
  Users,
  Nobody,
  MaxRetries  \* bounds how often a commit is lost after a mail was sent

ASSUME NoticesAssumption ==
  /\ Nobody \notin Users
  /\ \A f \in Facts : Fact[f].kind \in
       {"SellerOrderCreated", "OrderPlaced", "StatusChanged", "AuctionEnded",
        "RefundProcessed", "RefundFailed", "InventoryUpdated", "BidPlaced"}
  /\ \A f \in Facts :
       \/ Fact[f].user \in Users
       \/ /\ Fact[f].user = Nobody
          /\ Fact[f].kind \in {"AuctionEnded", "InventoryUpdated", "BidPlaced"}
  /\ MaxRetries \in Nat

VARIABLES
  recorded,  \* the facts that were recorded
  jobs,      \* the pairs of a fact and a queue that a worker may take
  parked,    \* the jobs that used up their attempts
  marked,    \* the pairs of a fact and a consumer with a ProcessedEvent row
  rows,      \* the Notification rows: fact, user, number, whether read
  mails,     \* mails[f]: how often Resend accepted a mail about f
  lost       \* lost[f]: commits that failed after such a mail

noticeVars == << recorded, jobs, parked, marked, rows, mails, lost >>

-----------------------------------------------------------------------------
(* Who hears of what *)

Kind(f) == Fact[f].kind

(* NOTIFIABLE_STATUSES, in both consumers: PROCESSING is the system's doing. *)
Heard(f) == Fact[f].status \in {"SHIPPED", "COMPLETED", "CANCELLED"}

(* EVENT_QUEUE_MAP *)
Queues(f) ==
  CASE Kind(f) = "SellerOrderCreated" -> {"notifications", "email"}
    [] Kind(f) = "OrderPlaced" -> {"email"}
    [] Kind(f) \in {"StatusChanged", "AuctionEnded"} ->
         {"realtime", "notifications", "email"}
    [] Kind(f) \in {"RefundProcessed", "RefundFailed"} -> {"notifications"}
    [] Kind(f) \in {"InventoryUpdated", "BidPlaced"} -> {"realtime"}

(* A handler returns before the idempotency guard where there is nobody to *)
(* tell: no winner, or a transition no buyer asked about.                  *)
OrderNews(f) == Kind(f) = "StatusChanged" /\ Heard(f)
RefundNews(f) == Kind(f) \in {"RefundProcessed", "RefundFailed"}
Win(f) == Kind(f) = "AuctionEnded" /\ Fact[f].user # Nobody

Notifies(f) ==
  \/ Kind(f) = "SellerOrderCreated" \/ RefundNews(f)
  \/ OrderNews(f) \/ Win(f)

IsMailed(f) ==
  \/ Kind(f) \in {"OrderPlaced", "SellerOrderCreated"}
  \/ OrderNews(f) \/ Win(f)

-----------------------------------------------------------------------------
(* NotificationsService.findForUser, its filter left out. *)
NotificationsOf(u) == {r \in rows : r.user = u}

(* A job that was done is gone, or is taken again by another worker. *)
Done(j) == jobs' \in {jobs, jobs \ {j}}

Record(f) ==
  /\ f \notin recorded
  /\ recorded' = recorded \union {f}
  /\ jobs' = jobs \union ({f} \X Queues(f))
  /\ UNCHANGED << parked, marked, rows, mails, lost >>

(* BullMQ gives up on a job that failed every attempt. *)
Park(j) ==
  /\ j \in jobs
  /\ jobs' = jobs \ {j}
  /\ parked' = parked \union {j}
  /\ UNCHANGED << recorded, marked, rows, mails, lost >>

(* The marker is inserted first in the transaction of the work. *)
Unmarked_Ignored(f, consumer) == TRUE
Unmarked(f, consumer) == << f, consumer >> \notin marked

(* A job whose event is not this consumer's, or that was handled before. *)
Skip(f, queue) ==
  /\ << f, queue >> \in jobs
  /\ \/ queue = "notifications" /\ ~Notifies(f)
     \/ queue = "email" /\ ~IsMailed(f)
     \/ ~Unmarked(f, queue)
  /\ jobs' = jobs \ {<< f, queue >>}
  /\ UNCHANGED << recorded, parked, marked, rows, mails, lost >>

(* The row and the marker commit together. *)
Notify(f) ==
  /\ << f, "notifications" >> \in jobs
  /\ Notifies(f)
  /\ Unmarked(f, "notifications")
  /\ rows' = rows \union
       {[fact |-> f, user |-> Fact[f].user, read |-> FALSE,
         copy |-> Cardinality({r \in rows : r.fact = f})]}
  /\ marked' = marked \union {<< f, "notifications" >>}
  /\ Done(<< f, "notifications" >>)
  /\ UNCHANGED << recorded, parked, mails, lost >>

(* EmailService logs a rejection and returns: it is not tried again. *)
Refused(f) ==
  /\ marked' = marked \union {<< f, "email" >>}
  /\ Done(<< f, "email" >>)
  /\ UNCHANGED << mails, lost >>

Sent(f) ==
  /\ mails' = [mails EXCEPT ![f] = @ + 1]
  /\ marked' = marked \union {<< f, "email" >>}
  /\ Done(<< f, "email" >>)
  /\ UNCHANGED lost

(* The mail is out, and the transaction it was sent in is rolled back. *)
SentInVain(f) ==
  /\ lost[f] < MaxRetries
  /\ mails' = [mails EXCEPT ![f] = @ + 1]
  /\ lost' = [lost EXCEPT ![f] = @ + 1]
  /\ UNCHANGED << jobs, marked >>

Mail(f) ==
  /\ << f, "email" >> \in jobs
  /\ IsMailed(f)
  /\ Unmarked(f, "email")
  /\ Refused(f) \/ Sent(f) \/ SentInVain(f)
  /\ UNCHANGED << recorded, parked, rows >>

(* markRead answers 404 for somebody else's row. *)
MarkRead(u, r) ==
  /\ r \in rows
  /\ r.user = u
  /\ rows' = (rows \ {r}) \union {[r EXCEPT !.read = TRUE]}
  /\ UNCHANGED << recorded, jobs, parked, marked, mails, lost >>

-----------------------------------------------------------------------------
NoticesInit ==
  /\ recorded = {} /\ jobs = {} /\ parked = {} /\ marked = {} /\ rows = {}
  /\ mails = [f \in Facts |-> 0]
  /\ lost = [f \in Facts |-> 0]

React ==
  \/ \E f \in Facts, q \in {"notifications", "email"} : Skip(f, q)
  \/ \E f \in Facts : Notify(f) \/ Mail(f)

NoticesTypeOK ==
  /\ recorded \subseteq Facts
  /\ jobs \subseteq recorded \X {"realtime", "notifications", "email"}
  /\ parked \subseteq recorded \X {"realtime", "notifications", "email"}
  /\ marked \subseteq recorded \X {"notifications", "email"}
  /\ rows \subseteq [fact : recorded, user : Users, read : BOOLEAN, copy : Nat]
  /\ mails \in [Facts -> Nat]
  /\ lost \in [Facts -> Nat]

-----------------------------------------------------------------------------
(* Whatever is redelivered, an event leaves at most one notification, for  *)
(* the user it names, and mails a person again only when the commit after  *)
(* the earlier mail was lost (EventIdempotencyService.run around           *)
(* NotificationsService.create and EmailService).                          *)
NobodyIsToldTwice ==
  /\ \A r, s \in rows : r.fact = s.fact => r = s
  /\ \A f \in Facts : mails[f] <= lost[f] + 1

=============================================================================
