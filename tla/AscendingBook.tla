--------------------------- MODULE AscendingBook ---------------------------
(***************************************************************************)
(* What bid placement promises, with none of its machinery: every lot has  *)
(* a book of accepted bids, and a bid enters the book in one step, judged  *)
(* against the book as it is at that very step.  Bidding.tla, where a bid  *)
(* is judged against a row read earlier and committed later, implements    *)
(* this module (the property BidsAreAtomic).                               *)
(***************************************************************************)
EXTENDS Integers, Sequences

CONSTANTS Lots, Bidders, Amounts, StartingPrice, MinBidIncrement

VARIABLE book  \* book[l]: the accepted bids of lot l, oldest first

(* The least amount the next bid on a book must offer. *)
MinNext(s) ==
  IF s = << >> THEN StartingPrice ELSE s[Len(s)].amount + MinBidIncrement

Init == book = [l \in Lots |-> << >>]

Accept(l, b, a) ==
  /\ a >= MinNext(book[l])
  /\ book' = [book EXCEPT ![l] = Append(@, [bidder |-> b, amount |-> a])]

Next == \E l \in Lots, b \in Bidders, a \in Amounts : Accept(l, b, a)

Spec == Init /\ [][Next]_book

=============================================================================
