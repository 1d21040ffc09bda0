------------------------------- MODULE Purse -------------------------------
(***************************************************************************)
(* What a vendor's balance promises: the money of each withdrawal is in    *)
(* one place, leaves the balance only while it is there, and ends at the   *)
(* bank or back on the balance, never both.  Wallet is shown to implement  *)
(* it: with requests to Stripe that may get no answer, a review an hour    *)
(* later, an admin, and servers that stop.                                 *)
(***************************************************************************)
EXTENDS Integers

CONSTANTS
  Withdrawals,   \* the requests to withdraw
  Deposits,      \* the deposits the customer paid for
  Amount,        \* of each, in dollars
  Opening,       \* the balances to begin with
  Changes        \* what a booking may add to the balance, or take

VARIABLES
  balance,    \* what the vendor may spend
  booked,     \* what it was to begin with, and all that bookings changed it by
  place,      \* where the money of each withdrawal is
  credited    \* the deposits on the balance

purse == <<balance, booked, place, credited>>

Init ==
  /\ balance \in Opening /\ booked = balance
  /\ place = [w \in Withdrawals |-> "balance"]
  /\ credited = {}

Moves(w, from, to) ==
  /\ place[w] = from
  /\ place' = [place EXCEPT ![w] = to]

Leaves(w) ==
  /\ Moves(w, "balance", "onTheWay") /\ balance >= Amount[w]
  /\ balance' = balance - Amount[w]
  /\ UNCHANGED <<booked, credited>>

Arrives(w) == Moves(w, "onTheWay", "bank") /\ UNCHANGED <<balance, booked, credited>>

Returns(w) ==
  /\ Moves(w, "onTheWay", "back")
  /\ balance' = balance + Amount[w]
  /\ UNCHANGED <<booked, credited>>

Deposit(d) ==
  /\ d \notin credited
  /\ credited' = credited \cup {d}
  /\ balance' = balance + Amount[d]
  /\ UNCHANGED <<booked, place>>

Booked(c) ==
  /\ balance' = balance + c /\ booked' = booked + c
  /\ UNCHANGED <<place, credited>>

Next ==
  \/ \E w \in Withdrawals : Leaves(w) \/ Arrives(w) \/ Returns(w)
  \/ \E d \in Deposits : Deposit(d)
  \/ \E c \in Changes : Booked(c)

Spec == Init /\ [][Next]_purse
=============================================================================
