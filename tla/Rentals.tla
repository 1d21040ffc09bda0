------------------------------- MODULE Rentals -------------------------------
(***************************************************************************)
(* Rental stock (modules/rentals): checkouts that lock the item rows, the  *)
(* day-by-day count of the units already out, the vendor's edits and       *)
(* removals of items meanwhile, and the return that puts units back.       *)
(* What a return does to the security deposit is in Deposit.               *)
(*                                                                         *)
(* A checkout is one transaction, read committed: it locks the rows of its *)
(* items one after the other, then reads the items and the reservations,   *)
(* then writes.  Everything else that writes an item's row waits for that  *)
(* lock.  Time is in ticks of a part of a day.                             *)
(***************************************************************************)
EXTENDS Integers, Sequences, FiniteSets, FiniteSetsExt

CONSTANTS Items, Customers,
          Forms,       \* the orders customers may send: [wants, start, end]
          Stocks,      \* what the vendor may set on an item: [quantity, turnaround]
          Ticks,       \* ticks in a day
          MaxRentals,  \* bound: rentals ever requested
          MaxEdits,    \* bound: edits of an item
          Nobody

ASSUME RentalsAssumption ==
    /\ Ticks \in Nat \ {0} /\ MaxRentals \in Nat /\ MaxEdits \in Nat
    /\ IsFiniteSet(Items) /\ Nobody \notin Customers
    /\ Stocks \subseteq [quantity : Nat \ {0}, turnaround : Nat]
    /\ Forms \subseteq [wants : [Items -> Nat], start : Nat, end : Nat]
    /\ \A f \in Forms : f.start <= f.end /\ \E i \in Items : f.wants[i] > 0

VARIABLES
    item,     \* rentalItem rows: quantity, turnaround, and whether it can be rented
    rentals,  \* the bookings of rentals with their reservations, in order of creation
    order,    \* for each customer, the checkout under way
    lock,     \* which checkout holds each item's row
    removing, \* items whose removal has counted the rentals and not yet written
    returning, \* rentals whose return has been checked and not yet written
    edits     \* edits so far

vars == <<item, rentals, order, lock, removing, returning, edits>>
-----------------------------------------------------------------------------
(* rental-availability.ts                                                   *)

Overlap(a, b) == a[1] < b[2] /\ a[2] > b[1]
Day(d) == <<d * Ticks, (d + 1) * Ticks>>

blockedWindow(r, turnaround) == <<r.start * Ticks - turnaround, (r.end + 1) * Ticks + turnaround>>

\* units of i out on day d, of the rentals in S
Used(i, d, S) ==
    MapThenSumSet(LAMBDA r : rentals[r].wants[i],
                  {r \in S : Overlap(blockedWindow(rentals[r], item[i].turnaround), Day(d))})

peakUsage(i, S, start, end) == Max({Used(i, d, S) : d \in start..end})

availableQuantity(i, S, start, end) ==
    Max({0, item[i].quantity - peakUsage(i, S, start, end)})
-----------------------------------------------------------------------------
(* Checkout: rentals.service.ts book.                                       *)

Rented == DOMAIN rentals
NoOrder == [at |-> "idle"]
Wanted(f) == {i \in Items : f.wants[i] > 0}
Locked(c) == {i \in Items : lock[i] = c}
Unlock(c) == lock' = [i \in Items |-> IF lock[i] = c THEN Nobody ELSE lock[i]]

\* holdingReservations: the active ones of bookings that still hold stock and
\* that could touch the days asked for
holdingReservations(f) ==
    LET pad == Max({item[i].turnaround : i \in Wanted(f)}) IN
    {r \in Rented :
        /\ rentals[r].res = "ACTIVE"
        /\ rentals[r].status \notin {"CANCELLED", "REJECTED"}
        /\ rentals[r].start * Ticks < (f.end + 1) * Ticks + pad
        /\ rentals[r].end * Ticks >= (f.start - 1) * Ticks - pad}

\* loadLines and checkStock
InStock(f) ==
    LET held == holdingReservations(f) IN
    \A i \in Wanted(f) :
       item[i].live /\ availableQuantity(i, held, f.start, f.end) >= f.wants[i]

Checkout(c) ==
    /\ order[c] = NoOrder
    /\ Len(rentals) + Cardinality({d \in Customers : order[d] # NoOrder}) < MaxRentals
    /\ \E f \in Forms : order' = [order EXCEPT ![c] = [at |-> "lock", form |-> f]]
    /\ UNCHANGED <<item, rentals, lock, removing, returning, edits>>

\* Mutant: the item rows are read without locking them.
FreeNotAsked(c, i) == TRUE
\* SELECT ... FOR UPDATE takes the rows in whatever order it meets them
Free(c, i) == lock[i] = Nobody

LockRow(c) ==
    /\ order[c].at = "lock"
    /\ \E i \in Wanted(order[c].form) \ Locked(c) :
         Free(c, i) /\ lock' = [lock EXCEPT ![i] = c]
    /\ order' = [order EXCEPT ![c].at =
                   IF Wanted(order[c].form) = {i \in Items : lock'[i] = c} THEN "read" ELSE "lock"]
    /\ UNCHANGED <<item, rentals, removing, returning, edits>>

Abandon(c) ==
    /\ order' = [order EXCEPT ![c] = NoOrder]
    /\ Unlock(c)
    /\ UNCHANGED <<item, rentals, removing, returning, edits>>

CheckStock(c) ==
    /\ order[c].at = "read"
    /\ IF InStock(order[c].form)
       THEN /\ order' = [order EXCEPT ![c].at = "create"]
            /\ UNCHANGED <<item, rentals, lock, removing, returning, edits>>
       ELSE Abandon(c)

\* the booking request with its reservations; the commit gives the locks back
Create(c) ==
    /\ order[c].at = "create"
    /\ LET f == order[c].form IN
       rentals' = Append(rentals,
         [wants |-> f.wants, start |-> f.start, end |-> f.end,
          status |-> "PENDING", res |-> "ACTIVE"])
    /\ order' = [order EXCEPT ![c] = NoOrder]
    /\ Unlock(c)
    /\ UNCHANGED <<item, removing, returning, edits>>

\* Mutant: nobody notices two checkouts waiting for each other.
WaitsForNobody(c, d) == FALSE
WaitsFor(c, d) ==
    order[c].at = "lock" /\ \E i \in Wanted(order[c].form) \ Locked(c) : lock[i] = d

\* Postgres ends one of two transactions that wait for each other (external)
DeadlockVictim(c) ==
    /\ \E d \in Customers \ {c} : WaitsFor(c, d) /\ WaitsFor(d, c)
    /\ Abandon(c)
-----------------------------------------------------------------------------
(* The vendor's items.                                                      *)

\* updateItem: a new quantity or turnaround is not checked against what is
\* already rented out
EditItem(i) ==
    /\ edits < MaxEdits /\ edits' = edits + 1
    /\ lock[i] = Nobody
    /\ \E s \in Stocks, live \in BOOLEAN :
         item' = [item EXCEPT ![i] = [quantity |-> s.quantity, turnaround |-> s.turnaround, live |-> live]]
    /\ UNCHANGED <<rentals, order, lock, removing, returning>>

\* removeItem: it counts the rentals under way, then marks the item deleted
CountRentals(i) ==
    /\ edits < MaxEdits /\ edits' = edits + 1
    /\ ~removing[i]
    /\ \A r \in Rented : ~ /\ rentals[r].wants[i] > 0 /\ rentals[r].res = "ACTIVE"
                           /\ rentals[r].status \in {"PENDING", "CONFIRMED"}
    /\ removing' = [removing EXCEPT ![i] = TRUE]
    /\ UNCHANGED <<item, rentals, order, lock, returning>>

RemoveItem(i) ==
    /\ removing[i] /\ lock[i] = Nobody
    /\ removing' = [removing EXCEPT ![i] = FALSE]
    /\ item' = [item EXCEPT ![i].live = FALSE]
    /\ UNCHANGED <<rentals, order, lock, returning, edits>>
-----------------------------------------------------------------------------
(* The rental's booking.                                                    *)

SetStatus(r, from, to) ==
    /\ rentals[r].status \in from
    /\ rentals' = [rentals EXCEPT ![r].status = to]
    /\ UNCHANGED <<item, order, lock, removing, returning, edits>>

Accept(r) == SetStatus(r, {"PENDING"}, "CONFIRMED")
Reject(r) == SetStatus(r, {"PENDING"}, "REJECTED")
Cancel(r) == SetStatus(r, {"PENDING", "CONFIRMED"}, "CANCELLED")
Complete(r) == SetStatus(r, {"CONFIRMED"}, "COMPLETED")
-----------------------------------------------------------------------------
(* Returns: recordReturn.                                                   *)

\* Mutant: any booking may be returned.
ToReturnAny(r) == rentals[r].res = "ACTIVE"
\* No return is recorded yet (the reservations are ACTIVE), and the rental is under way.
ToReturn(r) == rentals[r].res = "ACTIVE" /\ rentals[r].status \in {"CONFIRMED", "COMPLETED"}

\* what it checks before the photos are stored
CheckReturn(r) ==
    /\ r \notin returning
    /\ ToReturn(r)
    /\ returning' = returning \cup {r}
    /\ UNCHANGED <<item, rentals, order, lock, removing, edits>>

\* The return and its reservations in one transaction.  At a second desk it
\* fails (rentalReturn.booking_id is unique) and changes nothing.
RecordReturn(r) ==
    /\ r \in returning
    /\ returning' = returning \ {r}
    /\ rentals' = [rentals EXCEPT ![r].res = "RETURNED"]
    /\ UNCHANGED <<item, order, lock, removing, edits>>
-----------------------------------------------------------------------------
Init ==
    /\ \E s \in Stocks : item = [i \in Items |-> [quantity |-> s.quantity, turnaround |-> s.turnaround, live |-> TRUE]]
    /\ rentals = <<>>
    /\ order = [c \in Customers |-> NoOrder]
    /\ lock = [i \in Items |-> Nobody]
    /\ removing = [i \in Items |-> FALSE]
    /\ returning = {}
    /\ edits = 0

ContinueOrder(c) == LockRow(c) \/ CheckStock(c) \/ Create(c) \/ DeadlockVictim(c)

Next ==
    \/ \E c \in Customers : Checkout(c) \/ ContinueOrder(c)
    \/ \E i \in Items : EditItem(i) \/ CountRentals(i) \/ RemoveItem(i)
    \/ \E r \in Rented : \/ Accept(r) \/ Reject(r) \/ Cancel(r) \/ Complete(r)
                         \/ CheckReturn(r) \/ RecordReturn(r)

Spec == Init /\ [][Next]_vars

\* The database goes on with a transaction, grants a row to those who wait for
\* it in turn, and ends deadlocks.
FairSpec == Spec /\ \A c \in Customers : SF_vars(ContinueOrder(c))
-----------------------------------------------------------------------------
\* The rows are what the schema allows, only what the vendor accepted is returned,
\* and only a checkout under way holds locks.
TypeOK ==
    /\ \A i \in Items : item[i].quantity \in Nat \ {0} /\ item[i].turnaround \in Nat
    /\ \A r \in Rented : /\ rentals[r].status \in {"PENDING", "CONFIRMED", "COMPLETED", "REJECTED", "CANCELLED"}
                         /\ rentals[r].res \in {"ACTIVE", "RETURNED"}
                         /\ rentals[r].res = "RETURNED" => rentals[r].status \notin {"PENDING", "REJECTED"}
    /\ \A c \in Customers : order[c] = NoOrder => Locked(c) = {}

\* The units of i out of the vendor's hands at a moment, tick by tick: each
\* rental keeps its units for its days and the turnaround after them.
OutAt(i, t, S) ==
    MapThenSumSet(LAMBDA r : rentals'[r].wants[i],
                  {r \in S : Overlap(<<rentals'[r].start * Ticks, (rentals'[r].end + 1) * Ticks + item[i].turnaround>>, <<t, t + 1>>)})

Holding == {r \in DOMAIN rentals' : rentals'[r].res = "ACTIVE" /\ rentals'[r].status \notin {"CANCELLED", "REJECTED"}}

\* A new rental is only made on items that can be rented, and with it there are
\* enough units at every moment until its own turnaround is over, whatever was
\* checked out, edited or removed while it was being made: the day-by-day count
\* of peakUsage over padded rentals is never less than what is really out.
BookedWithinStock ==
    [][\A r \in DOMAIN rentals' \ DOMAIN rentals :
          LET x == rentals'[r] IN
          \A i \in Wanted(x) :
             /\ item[i].live
             /\ \A t \in x.start * Ticks .. ((x.end + 1) * Ticks + item[i].turnaround - 1) :
                   OutAt(i, t, Holding) <= item[i].quantity]_vars

\* Every checkout is answered, also two that lock the same items in opposite order.
CheckoutEnds == \A c \in Customers : order[c] # NoOrder ~> order[c] = NoOrder
=============================================================================
