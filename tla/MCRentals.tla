------------------------------ MODULE MCRentals ------------------------------
(* Small instances of Rentals: two items, orders for the same days and     *)
(* for the days right after, within the turnaround.                         *)
EXTENDS Rentals

CONSTANTS chairs, tent

MCItems == {chairs, tent}
Order(n, m, start, end) ==
    [wants |-> [i \in MCItems |-> IF i = chairs THEN n ELSE m], start |-> start, end |-> end]
MCForms == {Order(1, 1, 1, 2), Order(2, 0, 3, 3)}
\* Half a day's turnaround, then with fewer units and a longer one.
MCStocks == {[quantity |-> 2, turnaround |-> 1], [quantity |-> 1, turnaround |-> 3]}
=============================================================================
