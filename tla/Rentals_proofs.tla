--------------------------- MODULE Rentals_proofs ---------------------------
(***************************************************************************)
(* For any items, customers, orders and stocks: no rental is made of units *)
(* that are not there.  The first part follows each rental and its return, *)
(* the second adds up what all of them hold.                               *)
(***************************************************************************)
EXTENDS Rentals, Sums_proofs, SequenceTheorems, TLAPS

RentalRows ==
    [wants : [Items -> Nat], start : Nat, end : Nat,
     status : {"PENDING", "CONFIRMED", "COMPLETED", "REJECTED", "CANCELLED"},
     res : {"ACTIVE", "RETURNED"}]
Orders == {NoOrder} \cup [at : {"lock", "read", "create"}, form : Forms]

Types ==
    /\ rentals \in Seq(RentalRows)
    /\ order \in [Customers -> Orders]

\* A rental the vendor accepted, whatever became of it.
Accepted(x) == x.status \in {"CONFIRMED", "COMPLETED", "CANCELLED"}

\* The inductive invariant: what is returned, or about to be, was accepted.
RentalsInv ==
    /\ Types
    /\ \A r \in returning : r \in Rented /\ Accepted(rentals[r])
    /\ \A r \in Rented : rentals[r].res = "RETURNED" => Accepted(rentals[r])

-----------------------------------------------------------------------------
\* Nothing is rented at the start.
LEMMA InitInv == ASSUME Init PROVE RentalsInv
    BY DEF Init, RentalsInv, Types, Orders, Rented, NoOrder

\* A step that changes one rental, whose return it neither checks nor makes
\* without the vendor's word.
LEMMA OneRental ==
    ASSUME RentalsInv, NEW r \in Rented, NEW x \in RentalRows,
           rentals' = [rentals EXCEPT ![r] = x], order' = order, returning' \subseteq returning,
           Accepted(rentals[r]) => Accepted(x),
           x.res = "RETURNED" => Accepted(x)
    PROVE  RentalsInv'
<1>1. rentals \in Seq(RentalRows)
    BY DEF RentalsInv, Types
<1>2. rentals' \in Seq(RentalRows) /\ DOMAIN rentals' = DOMAIN rentals
    BY <1>1 DEF Rented
<1>3. \A q \in Rented : rentals'[q] = IF q = r THEN x ELSE rentals[q]
    BY <1>1 DEF Rented
<1>4. Types'
    BY <1>2 DEF RentalsInv, Types
<1>5. \A q \in Rented' : rentals'[q].res = "RETURNED" => Accepted(rentals'[q])
    BY <1>2, <1>3 DEF RentalsInv, Rented
<1>6. \A q \in returning' : q \in Rented' /\ Accepted(rentals'[q])
    BY <1>2, <1>3 DEF RentalsInv, Rented
<1>7. QED BY <1>4, <1>5, <1>6 DEF RentalsInv, Accepted

\* What happens to the booking of a rental, and its return.
LEMMA RentalStep ==
    ASSUME RentalsInv, NEW r \in Rented,
           Accept(r) \/ Reject(r) \/ Cancel(r) \/ Complete(r) \/ RecordReturn(r)
    PROVE  RentalsInv'
<1>1. rentals[r] \in RentalRows /\ (rentals[r].res = "RETURNED" => Accepted(rentals[r]))
    BY DEF RentalsInv, Types, Rented
<1>2. ASSUME NEW from, NEW to \in {"CONFIRMED", "REJECTED", "CANCELLED", "COMPLETED"}, SetStatus(r, from, to),
             to = "REJECTED" => from = {"PENDING"}
      PROVE  RentalsInv'
    <2> DEFINE x == [rentals[r] EXCEPT !.status = to]
    <2>1. x \in RentalRows /\ x.res = rentals[r].res /\ x.status = to
        BY <1>1 DEF RentalRows
    <2>2. Accepted(rentals[r]) => Accepted(x)
        BY <1>2, <2>1 DEF Accepted, SetStatus
    <2>3. rentals' = [rentals EXCEPT ![r] = x] /\ UNCHANGED <<order, returning>>
        BY <1>2 DEF SetStatus
    <2>4. QED BY <1>1, <2>1, <2>2, <2>3, OneRental
<1>3. CASE RecordReturn(r)
    <2> DEFINE x == [rentals[r] EXCEPT !.res = "RETURNED"]
    <2>1. x \in RentalRows /\ x.status = rentals[r].status
        BY <1>1 DEF RentalRows
    <2>2. Accepted(rentals[r]) /\ Accepted(x)
        BY <1>3, <2>1 DEF RecordReturn, RentalsInv, Accepted
    <2>3. rentals' = [rentals EXCEPT ![r] = x] /\ order' = order /\ returning' \subseteq returning
        BY <1>3 DEF RecordReturn
    <2>4. QED BY <2>1, <2>2, <2>3, OneRental
<1>4. CASE Accept(r) \/ Reject(r) \/ Cancel(r) \/ Complete(r)
    BY <1>2, <1>4 DEF Accept, Reject, Cancel, Complete
<1>5. QED BY <1>3, <1>4

\* The vendor's return is looked up and checked.
LEMMA CheckStep ==
    ASSUME RentalsInv, NEW r \in Rented, CheckReturn(r)
    PROVE  RentalsInv'
<1>1. Accepted(rentals[r]) /\ returning' = returning \cup {r} /\ UNCHANGED <<rentals, order>>
    BY DEF CheckReturn, ToReturn, Accepted
<1>2. QED BY <1>1 DEF RentalsInv, Types, Rented, Accepted

\* The row of a new rental: it is out.
NewRow(x, f) ==
    /\ x \in RentalRows
    /\ x.wants = f.wants /\ x.start = f.start /\ x.end = f.end
    /\ x.status = "PENDING" /\ x.res = "ACTIVE"

LEMMA NewRental ==
    ASSUME RentalsInv, NEW c \in Customers, Create(c)
    PROVE  \E x : NewRow(x, order[c].form) /\ rentals' = Append(rentals, x)
<1>1. order \in [Customers -> Orders]
    BY DEF RentalsInv, Types
<1>2. order[c].form \in Forms
    BY <1>1 DEF Create, Orders, NoOrder
<1>3. order[c].form \in [wants : [Items -> Nat], start : Nat, end : Nat]
    BY <1>2, RentalsAssumption
<1> DEFINE f == order[c].form
           x == [wants |-> f.wants, start |-> f.start, end |-> f.end,
                 status |-> "PENDING", res |-> "ACTIVE"]
<1>4. rentals' = Append(rentals, x)
    BY DEF Create
<1>5. NewRow(x, order[c].form)
    BY <1>3 DEF NewRow, RentalRows
<1>6. QED BY <1>4, <1>5

\* A checkout that ends in a rental.
LEMMA CreateStep ==
    ASSUME RentalsInv, NEW c \in Customers, Create(c)
    PROVE  RentalsInv'
<1>1. rentals \in Seq(RentalRows) /\ order \in [Customers -> Orders]
    BY DEF RentalsInv, Types
<1>2. PICK x : NewRow(x, order[c].form) /\ rentals' = Append(rentals, x)
    BY NewRental
<1>3. x \in RentalRows /\ x.res = "ACTIVE"
    BY <1>2 DEF NewRow
<1>4. rentals' \in Seq(RentalRows) /\ DOMAIN rentals' = 1..(Len(rentals) + 1)
    BY <1>1, <1>2, <1>3
<1>5. DOMAIN rentals = 1..Len(rentals) /\ \A q \in Rented : rentals'[q] = rentals[q]
    BY <1>1, <1>2 DEF Rented
<1>6. rentals'[Len(rentals) + 1] = x
    BY <1>1, <1>2
<1>7. \A q \in Rented' : rentals'[q].res = "RETURNED" => Accepted(rentals'[q])
    BY <1>1, <1>3, <1>4, <1>5, <1>6 DEF RentalsInv, Rented
<1>8. order' \in [Customers -> Orders] /\ returning' = returning
    BY <1>1 DEF Create, Orders
<1>9. \A q \in returning' : q \in Rented' /\ Accepted(rentals'[q])
    BY <1>1, <1>4, <1>5, <1>8 DEF RentalsInv, Rented
<1>10. QED BY <1>4, <1>7, <1>8, <1>9 DEF RentalsInv, Types, Accepted

\* A step that touches neither rentals nor their returns.
LEMMA OtherStep ==
    ASSUME RentalsInv, UNCHANGED <<rentals, returning>>, order' \in [Customers -> Orders]
    PROVE  RentalsInv'
    BY DEF RentalsInv, Types, Rented, Accepted

LEMMA OrderStep ==
    ASSUME RentalsInv, NEW c \in Customers, Checkout(c) \/ LockRow(c) \/ CheckStock(c) \/ DeadlockVictim(c)
    PROVE  RentalsInv'
<1>1. order \in [Customers -> Orders]
    BY DEF RentalsInv, Types
<1>2. UNCHANGED <<rentals, returning>>
    BY DEF Checkout, LockRow, CheckStock, DeadlockVictim, Abandon
<1>3. CASE Checkout(c)
    <2>1. PICK o : o \in Orders /\ order' = [order EXCEPT ![c] = o]
        BY <1>3 DEF Checkout, Orders
    <2>2. QED BY <1>1, <1>2, <2>1, OtherStep
<1>4. CASE LockRow(c)
    <2>1. PICK at \in {"read", "lock"} : order' = [order EXCEPT ![c].at = at]
        BY <1>4 DEF LockRow
    <2>2. order[c] \in [at : {"lock", "read", "create"}, form : Forms]
        BY <1>1, <1>4 DEF LockRow, Orders, NoOrder
    <2>3. [order[c] EXCEPT !.at = at] \in Orders
        BY <2>2 DEF Orders
    <2>4. QED BY <1>1, <1>2, <2>1, <2>3, OtherStep
<1>5. CASE CheckStock(c) \/ DeadlockVictim(c)
    <2>1. CASE order' = [order EXCEPT ![c] = NoOrder]
        BY <1>1, <1>2, <2>1, OtherStep DEF Orders
    <2>2. CASE order' = [order EXCEPT ![c].at = "create"] /\ order[c].at = "read"
        <3>1. order[c] \in [at : {"lock", "read", "create"}, form : Forms]
            BY <1>1, <2>2 DEF Orders, NoOrder
        <3>2. [order[c] EXCEPT !.at = "create"] \in Orders
            BY <3>1 DEF Orders
        <3>3. QED BY <1>1, <1>2, <2>2, <3>2, OtherStep
    <2>3. QED BY <1>5, <2>1, <2>2 DEF CheckStock, DeadlockVictim, Abandon
<1>6. QED BY <1>3, <1>4, <1>5

LEMMA StepInv == ASSUME RentalsInv, [Next]_vars PROVE RentalsInv'
<1>1. ASSUME NEW c \in Customers, Checkout(c) \/ ContinueOrder(c) PROVE RentalsInv'
    BY <1>1, OrderStep, CreateStep DEF ContinueOrder
<1>2. ASSUME NEW i \in Items, EditItem(i) \/ CountRentals(i) \/ RemoveItem(i) PROVE RentalsInv'
    <2>1. UNCHANGED <<rentals, order, returning>>
        BY <1>2 DEF EditItem, CountRentals, RemoveItem
    <2>2. order \in [Customers -> Orders]
        BY DEF RentalsInv, Types
    <2>3. QED BY <2>1, <2>2, OtherStep
<1>3. CASE UNCHANGED vars
    <2>1. order \in [Customers -> Orders]
        BY DEF RentalsInv, Types
    <2>2. QED BY <1>3, <2>1, OtherStep DEF vars
<1>4. QED BY <1>1, <1>2, <1>3, RentalStep, CheckStep DEF Next
-----------------------------------------------------------------------------
(* The stock.                                                               *)

ItemRows == [quantity : Nat \ {0}, turnaround : Nat, live : BOOLEAN]
Gone == {"CANCELLED", "REJECTED"}

\* A rental holds its units of an item at a moment: on its days and in the item's
\* turnaround after them.
Keeps(x, row, t) ==
    /\ x.res = "ACTIVE" /\ x.status \notin Gone
    /\ x.start * Ticks <= t /\ t < (x.end + 1) * Ticks + row.turnaround
UnitsOf(q, row, i, t) == [r \in DOMAIN q |-> IF Keeps(q[r], row, t) THEN q[r].wants[i] ELSE 0]
Units(i, t) == UnitsOf(rentals, item[i], i, t)
Out(i, t) == SumFunctionOnSet(Units(i, t), Rented)

\* The moments an order holds its units of an item.
Moments(f, row) == f.start * Ticks .. ((f.end + 1) * Ticks + row.turnaround - 1)

\* There is enough left for an order, at every moment.
Left(f, i) ==
    /\ item[i].live
    /\ \A t \in Moments(f, item[i]) : Out(i, t) + f.wants[i] <= item[i].quantity
Enough(f) == \A i \in Wanted(f) : Left(f, i)

\* A checkout that has read its items holds their rows, and what it found out about
\* them stays true until it is done.
OrderFits(c) ==
    /\ order[c] = NoOrder => Locked(c) = {}
    /\ order[c].at \in {"read", "create"} => Locked(c) = Wanted(order[c].form)
    /\ order[c].at = "create" => Enough(order[c].form)

StockInv ==
    /\ RentalsInv
    /\ item \in [Items -> ItemRows]
    /\ lock \in [Items -> Customers \cup {Nobody}]
    /\ \A c \in Customers : OrderFits(c)

-----------------------------------------------------------------------------
(* Days and moments.                                                        *)

\* Every moment is in a day.
LEMMA DayOf ==
    ASSUME NEW t \in Nat
    PROVE  \E d \in Nat : d * Ticks <= t /\ t < (d + 1) * Ticks
<1>1. Ticks \in Nat \ {0}
    BY RentalsAssumption
<1>2. (t \div Ticks) * Ticks <= t /\ t < ((t \div Ticks) + 1) * Ticks /\ t \div Ticks \in Nat
    BY <1>1
<1>3. QED BY <1>2

LEMMA DaysGrow ==
    ASSUME NEW a \in Nat, NEW b \in Nat
    PROVE  /\ a <= b => a * Ticks <= b * Ticks
           /\ a * Ticks \in Nat /\ (a + 1) * Ticks = a * Ticks + Ticks
           /\ a * Ticks < (b + 1) * Ticks => a <= b
<1>1. Ticks \in Nat \ {0}
    BY RentalsAssumption
<1>2. a * Ticks \in Nat /\ b * Ticks \in Nat /\ (a + 1) * Ticks = a * Ticks + Ticks
      /\ (b + 1) * Ticks \in Nat
    BY <1>1
<1>3. a <= b => a * Ticks <= b * Ticks
    BY <1>1
<1>4. b + 1 <= a => (b + 1) * Ticks <= a * Ticks
    BY <1>1
<1>5. QED BY <1>2, <1>3, <1>4

\* The moments of an order fall on its days, or in the turnaround after the last of
\* them; what is out at such a moment the padded window of its rental shows on that
\* day, and was read with the reservations.
LEMMA DayShows ==
    ASSUME NEW f \in Forms, NEW turn \in Nat, NEW pad \in Nat, turn <= pad,
           NEW t \in f.start * Ticks .. ((f.end + 1) * Ticks + turn - 1)
    PROVE  \E d \in f.start .. f.end :
             \A a, b \in Nat :
               a * Ticks <= t /\ t < (b + 1) * Ticks + turn
                 => /\ a * Ticks - turn < (d + 1) * Ticks
                    /\ (b + 1) * Ticks + turn > d * Ticks
                    /\ a * Ticks < (f.end + 1) * Ticks + pad
                    /\ b * Ticks >= (f.start - 1) * Ticks - pad
<1>1. Ticks \in Nat \ {0} /\ f.start \in Nat /\ f.end \in Nat /\ f.start <= f.end
    BY RentalsAssumption
<1> DEFINE first == f.start * Ticks
           last == f.end * Ticks
<1>2. /\ first \in Nat /\ last \in Nat /\ (f.end + 1) * Ticks = last + Ticks
      /\ (f.start - 1) * Ticks = first - Ticks
    BY <1>1
<1>3. first <= t /\ t < last + Ticks + turn /\ t \in Nat
    BY <1>1, <1>2
<1> HIDE DEF first, last
<1>4. PICK d \in f.start .. f.end :
         /\ d * Ticks <= t
         /\ t < (d + 1) * Ticks \/ (d = f.end /\ t < (d + 1) * Ticks + turn)
    <2>1. CASE t < last + Ticks
        <3>1. PICK d \in Nat : d * Ticks <= t /\ t < (d + 1) * Ticks
            BY <1>3, DayOf
        <3>2. f.start * Ticks < (d + 1) * Ticks /\ d * Ticks < (f.end + 1) * Ticks
            <4>1. PICK D \in Nat, E \in Nat : D = d * Ticks /\ E = (d + 1) * Ticks
                BY <1>1, <3>1
            <4>2. first < E /\ D < last + Ticks
                BY <1>1, <1>2, <1>3, <2>1, <3>1, <4>1
            <4>3. QED BY <1>2, <4>1, <4>2 DEF first
        <3>3. f.start <= d /\ d <= f.end
            BY <1>1, <3>1, <3>2, DaysGrow
        <3>4. QED BY <1>1, <3>1, <3>3
    <2>2. CASE ~ (t < last + Ticks)
        <3>1. f.end * Ticks <= t /\ t < (f.end + 1) * Ticks + turn
            BY <1>1, <1>2, <1>3, <2>2 DEF last
        <3>2. QED BY <1>1, <3>1
    <2>3. QED BY <2>1, <2>2
<1>5. ASSUME NEW a \in Nat, NEW b \in Nat, a * Ticks <= t, t < (b + 1) * Ticks + turn
      PROVE  /\ a * Ticks - turn < (d + 1) * Ticks
             /\ (b + 1) * Ticks + turn > d * Ticks
             /\ a * Ticks < (f.end + 1) * Ticks + pad
             /\ b * Ticks >= (f.start - 1) * Ticks - pad
    <2>1. PICK A \in Nat, B \in Nat, D \in Nat :
             /\ A = a * Ticks /\ B = b * Ticks /\ D = d * Ticks
             /\ (b + 1) * Ticks = B + Ticks /\ (d + 1) * Ticks = D + Ticks
        <3>1. d \in Nat
            BY <1>1
        <3>2. QED BY <3>1, DaysGrow
    <2>2. A <= t /\ t < B + Ticks + turn /\ D <= t
          /\ (t < D + Ticks \/ (D = last /\ t < D + Ticks + turn))
        BY <1>4, <1>5, <2>1 DEF last
    <2>3. A - turn < D + Ticks /\ B + Ticks + turn > D
        BY <1>1, <1>3, <2>1, <2>2
    <2>4. A < last + Ticks + pad /\ B >= first - Ticks - pad
        BY <1>1, <1>2, <1>3, <2>1, <2>2
    <2>5. QED BY <1>2, <2>1, <2>3, <2>4
<1>6. QED BY <1>4, <1>5

-----------------------------------------------------------------------------
(* What is out.                                                             *)

\* The largest of a finite set of numbers.
LEMMA LargestOf ==
    ASSUME NEW f, NEW S, IsFiniteSet(S), S # {}, \A x \in S : f[x] \in Int
    PROVE  /\ \E x \in S : Max({f[y] : y \in S}) = f[x]
           /\ \A x \in S : f[x] <= Max({f[y] : y \in S})
<1> DEFINE F == {f[y] : y \in S}
<1>1. PICK x \in S : \A y \in S : f[y] <= f[x]
    BY LargestExists
<1>2. f[x] \in F /\ \A m \in F : f[x] >= m
    BY <1>1
<1>3. F \subseteq Int
    OBVIOUS
<1>4. Max(F) = CHOOSE m \in F : \A n \in F : m >= n
    BY DEF Max
<1> HIDE DEF F
<1>5. Max(F) \in F /\ \A n \in F : Max(F) >= n
    BY <1>2, <1>4
<1>6. QED BY <1>3, <1>5 DEF F

\* The sum of what rentals want of an item, as the library adds it up.
WantsAdded(q, i, X) ==
    (CHOOSE g : g = [s \in SUBSET X |->
       IF s = {} THEN 0 ELSE q[First(s)].wants[i] + g[s \ {First(s)}]])[X]
Wants(q, i, X) == [r \in X |-> q[r].wants[i]]
LEMMA WantsSum ==
    ASSUME NEW q, NEW i, NEW X
    PROVE  WantsAdded(q, i, X) = SumFunctionOnSet(Wants(q, i, X), X)
<1> DEFINE f == Wants(q, i, X)
           AddsUp(g) == g = [s \in SUBSET X |->
              IF s = {} THEN 0 ELSE q[First(s)].wants[i] + g[s \ {First(s)}]]
<1>1. \A s \in SUBSET X : s # {} => q[First(s)].wants[i] = f[First(s)]
    BY Rest DEF Wants
<1>2. \A g : AddsUp(g) <=> Adds(f, X, g)
    <2> HIDE DEF f
    <2>1. QED BY <1>1 DEF Adds
<1>3. (CHOOSE g : AddsUp(g)) = (CHOOSE g : Adds(f, X, g))
    <2> HIDE DEF f, AddsUp
    <2>1. QED BY <1>2, Zenon
<1>4. (CHOOSE g : AddsUp(g))[X] = SumFunctionOnSet(f, X)
    BY <1>3, SumIs
<1>5. QED BY <1>4 DEF WantsAdded

UsedBy(i, d, S) == {r \in S : Overlap(blockedWindow(rentals[r], item[i].turnaround), Day(d))}
LEMMA UsedIs ==
    ASSUME NEW i, NEW d, NEW S
    PROVE  Used(i, d, S) = SumFunctionOnSet(Wants(rentals, i, UsedBy(i, d, S)), UsedBy(i, d, S))
<1>1. Used(i, d, S) = WantsAdded(rentals, i, UsedBy(i, d, S))
    BY DEF Used, MapThenSumSet, MapThenFoldSet, First, UsedBy, WantsAdded
<1>2. QED BY <1>1, WantsSum

OutBy(i, t, S) ==
    {r \in S : Overlap(<<rentals'[r].start * Ticks, (rentals'[r].end + 1) * Ticks + item[i].turnaround>>, <<t, t + 1>>)}
LEMMA OutIs ==
    ASSUME NEW i, NEW t, NEW S
    PROVE  OutAt(i, t, S) = SumFunctionOnSet(Wants(rentals', i, OutBy(i, t, S)), OutBy(i, t, S))
<1>1. OutAt(i, t, S) = WantsAdded(rentals', i, OutBy(i, t, S))
    BY DEF OutAt, MapThenSumSet, MapThenFoldSet, First, OutBy, WantsAdded
<1>2. QED BY <1>1, WantsSum

\* What rentals hold are numbers, and so is what is out.
LEMMA UnitsOfAre ==
    ASSUME NEW q \in Seq(RentalRows), NEW row, NEW i \in Items, NEW t
    PROVE  /\ IsFiniteSet(DOMAIN q) /\ DOMAIN q = 1..Len(q) /\ Len(q) \in Nat
           /\ \A r \in DOMAIN q : /\ q[r] \in RentalRows /\ q[r].wants[i] \in Nat
                                  /\ UnitsOf(q, row, i, t)[r] = IF Keeps(q[r], row, t)
                                                               THEN q[r].wants[i] ELSE 0
                                  /\ UnitsOf(q, row, i, t)[r] \in Nat
           /\ SumFunctionOnSet(UnitsOf(q, row, i, t), DOMAIN q) \in Nat
<1>1. DOMAIN q = 1..Len(q) /\ Len(q) \in Nat
    OBVIOUS
<1>2. IsFiniteSet(DOMAIN q)
    BY <1>1, FS_Interval
<1>3. \A r \in DOMAIN q : q[r] \in RentalRows
    OBVIOUS
<1>4. \A r \in DOMAIN q : q[r].wants[i] \in Nat
    BY <1>3 DEF RentalRows
<1>5. \A r \in DOMAIN q : UnitsOf(q, row, i, t)[r] = IF Keeps(q[r], row, t)
                                                    THEN q[r].wants[i] ELSE 0
    BY DEF UnitsOf
<1>6. \A r \in DOMAIN q : UnitsOf(q, row, i, t)[r] \in Nat
    BY <1>4, <1>5
<1>7. SumFunctionOnSet(UnitsOf(q, row, i, t), DOMAIN q) \in Nat
    BY <1>2, <1>6, SumNat
<1>8. QED BY <1>1, <1>2, <1>3, <1>4, <1>5, <1>6, <1>7

LEMMA UnitsAre ==
    ASSUME RentalsInv, NEW i \in Items, NEW t
    PROVE  /\ IsFiniteSet(Rented) /\ Rented = 1..Len(rentals) /\ Len(rentals) \in Nat
           /\ \A r \in Rented : /\ rentals[r] \in RentalRows /\ rentals[r].wants[i] \in Nat
                                /\ Units(i, t)[r] = IF Keeps(rentals[r], item[i], t)
                                                    THEN rentals[r].wants[i] ELSE 0
                                /\ Units(i, t)[r] \in Nat
           /\ Out(i, t) \in Nat
<1>1. rentals \in Seq(RentalRows)
    BY DEF RentalsInv, Types
<1>2. QED BY <1>1, UnitsOfAre DEF Units, Out, Rented

\* The check of the stock, day by day on padded windows, finds enough at every moment.
LEMMA StockChecked ==
    ASSUME StockInv, NEW f \in Forms, InStock(f)
    PROVE  Enough(f)
<1> DEFINE H == holdingReservations(f)
<1> SUFFICES ASSUME NEW i \in Wanted(f)
             PROVE  Left(f, i)
    BY DEF Enough
<1>1. f \in [wants : [Items -> Nat], start : Nat, end : Nat] /\ f.start <= f.end
    BY RentalsAssumption
<1>2. i \in Items /\ f.wants[i] \in Nat /\ f.wants[i] > 0
    BY <1>1 DEF Wanted
<1>3. item[i].live /\ availableQuantity(i, H, f.start, f.end) >= f.wants[i]
    BY DEF InStock
<1>4. \A j \in Items : item[j].turnaround \in Nat /\ item[j].quantity \in Nat
    BY DEF StockInv, ItemRows
<1>5. PICK pad \in Nat : /\ pad = Max({item[j].turnaround : j \in Wanted(f)})
                         /\ item[i].turnaround <= pad
    <2> DEFINE W == Wanted(f)
               g == [j \in W |-> item[j].turnaround]
    <2>1. W \in SUBSET Items /\ i \in W
        BY DEF Wanted
    <2>2. IsFiniteSet(W) /\ W # {}
        BY <2>1, RentalsAssumption, FS_Subset
    <2>3. \A j \in W : g[j] \in Int /\ g[j] = item[j].turnaround /\ g[j] \in Nat
        BY <1>4, <2>1
    <2>4. {item[j].turnaround : j \in W} = {g[j] : j \in W}
        BY <2>3
    <2> HIDE DEF W, g
    <2>5. /\ \E j \in W : Max({g[y] : y \in W}) = g[j]
          /\ \A j \in W : g[j] <= Max({g[y] : y \in W})
        BY <2>2, <2>3, LargestOf
    <2>6. PICK pad \in Nat : pad = Max({g[y] : y \in W}) /\ g[i] <= pad
        BY <2>1, <2>3, <2>5
    <2>7. pad = Max({item[j].turnaround : j \in W}) /\ item[i].turnaround <= pad
        BY <2>1, <2>3, <2>4, <2>6
    <2>8. QED BY <2>7 DEF W
<1>6. H = {r \in Rented :
             /\ rentals[r].res = "ACTIVE" /\ rentals[r].status \notin Gone
             /\ rentals[r].start * Ticks < (f.end + 1) * Ticks + pad
             /\ rentals[r].end * Ticks >= (f.start - 1) * Ticks - pad}
    BY <1>5 DEF holdingReservations, Gone
<1> HIDE DEF H
<1>7. \A d : /\ UsedBy(i, d, H) \subseteq Rented /\ IsFiniteSet(UsedBy(i, d, H))
             /\ \A r \in UsedBy(i, d, H) : Wants(rentals, i, UsedBy(i, d, H))[r] = rentals[r].wants[i]
             /\ Used(i, d, H) \in Nat
    <2> TAKE d
    <2> DEFINE X == UsedBy(i, d, H)
    <2>1. X \in SUBSET Rented
        BY <1>6 DEF UsedBy
    <2>2. IsFiniteSet(X)
        BY <1>2, <2>1, FS_Subset, UnitsAre DEF StockInv
    <2>3. \A r \in X : Wants(rentals, i, X)[r] = rentals[r].wants[i]
        BY DEF Wants
    <2>4. \A r \in X : Wants(rentals, i, X)[r] \in Nat
        BY <1>2, <2>1, <2>3, UnitsAre DEF StockInv
    <2> HIDE DEF X
    <2>5. SumFunctionOnSet(Wants(rentals, i, X), X) \in Nat
        BY <2>2, <2>4, SumNat
    <2>6. QED BY <2>1, <2>2, <2>3, <2>5, UsedIs DEF X
<1>8. \A d \in f.start .. f.end : Used(i, d, H) + f.wants[i] <= item[i].quantity
    <2> DEFINE S == f.start .. f.end
               u == [d \in S |-> Used(i, d, H)]
    <2>0. \A d \in S : u[d] = Used(i, d, H)
        OBVIOUS
    <2>1. {Used(i, d, H) : d \in S} = {u[d] : d \in S} /\ \A d \in S : u[d] \in Int /\ u[d] = Used(i, d, H)
        <3>1. \A d \in S : u[d] \in Int
            BY <1>7, <2>0
        <3> HIDE DEF u
        <3>2. QED BY <2>0, <3>1
    <2>2. S # {} /\ IsFiniteSet(S)
        BY <1>1, FS_Interval
    <2> HIDE DEF S, u
    <2>3. PICK peak \in Int : /\ peak = Max({u[d] : d \in S}) /\ \A d \in S : u[d] <= peak
        BY <2>1, <2>2, LargestOf
    <2>4. peak = peakUsage(i, H, f.start, f.end)
        BY <2>1, <2>3 DEF peakUsage, S
    <2>5. availableQuantity(i, H, f.start, f.end) = Max({0, item[i].quantity - peak})
        BY <2>4 DEF availableQuantity
    <2>6. item[i].quantity - peak >= f.wants[i]
        <3>1. PICK n \in Int : n = item[i].quantity - peak
            BY <1>2, <1>4
        <3>2. \E m \in {0, n} : \A k \in {0, n} : m >= k
            <4>1. CASE 0 >= n
                BY <4>1
            <4>2. CASE ~ (0 >= n)
                BY <4>2
            <4>3. QED BY <4>1, <4>2
        <3>3. Max({0, n}) \in {0, n}
            BY <3>2 DEF Max
        <3>4. QED BY <1>2, <1>3, <2>5, <3>1, <3>3
    <2>7. QED BY <1>2, <1>4, <2>1, <2>3, <2>6 DEF S
<1>9. ASSUME NEW t \in Moments(f, item[i])
      PROVE  Out(i, t) + f.wants[i] <= item[i].quantity
    <2> DEFINE turn == item[i].turnaround
    <2>1. PICK d \in f.start .. f.end :
             \A a, b \in Nat :
               a * Ticks <= t /\ t < (b + 1) * Ticks + turn
                 => /\ a * Ticks - turn < (d + 1) * Ticks
                    /\ (b + 1) * Ticks + turn > d * Ticks
                    /\ a * Ticks < (f.end + 1) * Ticks + pad
                    /\ b * Ticks >= (f.start - 1) * Ticks - pad
        <3>1. t \in f.start * Ticks .. ((f.end + 1) * Ticks + turn - 1)
            BY DEF Moments
        <3>2. turn \in Nat /\ turn <= pad
            BY <1>2, <1>4, <1>5
        <3> HIDE DEF turn
        <3>3. QED BY <3>1, <3>2, DayShows
    <2> DEFINE X == UsedBy(i, d, H)
    <2>2. X \in SUBSET Rented /\ IsFiniteSet(X) /\ IsFiniteSet(Rented)
        BY <1>2, <1>7, UnitsAre DEF StockInv
    <2>3. ASSUME NEW r \in Rented, Keeps(rentals[r], item[i], t)
          PROVE  r \in X
        <3>1. rentals[r].start \in Nat /\ rentals[r].end \in Nat
            BY <1>2, UnitsAre DEF StockInv, RentalRows
        <3>2. /\ rentals[r].start * Ticks - turn < (d + 1) * Ticks
              /\ (rentals[r].end + 1) * Ticks + turn > d * Ticks
              /\ rentals[r].start * Ticks < (f.end + 1) * Ticks + pad
              /\ rentals[r].end * Ticks >= (f.start - 1) * Ticks - pad
            BY <2>1, <2>3, <3>1 DEF Keeps
        <3>3. r \in H
            BY <1>6, <2>3, <3>2 DEF Keeps
        <3>4. Overlap(blockedWindow(rentals[r], turn), Day(d))
            BY <3>2 DEF Overlap, blockedWindow, Day
        <3>5. QED BY <3>3, <3>4 DEF UsedBy
    <2>4. \A r \in Rented : /\ Units(i, t)[r] \in Int
                            /\ r \notin X => Units(i, t)[r] = 0
                            /\ r \in X => Units(i, t)[r] <= rentals[r].wants[i] /\ rentals[r].wants[i] \in Int
        BY <1>2, <2>3, UnitsAre DEF StockInv
    <2>5. \A r \in X : Wants(rentals, i, X)[r] = rentals[r].wants[i]
        BY <1>7
    <2> HIDE DEF X
    <2>6. Out(i, t) = SumFunctionOnSet(Units(i, t), X)
        BY <2>2, <2>4, SumSupport DEF Out
    <2>7. SumFunctionOnSet(Units(i, t), X) <= SumFunctionOnSet(Wants(rentals, i, X), X)
        BY <2>2, <2>4, <2>5, SumOrder
    <2>8. Used(i, d, H) = SumFunctionOnSet(Wants(rentals, i, X), X)
        BY UsedIs DEF X
    <2>9. Used(i, d, H) \in Nat /\ Used(i, d, H) + f.wants[i] <= item[i].quantity
        BY <1>7, <1>8
    <2>10. Out(i, t) \in Nat
        BY <1>2, UnitsAre DEF StockInv
    <2>11. QED BY <1>2, <1>4, <2>6, <2>7, <2>8, <2>9, <2>10
<1>10. QED BY <1>3, <1>9 DEF Left

-----------------------------------------------------------------------------
(* Nothing takes from a checkout what it found.                             *)

\* What becomes of a rental later: it holds no more than it held.
HoldsNoMore(x, y) ==
    /\ y.wants = x.wants /\ y.start = x.start /\ y.end = x.end
    /\ y.res = "ACTIVE" => x.res = "ACTIVE"
    /\ y.status \notin Gone => x.status \notin Gone

\* As long as its items' rows stay and rentals hold no more than before, there is
\* enough for an order.
LEMMA StaysEnough ==
    ASSUME StockInv, RentalsInv', NEW f \in Forms, Enough(f),
           \A i \in Wanted(f) : item'[i] = item[i],
           Rented' = Rented, \A r \in Rented : HoldsNoMore(rentals[r], rentals'[r])
    PROVE  Enough(f)'
<1> SUFFICES ASSUME NEW i \in Wanted(f)
             PROVE  Left(f, i)'
    BY DEF Enough, Wanted
<1>1. i \in Items /\ item'[i] = item[i] /\ Left(f, i)
    BY DEF Wanted, Enough
<1>2. rentals \in Seq(RentalRows) /\ rentals' \in Seq(RentalRows)
    BY DEF StockInv, RentalsInv, Types
<1>3. f.wants[i] \in Nat /\ item[i].quantity \in Nat
    <2>1. f \in [wants : [Items -> Nat], start : Nat, end : Nat]
        BY RentalsAssumption
    <2>2. QED BY <1>1, <2>1 DEF StockInv, ItemRows
<1>4. ASSUME NEW t \in Moments(f, item[i])
      PROVE  Out(i, t)' <= Out(i, t) /\ Out(i, t)' \in Nat /\ Out(i, t) \in Nat
    <2> DEFINE u == UnitsOf(rentals, item[i], i, t)
               v == UnitsOf(rentals', item[i], i, t)
    <2>1. Out(i, t) = SumFunctionOnSet(u, Rented) /\ Out(i, t)' = SumFunctionOnSet(v, Rented)
        BY <1>1 DEF Out, Units, Rented
    <2>2. /\ IsFiniteSet(Rented)
          /\ \A r \in Rented : /\ u[r] = IF Keeps(rentals[r], item[i], t) THEN rentals[r].wants[i] ELSE 0
                               /\ rentals[r].wants[i] \in Nat /\ u[r] \in Nat
          /\ SumFunctionOnSet(u, Rented) \in Nat
        BY <1>1, <1>2, UnitsOfAre DEF Rented
    <2>3. /\ \A r \in Rented : /\ v[r] = IF Keeps(rentals'[r], item[i], t) THEN rentals'[r].wants[i] ELSE 0
                               /\ v[r] \in Nat
          /\ SumFunctionOnSet(v, Rented) \in Nat
        BY <1>1, <1>2, UnitsOfAre DEF Rented
    <2>4. \A r \in Rented : Keeps(rentals'[r], item[i], t) => Keeps(rentals[r], item[i], t)
        BY DEF HoldsNoMore, Keeps
    <2>5. \A r \in Rented : rentals'[r].wants = rentals[r].wants
        BY DEF HoldsNoMore
    <2> HIDE DEF u, v
    <2>6. \A r \in Rented : v[r] \in Int /\ u[r] \in Int /\ v[r] <= u[r]
        BY <2>2, <2>3, <2>4, <2>5
    <2>7. SumFunctionOnSet(v, Rented) <= SumFunctionOnSet(u, Rented)
        BY <2>2, <2>6, SumOrder
    <2>8. QED BY <2>1, <2>2, <2>3, <2>7
<1>5. \A t \in Moments(f, item[i]) : Out(i, t)' + f.wants[i] <= item[i].quantity
    BY <1>1, <1>3, <1>4 DEF Left
<1>6. QED BY <1>1, <1>5 DEF Left

\* A new rental adds what it wants to what is out, at its moments and at no other.
LEMMA OutWithNew ==
    ASSUME RentalsInv, NEW x \in RentalRows, rentals' = Append(rentals, x), NEW i \in Items,
           item' = item, NEW t
    PROVE  Out(i, t)' = Out(i, t) + IF Keeps(x, item[i], t) THEN x.wants[i] ELSE 0
<1> DEFINE n == Len(rentals) + 1
           u == UnitsOf(rentals, item[i], i, t)
           v == UnitsOf(rentals', item[i], i, t)
           add == IF Keeps(x, item[i], t) THEN x.wants[i] ELSE 0
<1>1. rentals \in Seq(RentalRows) /\ rentals' \in Seq(RentalRows)
    BY DEF RentalsInv, Types
<1>2. /\ Rented' = Rented \cup {n} /\ n \notin Rented /\ rentals'[n] = x
      /\ \A r \in Rented : rentals'[r] = rentals[r]
    BY <1>1 DEF Rented
<1>3. IsFiniteSet(Rented) /\ \A r \in Rented : u[r] \in Nat
    BY <1>1, UnitsOfAre DEF Rented
<1>4. \A r \in Rented' : v[r] \in Nat
    BY <1>1, UnitsOfAre DEF Rented
<1>5. v[n] = add /\ \A r \in Rented : v[r] = u[r]
    BY <1>2 DEF UnitsOf, Rented
<1>6. Out(i, t) = SumFunctionOnSet(u, Rented) /\ Out(i, t)' = SumFunctionOnSet(v, Rented')
    BY DEF Out, Units, Rented
<1> HIDE DEF u, v, n, add
<1>7. SumFunctionOnSet(v, Rented \cup {n}) = SumFunctionOnSet(v, Rented) + v[n]
    BY <1>2, <1>3, <1>4, SumGrows
<1>8. SumFunctionOnSet(v, Rented) = SumFunctionOnSet(u, Rented)
    BY <1>2, <1>3, <1>4, <1>5, SumSame
<1>9. QED BY <1>2, <1>5, <1>6, <1>7, <1>8 DEF add

\* A rental of other items leaves enough.
LEMMA NewElsewhere ==
    ASSUME StockInv, NEW f \in Forms, Enough(f), NEW x \in RentalRows,
           rentals' = Append(rentals, x), item' = item, \A i \in Wanted(f) : x.wants[i] = 0
    PROVE  Enough(f)'
<1> SUFFICES ASSUME NEW i \in Wanted(f)
             PROVE  Left(f, i)'
    BY DEF Enough, Wanted
<1>1. i \in Items /\ Left(f, i)
    BY DEF Wanted, Enough
<1>2. \A t : Out(i, t)' = Out(i, t)
    <2> TAKE t
    <2>1. Out(i, t)' = Out(i, t) + IF Keeps(x, item[i], t) THEN x.wants[i] ELSE 0
        BY <1>1, OutWithNew DEF StockInv
    <2>2. Out(i, t) \in Nat
        BY <1>1, UnitsAre DEF StockInv
    <2>3. QED BY <2>1, <2>2
<1>3. QED BY <1>1, <1>2 DEF Left

-----------------------------------------------------------------------------
(* The steps.                                                               *)

\* What an order on its way looks like.
LEMMA OrderForm ==
    ASSUME RentalsInv, NEW c \in Customers
    PROVE  /\ order[c] # NoOrder => order[c].form \in Forms
           /\ order[c].at \in {"lock", "read", "create"} <=> order[c] # NoOrder
<1>1. order[c] \in Orders
    BY DEF RentalsInv, Types
<1>2. QED BY <1>1 DEF Orders, NoOrder

\* A checkout that a step leaves alone still fits, if there is still enough.
LEMMA SameOrder ==
    ASSUME NEW c \in Customers, OrderFits(c), order'[c] = order[c], Locked(c)' = Locked(c),
           order[c].at = "create" => Enough(order[c].form)'
    PROVE  OrderFits(c)'
    BY DEF OrderFits, Wanted

\* A step that changes neither rows nor locks, and makes no rental.
LEMMA RentalsMove ==
    ASSUME StockInv, RentalsInv', UNCHANGED <<item, order, lock>>,
           Rented' = Rented, \A r \in Rented : HoldsNoMore(rentals[r], rentals'[r])
    PROVE  StockInv'
<1>1. ASSUME NEW c \in Customers
      PROVE  OrderFits(c)'
    <2>1. OrderFits(c) /\ Locked(c)' = Locked(c) /\ order'[c] = order[c]
        BY DEF StockInv, Locked
    <2>2. ASSUME order[c].at = "create" PROVE Enough(order[c].form)'
        <3>1. order[c].form \in Forms /\ Enough(order[c].form)
            BY <2>1, <2>2, OrderForm DEF StockInv, OrderFits
        <3>2. QED BY <3>1, StaysEnough
    <2>3. QED BY <2>1, <2>2, SameOrder
<1>2. QED BY <1>1 DEF StockInv

LEMMA NoRentalMoves ==
    ASSUME rentals' = rentals
    PROVE  Rented' = Rented /\ \A r \in Rented : HoldsNoMore(rentals[r], rentals'[r])
    BY DEF Rented, HoldsNoMore

LEMMA NothingMoves ==
    ASSUME StockInv, RentalsInv', UNCHANGED <<item, order, lock, rentals>>
    PROVE  StockInv'
    BY NoRentalMoves, RentalsMove

LEMMA BookingKeeps ==
    ASSUME StockInv, RentalsInv', NEW r \in Rented,
           Accept(r) \/ Reject(r) \/ Cancel(r) \/ Complete(r) \/ RecordReturn(r)
    PROVE  StockInv'
<1>1. rentals \in Seq(RentalRows)
    BY DEF StockInv, RentalsInv, Types
<1>2. rentals[r] \in RentalRows
    BY <1>1 DEF Rented
<1>3. ASSUME NEW x, rentals' = [rentals EXCEPT ![r] = x], HoldsNoMore(rentals[r], x),
             UNCHANGED <<item, order, lock>>
      PROVE  StockInv'
    <2>1. Rented' = Rented /\ \A q \in Rented : rentals'[q] = IF q = r THEN x ELSE rentals[q]
        BY <1>1, <1>3 DEF Rented
    <2>2. \A q \in Rented : HoldsNoMore(rentals[q], rentals'[q])
        BY <1>3, <2>1 DEF HoldsNoMore
    <2>3. QED BY <1>3, <2>1, <2>2, RentalsMove
<1>4. ASSUME NEW from, NEW to, SetStatus(r, from, to), from \cap Gone = {} \/ to \in Gone
      PROVE  StockInv'
    <2>1. HoldsNoMore(rentals[r], [rentals[r] EXCEPT !.status = to])
        BY <1>2, <1>4 DEF HoldsNoMore, RentalRows, SetStatus, Gone
    <2>2. rentals' = [rentals EXCEPT ![r] = [rentals[r] EXCEPT !.status = to]]
        BY <1>4 DEF SetStatus
    <2>3. QED BY <1>3, <1>4, <2>1, <2>2 DEF SetStatus
<1>5. CASE Accept(r) \/ Reject(r) \/ Cancel(r) \/ Complete(r)
    BY <1>4, <1>5 DEF Accept, Reject, Cancel, Complete, Gone
<1>6. CASE RecordReturn(r)
    <2>1. HoldsNoMore(rentals[r], [rentals[r] EXCEPT !.res = "RETURNED"])
        BY <1>2 DEF HoldsNoMore, RentalRows
    <2>2. rentals' = [rentals EXCEPT ![r] = [rentals[r] EXCEPT !.res = "RETURNED"]]
        BY <1>6 DEF RecordReturn
    <2>3. QED BY <1>3, <1>6, <2>1, <2>2 DEF RecordReturn
<1>7. QED BY <1>5, <1>6

\* An item's row is only changed when no checkout holds it.
LEMMA ItemKeeps ==
    ASSUME StockInv, RentalsInv', NEW i \in Items, EditItem(i) \/ CountRentals(i) \/ RemoveItem(i)
    PROVE  StockInv'
<1>1. UNCHANGED <<rentals, order, lock>>
    BY DEF EditItem, CountRentals, RemoveItem
<1>2. item' \in [Items -> ItemRows]
    <2>1. item[i] \in ItemRows /\ item \in [Items -> ItemRows]
        BY DEF StockInv
    <2>2. CASE EditItem(i)
        <3>1. PICK s \in Stocks, live \in BOOLEAN :
                 item' = [item EXCEPT ![i] = [quantity |-> s.quantity, turnaround |-> s.turnaround, live |-> live]]
            BY <2>2 DEF EditItem
        <3>2. s.quantity \in Nat \ {0} /\ s.turnaround \in Nat
            BY RentalsAssumption
        <3>3. QED BY <2>1, <3>1, <3>2 DEF ItemRows
    <2>3. CASE RemoveItem(i)
        BY <2>1, <2>3 DEF RemoveItem, ItemRows
    <2>4. QED BY <2>1, <2>2, <2>3 DEF CountRentals
<1>3. \/ item' = item
      \/ lock[i] = Nobody /\ \A j \in Items \ {i} : item'[j] = item[j]
    BY DEF StockInv, EditItem, CountRentals, RemoveItem
<1>4. ASSUME NEW c \in Customers
      PROVE  OrderFits(c)'
    <2>1. OrderFits(c) /\ Locked(c)' = Locked(c) /\ order'[c] = order[c]
        BY <1>1 DEF StockInv, Locked
    <2>2. ASSUME order[c].at = "create" PROVE Enough(order[c].form)'
        <3>1. order[c].form \in Forms /\ Enough(order[c].form) /\ Locked(c) = Wanted(order[c].form)
            BY <2>1, <2>2, OrderForm DEF StockInv, OrderFits
        <3>2. \A j \in Wanted(order[c].form) : j \in Items /\ lock[j] = c /\ c # Nobody
            BY <3>1, RentalsAssumption DEF Locked
        <3>3. \A j \in Wanted(order[c].form) : item'[j] = item[j]
            BY <1>3, <3>2
        <3>4. QED BY <1>1, <3>1, <3>3, NoRentalMoves, StaysEnough
    <2>3. QED BY <2>1, <2>2, SameOrder
<1>5. QED BY <1>1, <1>2, <1>4 DEF StockInv

\* A step of one checkout, which leaves to the others the rows they hold and
\* enough of what they want.
LEMMA OneOrderMoves ==
    ASSUME StockInv, RentalsInv', item' = item, lock' \in [Items -> Customers \cup {Nobody}],
           NEW c \in Customers, OrderFits(c)',
           \A d \in Customers \ {c} : /\ order'[d] = order[d] /\ Locked(d)' = Locked(d)
                                      /\ order[d].at = "create" => Enough(order[d].form)'
    PROVE  StockInv'
<1>1. ASSUME NEW d \in Customers \ {c}
      PROVE  OrderFits(d)'
    BY SameOrder DEF StockInv
<1>2. QED BY <1>1 DEF StockInv

\* What a checkout found stays true while nobody's rows or rentals change.
LEMMA OthersKeep ==
    ASSUME StockInv, RentalsInv', UNCHANGED <<item, rentals>>, NEW d \in Customers,
           order[d].at = "create", order'[d] = order[d]
    PROVE  Enough(order[d].form)'
<1>1. PICK f \in Forms : f = order[d].form /\ f = order'[d].form /\ Enough(f)
    BY OrderForm DEF StockInv, OrderFits
<1>2. Enough(f)'
    BY <1>1, NoRentalMoves, StaysEnough
<1>3. QED BY <1>1, <1>2

\* The locks of a checkout that ends.
LEMMA LocksFreed ==
    ASSUME StockInv, NEW c \in Customers, Unlock(c)
    PROVE  /\ lock' \in [Items -> Customers \cup {Nobody}]
           /\ Locked(c)' = {} /\ \A d \in Customers \ {c} : Locked(d)' = Locked(d)
<1>1. lock \in [Items -> Customers \cup {Nobody}] /\ Nobody \notin Customers
    BY RentalsAssumption DEF StockInv
<1>2. \A i \in Items : lock'[i] = IF lock[i] = c THEN Nobody ELSE lock[i]
    BY DEF Unlock
<1>3. lock' \in [Items -> Customers \cup {Nobody}]
    BY <1>1 DEF Unlock
<1>4. Locked(c)' = {}
    BY <1>1, <1>2 DEF Locked
<1>5. \A d \in Customers \ {c} : Locked(d)' = Locked(d)
    BY <1>1, <1>2 DEF Locked
<1>6. QED BY <1>3, <1>4, <1>5

LEMMA CheckoutKeeps ==
    ASSUME StockInv, RentalsInv', NEW c \in Customers, Checkout(c) \/ LockRow(c)
    PROVE  StockInv'
<1>1. UNCHANGED <<item, rentals>> /\ order \in [Customers -> Orders]
    BY DEF Checkout, LockRow, StockInv, RentalsInv, Types
<1>2. lock \in [Items -> Customers \cup {Nobody}] /\ Nobody \notin Customers
    BY RentalsAssumption DEF StockInv
<1>3. CASE Checkout(c)
    <2>1. PICK f \in Forms : order' = [order EXCEPT ![c] = [at |-> "lock", form |-> f]]
        BY <1>3 DEF Checkout
    <2>2. order'[c].at = "lock" /\ \A d \in Customers \ {c} : order'[d] = order[d]
        BY <1>1, <2>1
    <2>3. lock' = lock /\ \A d \in Customers : Locked(d)' = Locked(d)
        BY <1>3 DEF Checkout, Locked
    <2>4. OrderFits(c)'
        BY <2>2 DEF OrderFits, NoOrder
    <2>5. QED BY <1>1, <1>2, <2>2, <2>3, <2>4, OthersKeep, OneOrderMoves
<1>4. CASE LockRow(c)
    <2> DEFINE f == order[c].form
    <2>1. PICK i \in Items : lock[i] = Nobody /\ lock' = [lock EXCEPT ![i] = c]
        BY <1>4 DEF LockRow, Free, Wanted
    <2>2. PICK at \in {"read", "lock"} :
             /\ at = "read" => Wanted(f) = {j \in Items : lock'[j] = c}
             /\ order' = [order EXCEPT ![c].at = at]
        BY <1>4 DEF LockRow
    <2>3. order[c] # NoOrder /\ order[c] \in Orders
        BY <1>1, <1>4 DEF LockRow, NoOrder
    <2>4. order'[c].at = at /\ order'[c].form = f /\ \A d \in Customers \ {c} : order'[d] = order[d]
        BY <1>1, <2>2, <2>3 DEF Orders
    <2>5. OrderFits(c)'
        BY <2>2, <2>4 DEF OrderFits, NoOrder, Locked, Wanted
    <2>6. \A d \in Customers \ {c} : Locked(d)' = Locked(d)
        BY <1>2, <2>1 DEF Locked
    <2>7. lock' \in [Items -> Customers \cup {Nobody}]
        BY <1>2, <2>1
    <2>8. QED BY <1>1, <2>4, <2>5, <2>6, <2>7, OthersKeep, OneOrderMoves
<1>5. QED BY <1>3, <1>4

LEMMA AnswerKeeps ==
    ASSUME StockInv, RentalsInv', NEW c \in Customers, CheckStock(c) \/ DeadlockVictim(c)
    PROVE  StockInv'
<1>1. UNCHANGED <<item, rentals>> /\ order \in [Customers -> Orders]
    BY DEF CheckStock, DeadlockVictim, Abandon, StockInv, RentalsInv, Types
<1>2. CASE Abandon(c)
    <2>1. order'[c] = NoOrder /\ \A d \in Customers \ {c} : order'[d] = order[d]
        BY <1>1, <1>2 DEF Abandon
    <2>2. Unlock(c)
        BY <1>2 DEF Abandon
    <2>3. OrderFits(c)'
        BY <2>1, <2>2, LocksFreed DEF OrderFits, NoOrder
    <2>4. QED BY <1>1, <2>1, <2>2, <2>3, LocksFreed, OthersKeep, OneOrderMoves
<1>3. CASE CheckStock(c) /\ ~Abandon(c)
    <2>0. PICK f : f = order[c].form
        OBVIOUS
    <2>1. /\ order[c].at = "read" /\ InStock(f) /\ order' = [order EXCEPT ![c].at = "create"]
          /\ lock' = lock
        BY <1>3, <2>0 DEF CheckStock
    <2>2. order[c] # NoOrder /\ f \in Forms /\ Locked(c) = Wanted(f)
        BY <2>0, <2>1, OrderForm DEF StockInv, OrderFits
    <2>3. Enough(f)'
        BY <1>1, <2>1, <2>2, StockChecked, StaysEnough, NoRentalMoves
    <2>4. /\ order'[c].at = "create" /\ order'[c].form = f
          /\ \A d \in Customers \ {c} : order'[d] = order[d]
        BY <1>1, <2>0, <2>1, <2>2 DEF Orders
    <2>5. \A d \in Customers : Locked(d)' = Locked(d)
        BY <2>1 DEF Locked
    <2>6. OrderFits(c)'
        BY <2>2, <2>3, <2>4, <2>5 DEF OrderFits, NoOrder, Wanted
    <2>7. lock' \in [Items -> Customers \cup {Nobody}]
        BY <2>1 DEF StockInv
    <2>8. QED BY <1>1, <2>4, <2>5, <2>6, <2>7, OthersKeep, OneOrderMoves
<1>4. QED BY <1>2, <1>3 DEF DeadlockVictim

\* A rental takes nothing from the checkouts of others: they hold other items.
LEMMA CreateKeeps ==
    ASSUME StockInv, RentalsInv', NEW c \in Customers, Create(c)
    PROVE  StockInv'
<1>1. item' = item /\ order \in [Customers -> Orders] /\ Unlock(c) /\ order' = [order EXCEPT ![c] = NoOrder]
    BY DEF Create, StockInv, RentalsInv, Types
<1>2. order'[c] = NoOrder /\ \A d \in Customers \ {c} : order'[d] = order[d]
    BY <1>1
<1>3. PICK x : NewRow(x, order[c].form) /\ rentals' = Append(rentals, x)
    BY NewRental DEF StockInv
<1>4. OrderFits(c)'
    BY <1>1, <1>2, LocksFreed DEF OrderFits, NoOrder
<1>5. Locked(c) = Wanted(order[c].form) /\ order[c].form \in Forms
    BY OrderForm DEF Create, StockInv, OrderFits
<1>6. ASSUME NEW d \in Customers \ {c}, order[d].at = "create"
      PROVE  Enough(order[d].form)'
    <2>1. PICK f \in Forms : f = order[d].form /\ Enough(f) /\ Locked(d) = Wanted(f)
        BY <1>6, OrderForm DEF StockInv, OrderFits
    <2>2. \A i \in Wanted(f) : i \in Items /\ i \notin Wanted(order[c].form)
        BY <1>5, <2>1 DEF Locked, Wanted
    <2>3. order[c].form \in [wants : [Items -> Nat], start : Nat, end : Nat]
        BY <1>5, RentalsAssumption
    <2>4. \A i \in Wanted(f) : x.wants[i] = 0
        BY <1>3, <2>2, <2>3 DEF NewRow, Wanted
    <2>5. Enough(f)'
        BY <1>1, <1>3, <2>1, <2>4, NewElsewhere DEF NewRow
    <2>6. QED BY <1>2, <2>1, <2>5
<1>7. QED BY <1>1, <1>2, <1>4, <1>6, LocksFreed, OneOrderMoves

LEMMA StockStep == ASSUME StockInv, [Next]_vars PROVE StockInv'
<1>1. RentalsInv'
    BY StepInv DEF StockInv
<1>2. ASSUME NEW c \in Customers, Checkout(c) \/ ContinueOrder(c) PROVE StockInv'
    BY <1>1, <1>2, CheckoutKeeps, AnswerKeeps, CreateKeeps DEF ContinueOrder
<1>3. ASSUME NEW r \in Rented, CheckReturn(r) PROVE StockInv'
    BY <1>1, <1>3, NothingMoves DEF CheckReturn
<1>4. CASE UNCHANGED vars
    BY <1>1, <1>4, NothingMoves DEF vars
<1>5. QED BY <1>1, <1>2, <1>3, <1>4, ItemKeeps, BookingKeeps DEF Next

LEMMA StockAtStart == ASSUME Init PROVE StockInv
<1>1. PICK s \in Stocks :
        item = [i \in Items |-> [quantity |-> s.quantity, turnaround |-> s.turnaround, live |-> TRUE]]
    BY DEF Init
<1>2. s.quantity \in Nat \ {0} /\ s.turnaround \in Nat
    BY RentalsAssumption
<1>3. item \in [Items -> ItemRows]
    BY <1>1, <1>2 DEF ItemRows
<1>4. lock \in [Items -> Customers \cup {Nobody}] /\ \A c \in Customers : order[c] = NoOrder /\ Locked(c) = {}
    BY RentalsAssumption DEF Init, Locked
<1>5. \A c \in Customers : OrderFits(c)
    BY <1>4 DEF OrderFits, NoOrder
<1>6. QED BY <1>3, <1>4, <1>5, InitInv DEF StockInv

\* What is out with a new rental, as the library adds it up.
LEMMA OutAtIs ==
    ASSUME RentalsInv', item' = item, NEW i \in Items, NEW t \in Int
    PROVE  OutAt(i, t, Holding) = Out(i, t)'
<1> DEFINE X == OutBy(i, t, Holding)
           u == UnitsOf(rentals', item[i], i, t)
           w == Wants(rentals', i, X)
<1>1. rentals' \in Seq(RentalRows)
    BY DEF RentalsInv, Types
<1>2. /\ IsFiniteSet(Rented')
      /\ \A r \in Rented' : /\ rentals'[r] \in RentalRows
                            /\ u[r] = IF Keeps(rentals'[r], item[i], t) THEN rentals'[r].wants[i] ELSE 0
                            /\ u[r] \in Nat
    BY <1>1, UnitsOfAre DEF Rented
<1>3. X \in SUBSET Rented' /\ \A r \in Rented' : r \in X <=> Keeps(rentals'[r], item[i], t)
    <2>1. Ticks \in Nat
        BY RentalsAssumption
    <2>2. X \in SUBSET Rented'
        BY DEF OutBy, Holding, Rented
    <2>3. ASSUME NEW r \in Rented'
          PROVE  r \in X <=> Keeps(rentals'[r], item[i], t)
        <3>1. PICK a \in Int : a = rentals'[r].start * Ticks
            BY <1>2, <2>1 DEF RentalRows
        <3>2. a < t + 1 <=> a <= t
            BY <3>1
        <3>3. r \in X <=> /\ rentals'[r].res = "ACTIVE" /\ rentals'[r].status \notin Gone
                          /\ a < t + 1 /\ (rentals'[r].end + 1) * Ticks + item[i].turnaround > t
            BY <3>1 DEF OutBy, Holding, Overlap, Gone, Rented
        <3>4. QED BY <3>1, <3>2, <3>3 DEF Keeps
    <2>4. QED BY <2>2, <2>3
<1>4. \A r \in X : w[r] = rentals'[r].wants[i]
    BY DEF Wants
<1>5. Out(i, t)' = SumFunctionOnSet(u, Rented')
    BY DEF Out, Units, Rented
<1>6. OutAt(i, t, Holding) = SumFunctionOnSet(w, X)
    BY OutIs
<1> HIDE DEF X, u, w
<1>7. \A r \in Rented' : u[r] \in Int /\ (r \notin X => u[r] = 0)
    BY <1>2, <1>3
<1>8. SumFunctionOnSet(u, Rented') = SumFunctionOnSet(u, X)
    BY <1>2, <1>3, <1>7, SumSupport
<1>9. \A r \in X : u[r] = w[r] /\ u[r] \in Int /\ w[r] \in Int
    BY <1>2, <1>3, <1>4
<1>10. IsFiniteSet(X)
    BY <1>2, <1>3, FS_Subset
<1>11. SumFunctionOnSet(w, X) = SumFunctionOnSet(u, X)
    BY <1>9, <1>10, SumSame
<1>12. QED BY <1>5, <1>6, <1>8, <1>11

\* A step that makes a rental finds its units in the stock, at every moment.
LEMMA BookedFits ==
    ASSUME StockInv, RentalsInv', NEW c \in Customers, Create(c),
           NEW r \in DOMAIN rentals' \ DOMAIN rentals, NEW i \in Wanted(rentals'[r])
    PROVE  /\ item[i].live
           /\ \A t \in Moments(rentals'[r], item[i]) : OutAt(i, t, Holding) <= item[i].quantity
<1>1. PICK f : f = order[c].form
    OBVIOUS
<1>2. f \in Forms /\ Enough(f) /\ item' = item
    BY <1>1, OrderForm DEF Create, StockInv, OrderFits
<1>3. PICK x : NewRow(x, f) /\ rentals' = Append(rentals, x)
    BY <1>1, NewRental DEF StockInv
<1>4. rentals'[r] = x
    BY <1>3 DEF StockInv, RentalsInv, Types
<1>5. i \in Items /\ i \in Wanted(f) /\ Left(f, i) /\ x.wants[i] = f.wants[i]
    BY <1>2, <1>3, <1>4 DEF NewRow, Wanted, Enough
<1>6. Moments(x, item[i]) = Moments(f, item[i])
    BY <1>3 DEF NewRow, Moments
<1>7. ASSUME NEW t \in Moments(f, item[i])
      PROVE  OutAt(i, t, Holding) <= item[i].quantity
    <2>1. x.start \in Nat /\ x.end \in Nat /\ Ticks \in Nat /\ item[i].turnaround \in Nat
        BY <1>3, <1>5, RentalsAssumption DEF NewRow, RentalRows, StockInv, ItemRows
    <2>2. t \in Int /\ x.start * Ticks <= t /\ t < (x.end + 1) * Ticks + item[i].turnaround
        <3>1. PICK a \in Int, b \in Int, n \in Int :
                 a = x.start * Ticks /\ b = (x.end + 1) * Ticks /\ n = item[i].turnaround
            BY <2>1
        <3>2. Moments(x, item[i]) = a .. (b + n - 1)
            BY <3>1 DEF Moments
        <3>3. t \in a .. (b + n - 1)
            BY <1>6, <3>2
        <3>4. t \in Int /\ a <= t /\ t < b + n
            BY <3>3
        <3>5. QED BY <3>1, <3>4
    <2>3. Keeps(x, item[i], t)
        BY <1>3, <2>2 DEF NewRow, Keeps, Gone
    <2>4. Out(i, t)' = Out(i, t) + f.wants[i]
        BY <1>2, <1>3, <1>5, <2>3, OutWithNew DEF StockInv, NewRow
    <2>5. OutAt(i, t, Holding) = Out(i, t)'
        BY <1>2, <1>5, <2>2, OutAtIs
    <2>6. QED BY <1>5, <2>4, <2>5 DEF Left
<1>8. QED BY <1>4, <1>5, <1>6, <1>7 DEF Left

\* Only a checkout makes rentals.
LEMMA OnlyCreateBooks ==
    ASSUME RentalsInv, [Next]_vars, ~\E c \in Customers : Create(c)
    PROVE  DOMAIN rentals' \subseteq DOMAIN rentals
<1>1. rentals \in Seq(RentalRows)
    BY DEF RentalsInv, Types
<1>2. ASSUME NEW c \in Customers, Checkout(c) \/ ContinueOrder(c) PROVE rentals' = rentals
    BY <1>2 DEF Checkout, ContinueOrder, LockRow, CheckStock, DeadlockVictim, Abandon
<1>3. ASSUME NEW i \in Items, EditItem(i) \/ CountRentals(i) \/ RemoveItem(i) PROVE rentals' = rentals
    BY <1>3 DEF EditItem, CountRentals, RemoveItem
<1>4. ASSUME NEW r \in Rented,
             Accept(r) \/ Reject(r) \/ Cancel(r) \/ Complete(r) \/ CheckReturn(r) \/ RecordReturn(r)
      PROVE  DOMAIN rentals' = DOMAIN rentals
    BY <1>1, <1>4 DEF Accept, Reject, Cancel, Complete, SetStatus, CheckReturn, RecordReturn, Rented
<1>5. QED BY <1>2, <1>3, <1>4 DEF Next, vars

-----------------------------------------------------------------------------
\* The rows of items, rentals and locks stay what the schema allows, whatever the
\* vendor and the customers do with them (modules/rentals).
THEOREM RentalsTyped == Spec => []TypeOK
<1>1. Init => StockInv
    BY StockAtStart
<1>2. StockInv /\ [Next]_vars => StockInv'
    BY StockStep
<1>3. StockInv => TypeOK
    <2> SUFFICES ASSUME StockInv PROVE TypeOK
        OBVIOUS
    <2>1. \A i \in Items : item[i].quantity \in Nat \ {0} /\ item[i].turnaround \in Nat
        BY DEF StockInv, ItemRows
    <2>2. ASSUME NEW r \in Rented
          PROVE  /\ rentals[r].status \in {"PENDING", "CONFIRMED", "COMPLETED", "REJECTED", "CANCELLED"}
                 /\ rentals[r].res \in {"ACTIVE", "RETURNED"}
                 /\ rentals[r].res = "RETURNED" => rentals[r].status \notin {"PENDING", "REJECTED"}
        <3>1. rentals[r] \in RentalRows /\ (rentals[r].res = "RETURNED" => Accepted(rentals[r]))
            BY DEF StockInv, RentalsInv, Types, Rented
        <3>2. QED BY <3>1 DEF RentalRows, Accepted
    <2>3. \A c \in Customers : order[c] = NoOrder => Locked(c) = {}
        BY DEF StockInv, OrderFits
    <2>4. QED BY <2>1, <2>2, <2>3 DEF TypeOK
<1>4. QED BY <1>1, <1>2, <1>3, PTL DEF Spec

\* A rental is only made when, with it, what is out of each of its items is within
\* the stock at every moment until its turnaround is over: for any items, orders,
\* stocks and length of a day, and whatever was checked out, edited, removed or
\* returned while its checkout ran (rental-availability.ts, rentals.service.ts book).
THEOREM StockKept == Spec => BookedWithinStock
<1>1. Init => StockInv
    BY StockAtStart
<1>2. StockInv /\ [Next]_vars => StockInv'
    BY StockStep
<1> DEFINE Booked ==
        \A r \in DOMAIN rentals' \ DOMAIN rentals :
          LET x == rentals'[r] IN
          \A i \in Wanted(x) :
             /\ item[i].live
             /\ \A t \in x.start * Ticks .. ((x.end + 1) * Ticks + item[i].turnaround - 1) :
                   OutAt(i, t, Holding) <= item[i].quantity
<1>3. StockInv /\ [Next]_vars => Booked
    <2> SUFFICES ASSUME StockInv, [Next]_vars,
                        NEW r \in DOMAIN rentals' \ DOMAIN rentals, NEW i \in Wanted(rentals'[r])
                 PROVE  /\ item[i].live
                        /\ \A t \in Moments(rentals'[r], item[i]) : OutAt(i, t, Holding) <= item[i].quantity
        BY DEF Moments
    <2>1. PICK c \in Customers : Create(c)
        BY OnlyCreateBooks DEF StockInv
    <2>2. RentalsInv'
        BY StepInv DEF StockInv
    <2>3. QED BY <2>1, <2>2, BookedFits
<1>4. Spec => [][Booked]_vars
    <2> HIDE DEF Booked
    <2>1. QED BY <1>1, <1>2, <1>3, PTL DEF Spec
<1>5. QED BY <1>4 DEF BookedWithinStock
=============================================================================
