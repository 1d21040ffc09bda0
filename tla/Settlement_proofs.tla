------------------------- MODULE Settlement_proofs -------------------------
(***************************************************************************)
(* The money of a booking for any plan, prices, fees, debts, bank disputes *)
(* and returned payments, and any number of servers that stop: its types,  *)
(* that no payment is paid out twice where a transfer that failed was not  *)
(* made (AnswersLost = FALSE), that the rows agree with Stripe, and that,  *)
(* where no server stops, a payout is right to the cent.                   *)
(***************************************************************************)
EXTENDS Settlement, Sums_proofs, SequenceTheorems, TLAPS

----------------------------------------------------------------------------
(* The invariant: the rows.                                                *)

\* The vendor's part of an installment as it was agreed.
Part(i) == Price[i] - Fee[i]

\* A refund stays within the payment, a row paid out is one of a completed booking
\* that was released, and only a card's payment is in dispute at the bank.
RowFits(i) ==
  /\ inst[i].refunded <= inst[i].amount
  /\ inst[i].amount - inst[i].fee <= Part(i)
  /\ inst[i].status \in {"SCHEDULED", "FAILED", "CLEARING"} => inst[i].refunded = 0
  /\ inst[i].status = "CLEARING" => i \in ByBank /\ inst[i].amount > 0
  /\ inst[i].out => /\ inst[i].status \in {"PAID", "REFUNDED"}
                    /\ booking.released /\ booking.status = "COMPLETED"

ChargeFits(i) ==
  /\ charge[i].back <= charge[i].taken
  /\ charge[i].bank # "none" => charge[i].taken > 0 /\ i \notin ByBank
  /\ charge[i].taken > 0 /\ i \notin ByBank =>
       inst[i].status \in {"PAID", "REFUNDED", "CANCELLED"}

BookFits ==
  /\ booking.released => booking.status = "COMPLETED" \/ booking.dispute = "refunded"
  /\ booking.commission <= booking.gross
  /\ booking.early >= 0 /\ (booking.early > 0 => Deposit # None)

----------------------------------------------------------------------------
(* The invariant: the job.                                                 *)

PartsOf(S) == SumFunction([i \in S |-> Part(i)])
Settled == booking.released /\ booking.status = "COMPLETED"
\* What of the deposit's part went back to the customer.
Shrunk == Part(Deposit) - Portion(inst[Deposit])

TodoFits ==
  /\ IsFiniteSet(job.todo)
  /\ \A v, w \in job.todo : v.i = w.i => v = w
  /\ job.left >= 0

\* What a payout has read still stands when it is claimed.
PayoutFits ==
  /\ job.at \in {"offset", "credit"} => job.op \in {"release", "late"}
  /\ job.at \in {"offset", "send", "credit", "unsend"} => job.share > 0
  /\ At("claim") /\ job.op \in {"release", "late"} =>
       /\ booking.status = "COMPLETED" /\ Visited \subseteq NotOut(EverPaid)
       /\ job.gross + (IF Deposit \in Visited THEN Shrunk ELSE 0) <= PartsOf(Visited)
       /\ IF job.op = "release"
          THEN ~ booking.released /\ job.share <= job.gross - booking.early
          ELSE booking.released /\ booking.dispute # "refunded" /\ job.share <= job.gross

EarlyFits ==
  job.op = "early" =>
    /\ ~ Settled /\ Deposit # None /\ job.at \in {"claim", "send", "record", "unsend"}
    /\ At("claim") => /\ inst[Deposit].status = "PAID" /\ booking.early = 0
                      /\ job.share = Portion(inst[Deposit]) /\ job.share > 0
    /\ job.at \in {"send", "unsend"} => booking.early = job.share

RefundFits ==
  /\ At("lower") => /\ job.op = "giveBack"
                    /\ \A v \in job.todo : v.was \in {"SCHEDULED", "FAILED"}
  /\ job.at \in {"parts", "refund", "recordRefund"} => job.op \in {"giveBack", "dispute"}
  /\ job.at \in {"refund", "recordRefund"} => \A v \in job.todo :
       IF v.was = "PAID" THEN inst[v.i].status = "PAID" ELSE job.op = "dispute"
  /\ At("recordRefund") => job.todo # {} /\ Current.was = "PAID" /\ Take > 0
  /\ At("resolve") => job.op = "dispute"
  /\ job.op = "dispute" /\ job.at \in {"parts", "refund", "recordRefund", "resolve"} =>
       DisputeOpen /\ ~ booking.released
  /\ At("over") => job.op = "dispute" /\ booking.dispute = "refunded"
  /\ At("forget") => job.op = "return" /\ job.i = Deposit
  /\ At("apply") => /\ job.op = "lost" /\ job.i \in Installments
                    /\ charge[job.i].bank = "lost"
  /\ At("unsend") => job.op = "early"

JobFits == TodoFits /\ PayoutFits /\ EarlyFits /\ RefundFits

RowsFit == \A i \in Installments : RowFits(i) /\ ChargeFits(i)
SettlementInv == TypeOK /\ sent \in Seq(Transfers) /\ RowsFit /\ BookFits /\ JobFits

----------------------------------------------------------------------------
(* The invariant: what the vendor has.                                     *)

\* What the job is still to pay.
ToCome ==
  CASE job.at = "offset" -> job.share
    [] job.at \in {"send", "credit"} /\ job.op # "early" -> ToPay
    [] job.at \in {"send", "unsend"} /\ job.op = "early" -> job.share
    [] OTHER -> 0
Gained == VendorHas + ToCome

\* How often an installment may have reached the vendor: once for each time it came
\* back (a return still to be dealt with aside), and once where it is out now.
Counted(i) == charge[i].returned
              - (IF inst[i].status = "PAID" /\ charge[i].taken = 0 THEN 1 ELSE 0)
              + (IF inst[i].out THEN 1 ELSE 0)
Covers == SumFunction([i \in Installments |-> Part(i) * Counted(i)])

\* A deposit collected and not marked paid out may have gone out early.
Ahead == Deposit # None /\ Deposit \in EverPaid /\ ~ inst[Deposit].out
Exposed == IF Ahead THEN Part(Deposit) ELSE 0
Slack == IF Ahead THEN Shrunk ELSE 0

\* The deposit is not in what the job works on, as read.
Apart ==
  \/ At("claim") /\ job.op = "release" /\ Deposit \notin Visited
  \/ /\ job.op = "dispute" /\ job.at \in {"refund", "recordRefund"}
     /\ \E v \in job.todo : v.i = Deposit /\ v.was # "PAID"
  \/ At("forget")

Bounded ==
  /\ Gained <= Covers + Exposed
  /\ ~ Settled => Gained <= Covers + booking.early + Slack
  /\ Settled /\ booking.dispute # "refunded" => Gained <= Covers + Slack
  /\ Apart => Gained <= Covers

----------------------------------------------------------------------------
(* Arithmetic and the model's operators.                                   *)

LEMMA RoundedIs ==
  ASSUME NEW n \in Nat, NEW d \in Nat \ {0}
  PROVE  Rounded(n, d) \in Nat
<1>1. 2 * n + d \in Nat /\ 2 * d \in Nat \ {0}
  OBVIOUS
<1> DEFINE a == 2 * n + d  b == 2 * d
<1>2. a \div b \in Nat
  <2> HIDE DEF a, b
  <2>1. a \in Nat /\ b \in Nat \ {0}
    BY <1>1 DEF a, b
  <2>2. QED BY <2>1
<1>3. QED BY <1>2 DEF Rounded

\* Of p, the part that c is of g is no more than p.
LEMMA RoundedWithin ==
  ASSUME NEW p \in Nat, NEW c \in Nat, NEW g \in Nat \ {0}, c <= g
  PROVE  Rounded(p * c, g) \in 0..p
<1>1. PICK n \in Nat : n = p * c
  OBVIOUS
<1>2. PICK m \in Nat : m = p * g
  OBVIOUS
<1>3. n <= m
  BY <1>1, <1>2
<1>4. Rounded(n, g) \in Nat
  BY RoundedIs
<1>5. Rounded(n, g) <= p
  <2> DEFINE a == 2 * n + g  b == 2 * g  q == a \div b
  <2>1. a \in Nat /\ b \in Nat \ {0}
    OBVIOUS
  <2>2. q \in Nat /\ b * q <= a
    <3> HIDE DEF a, b
    <3>1. QED BY <2>1
  <2>3. a < b * (p + 1)
    <3>1. b * (p + 1) = 2 * m + 2 * g
      BY <1>2
    <3>2. QED BY <1>3, <3>1
  <2>4. b * q < b * (p + 1)
    <3>1. b * q \in Int /\ b * (p + 1) \in Int
      BY <2>1, <2>2
    <3> HIDE DEF a, b, q
    <3>2. QED BY <2>1, <2>2, <2>3, <3>1
  <2>5. q < p + 1
    <3> HIDE DEF a, b, q
    <3>1. SUFFICES ASSUME p + 1 <= q PROVE FALSE
      BY <2>2
    <3>2. b * (p + 1) <= b * q
      BY <2>1, <2>2, <3>1
    <3>3. QED BY <2>1, <2>2, <2>4, <3>2
  <2>6. QED BY <2>2, <2>5 DEF Rounded
<1>6. QED BY <1>1, <1>4, <1>5

\* Vendly's commission on a part is none of it to all of it.
LEMMA AfterCommissionIs ==
  ASSUME BookFits, booking \in BookingRows, NEW part \in Nat
  PROVE  AfterCommission(part) \in 0..part
<1>1. booking.gross \in Nat /\ booking.commission \in Nat /\ booking.commission <= booking.gross
  BY DEF BookFits, BookingRows
<1>2. Percent \in Nat /\ Percent <= 100
  BY MoneyAssumption
<1>3. CommissionOn(part) \in 0..part
  <2>1. CASE booking.gross > 0
    <3>1. Rounded(part * booking.commission, booking.gross) \in 0..part
      BY <1>1, <2>1, RoundedWithin
    <3>2. QED BY <2>1, <3>1 DEF CommissionOn
  <2>2. CASE ~ (booking.gross > 0)
    <3>1. Rounded(part * Percent, 100) \in 0..part
      <4>1. 100 \in Nat \ {0}
        OBVIOUS
      <4>2. QED BY <1>2, <4>1, RoundedWithin
    <3>2. QED BY <2>2, <3>1 DEF CommissionOn
  <2>3. QED BY <2>1, <2>2
<1>4. QED BY <1>3 DEF AfterCommission

LEMMA PortionIs ==
  ASSUME NEW row \in Rows
  PROVE  /\ Portion(row) \in Nat
         /\ Portion(row) >= row.amount - row.fee - row.refunded
  BY DEF Portion, AtLeast0, Rows

LEMMA SumFunctionIs ==
  ASSUME NEW f PROVE SumFunction(f) = SumFunctionOnSet(f, DOMAIN f)
  BY DEF SumFunction

\* A sum over some of the installments.
LEMMA SumOverNat ==
  ASSUME NEW S \in SUBSET Installments, NEW f, DOMAIN f = S, \A i \in S : f[i] \in Nat
  PROVE  SumFunction(f) \in Nat
<1>1. IsFiniteSet(S)
  BY OrderAssumption, FS_Subset
<1>2. QED BY <1>1, SumNat, SumFunctionIs

\* The parts read, without what went back of the deposit, are the parts agreed at most.
LEMMA PortionsWithin ==
  ASSUME inst \in [Installments -> Rows], \A i \in Installments : RowFits(i),
         NEW S \in SUBSET Installments
  PROVE  /\ PortionOf(S) \in Nat /\ PartsOf(S) \in Nat
         /\ PortionOf(S) + (IF Deposit \in S THEN Shrunk ELSE 0) <= PartsOf(S)
<1> DEFINE f == [i \in S |-> Portion(inst[i])]
           g == [i \in S |-> Part(i)]
           h == [i \in S |-> IF i = Deposit THEN Part(i) ELSE Portion(inst[i])]
<1>1. \A i \in S : Portion(inst[i]) \in Nat /\ Part(i) \in Nat /\ Portion(inst[i]) <= Part(i)
  <2> SUFFICES ASSUME NEW i \in S
               PROVE  Portion(inst[i]) \in Nat /\ Part(i) \in Nat /\ Portion(inst[i]) <= Part(i)
    OBVIOUS
  <2>1. inst[i] \in Rows /\ RowFits(i) /\ Price[i] \in Nat /\ Fee[i] \in Nat /\ Fee[i] < Price[i]
    BY MoneyAssumption
  <2>2. QED BY <2>1 DEF Portion, AtLeast0, Rows, RowFits, Part
<1>2. IsFiniteSet(S)
  BY OrderAssumption, FS_Subset
<1>3. /\ \A i \in S : f[i] \in Int /\ g[i] \in Int /\ h[i] \in Int /\ h[i] <= g[i] /\ f[i] <= g[i]
      /\ DOMAIN f = S /\ DOMAIN g = S
  BY <1>1
<1>4. \A i \in S : f[i] \in Nat /\ g[i] \in Nat
  BY <1>1
<1>5. Deposit \in S => /\ \A i \in S \ {Deposit} : h[i] = f[i]
                       /\ h[Deposit] - f[Deposit] = Shrunk
  BY DEF Shrunk
<1>6. PortionOf(S) = SumFunctionOnSet(f, S) /\ PartsOf(S) = SumFunctionOnSet(g, S)
  BY SumFunctionIs DEF PortionOf, PartsOf
<1> HIDE DEF f, g, h
<1>7. SumFunctionOnSet(f, S) \in Nat /\ SumFunctionOnSet(g, S) \in Nat
  BY <1>2, <1>4, SumNat
<1>8. SumFunctionOnSet(f, S) <= SumFunctionOnSet(g, S) /\ SumFunctionOnSet(h, S) <= SumFunctionOnSet(g, S)
  BY <1>2, <1>3, SumOrder
<1>9. ASSUME Deposit \in S
      PROVE  SumFunctionOnSet(h, S) = SumFunctionOnSet(f, S) + Shrunk
  <2>1. SumFunctionOnSet(h, S) = SumFunctionOnSet(f, S) + h[Deposit] - f[Deposit]
    BY <1>2, <1>3, <1>5, <1>9, SumChanges
  <2>2. QED BY <1>3, <1>5, <1>7, <1>9, <2>1
<1>10. QED BY <1>6, <1>7, <1>8, <1>9

----------------------------------------------------------------------------
(* What a job reads, and which row it works on.                            *)

LEMMA ReadIs ==
  ASSUME inst \in [Installments -> Rows], NEW S \in SUBSET Installments
  PROVE  /\ Read(S) \in SUBSET Visits /\ IsFiniteSet(Read(S))
         /\ \A v, w \in Read(S) : v.i = w.i => v = w
         /\ \A v \in Read(S) : v.i \in S /\ v.was = inst[v.i].status
         /\ {v.i : v \in Read(S)} = S
<1> DEFINE f == [i \in S |-> [i |-> i, was |-> inst[i].status, out |-> inst[i].out]]
<1>1. f \in Surjection(S, Read(S))
  BY DEF Surjection, Read
<1>2. IsFiniteSet(S)
  BY OrderAssumption, FS_Subset
<1>3. IsFiniteSet(Read(S))
  <2> HIDE DEF f
  <2>1. QED BY <1>1, <1>2, FS_Surjection
<1>4. Read(S) \in SUBSET Visits
  BY DEF Read, Visits, Rows
<1>5. \A v \in Read(S) : v.i \in S /\ v = f[v.i]
  BY DEF Read
<1>6. \A i \in S : f[i] \in Read(S) /\ f[i].i = i
  BY DEF Read
<1>7. \A v \in Read(S) : v.was = inst[v.i].status
  BY DEF Read
<1>8. \A v, w \in Read(S) : v.i = w.i => v = w
  <2> HIDE DEF f
  <2>1. QED BY <1>5
<1>9. {v.i : v \in Read(S)} = S
  <2> HIDE DEF f
  <2>1. QED BY <1>5, <1>6
<1>10. QED BY <1>3, <1>4, <1>5, <1>7, <1>8, <1>9

\* There is a next one to visit as long as one is left.
LEMMA CurrentIs ==
  ASSUME job \in Jobs, IsFiniteSet(job.todo), job.todo # {}
  PROVE  Current \in job.todo
<1> DEFINE Held == {v \in job.todo : ~ v.out}
           Best == IF Held # {} THEN Held ELSE job.todo
           f == [v \in job.todo |-> Sequence[v.i]]
<1>1. \A v \in job.todo : v.i \in Installments /\ v.out \in BOOLEAN /\ Sequence[v.i] \in Nat
  BY OrderAssumption DEF Jobs, Visits
<1>2. Best # {} /\ Best \in SUBSET job.todo
  OBVIOUS
<1>3. \A v \in Best, w \in job.todo : v.out = w.out => w \in Best
  BY <1>1
<1>4. \A v \in Best, w \in job.todo : v.out # w.out => w.out
  BY <1>1
<1>5. \A v \in job.todo : f[v] \in Int /\ f[v] = Sequence[v.i]
  BY <1>1
<1> HIDE DEF Held, Best, f
<1>6. PICK v \in Best : \A w \in Best : f[w] <= f[v]
  <2>1. IsFiniteSet(Best) /\ \A w \in Best : f[w] \in Int
    BY <1>2, <1>5, FS_Subset
  <2>2. QED BY <1>2, <2>1, LargestExists
<1>7. \A w \in job.todo : Precedes(v, w)
  <2> SUFFICES ASSUME NEW w \in job.todo
               PROVE  Precedes(v, w)
    OBVIOUS
  <2>1. CASE v.out = w.out
    <3>1. w \in Best
      BY <1>3, <2>1
    <3>2. f[w] <= f[v] /\ f[v] \in Int /\ f[w] \in Int
      BY <1>2, <1>5, <1>6, <3>1
    <3>3. Sequence[v.i] >= Sequence[w.i]
      BY <1>2, <1>5, <3>2
    <3>4. QED BY <2>1, <3>3 DEF Precedes
  <2>2. CASE v.out # w.out
    <3>1. w.out
      BY <1>4, <2>2
    <3>2. QED BY <2>2, <3>1 DEF Precedes
  <2>3. QED BY <2>1, <2>2
<1>8. \E x \in job.todo : \A w \in job.todo : Precedes(x, w)
  BY <1>2, <1>7
<1>9. QED BY <1>8 DEF Current

LEMMA MaxIs ==
  ASSUME NEW S, IsFiniteSet(S), S # {}, S \subseteq Int
  PROVE  Max(S) \in S
<1> DEFINE f == [x \in S |-> x]
<1>1. \A x \in S : f[x] \in Int /\ f[x] = x
  OBVIOUS
<1> HIDE DEF f
<1>2. PICK x \in S : \A y \in S : f[y] <= f[x]
  BY <1>1, LargestExists
<1>3. \A y \in S : x >= y
  BY <1>1, <1>2
<1>4. QED BY <1>3 DEF Max

----------------------------------------------------------------------------
(* The transfers.                                                          *)

Nets(q) == [k \in DOMAIN q |-> q[k].amount - q[k].reversed]

LEMMA NetsAre ==
  ASSUME NEW q \in Seq(Transfers)
  PROVE  /\ DOMAIN q = 1..Len(q) /\ Len(q) \in Nat /\ IsFiniteSet(DOMAIN q)
         /\ \A k \in DOMAIN q : /\ q[k] \in Transfers /\ k \in Int
                                /\ Nets(q)[k] = q[k].amount - q[k].reversed
                                /\ Nets(q)[k] \in Int
         /\ SumFunction(Nets(q)) = SumFunctionOnSet(Nets(q), DOMAIN q)
         /\ SumFunction(Nets(q)) \in Int
<1>1. DOMAIN q = 1..Len(q) /\ Len(q) \in Nat
  BY LenProperties
<1>2. IsFiniteSet(1..Len(q))
  BY <1>1, FS_Interval
<1>3. \A k \in DOMAIN q : q[k] \in Transfers /\ k \in Int
  BY <1>1, ElementOfSeq
<1>4. \A k \in DOMAIN q : /\ Nets(q)[k] = q[k].amount - q[k].reversed
                          /\ Nets(q)[k] \in Int
  BY <1>3 DEF Nets, Transfers
<1>5. DOMAIN Nets(q) = DOMAIN q
  BY DEF Nets
<1>6. SumFunction(Nets(q)) = SumFunctionOnSet(Nets(q), DOMAIN q)
  BY <1>5, SumFunctionIs
<1>7. SumFunctionOnSet(Nets(q), DOMAIN q) \in Int
  BY <1>1, <1>2, <1>4, SumType
<1>8. QED BY <1>1, <1>2, <1>3, <1>4, <1>6, <1>7

\* A transfer more.
LEMMA NetsGrow ==
  ASSUME NEW q \in Seq(Transfers), NEW t \in Transfers
  PROVE  /\ Append(q, t) \in Seq(Transfers)
         /\ \A k \in DOMAIN Append(q, t) : \/ k \in DOMAIN q /\ Append(q, t)[k] = q[k]
                                           \/ Append(q, t)[k] = t
         /\ SumFunction(Nets(Append(q, t))) = SumFunction(Nets(q)) + t.amount - t.reversed
<1> DEFINE p == Append(q, t)
           n == Len(q) + 1
<1>1. /\ p \in Seq(Transfers) /\ Len(p) = n /\ p[n] = t
      /\ \A k \in 1..Len(q) : p[k] = q[k]
  BY AppendProperties
<1>2. Len(q) \in Nat /\ DOMAIN q = 1..Len(q) /\ IsFiniteSet(DOMAIN q)
  BY NetsAre
<1>3. DOMAIN p = 1..n
  BY <1>1, LenProperties
<1>4. DOMAIN p = DOMAIN q \cup {n} /\ n \notin DOMAIN q
  BY <1>2, <1>3
<1> HIDE DEF p, n
<1>5. \A k \in DOMAIN q : k \in DOMAIN p /\ p[k] = q[k]
  BY <1>1, <1>2, <1>4
<1>6. /\ \A k \in DOMAIN p : Nets(p)[k] \in Int /\ Nets(p)[k] = p[k].amount - p[k].reversed
      /\ SumFunction(Nets(p)) = SumFunctionOnSet(Nets(p), DOMAIN p)
  BY <1>1, NetsAre
<1>7. /\ \A k \in DOMAIN q : Nets(q)[k] \in Int /\ Nets(q)[k] = q[k].amount - q[k].reversed
      /\ SumFunction(Nets(q)) = SumFunctionOnSet(Nets(q), DOMAIN q)
  BY NetsAre
<1>8. \A k \in DOMAIN q : Nets(p)[k] \in Int /\ Nets(p)[k] = Nets(q)[k]
  BY <1>5, <1>6, <1>7
<1>9. n \in DOMAIN p /\ Nets(p)[n] = t.amount - t.reversed /\ Nets(p)[n] \in Int
  BY <1>1, <1>4, <1>6
<1>10. SumFunctionOnSet(Nets(p), DOMAIN q \cup {n})
         = SumFunctionOnSet(Nets(p), DOMAIN q) + Nets(p)[n]
  BY <1>2, <1>4, <1>8, <1>9, SumGrows
<1>11. SumFunctionOnSet(Nets(p), DOMAIN q) = SumFunctionOnSet(Nets(q), DOMAIN q)
  BY <1>2, <1>8, SumSame
<1>12. t.amount \in Int /\ t.reversed \in Int /\ SumFunctionOnSet(Nets(q), DOMAIN q) \in Int
  <2>1. SumFunction(Nets(q)) \in Int
    BY NetsAre
  <2>2. QED BY <1>7, <2>1 DEF Transfers
<1>13. SumFunction(Nets(p)) = SumFunction(Nets(q)) + t.amount - t.reversed
  BY <1>4, <1>6, <1>7, <1>9, <1>10, <1>11, <1>12
<1>14. QED BY <1>1, <1>4, <1>5, <1>13 DEF p

\* The same transfers, but for one.
Replaced(q, k, t) == [q EXCEPT ![k] = t]

LEMMA NetsMove ==
  ASSUME NEW q \in Seq(Transfers), NEW k \in DOMAIN q, NEW t \in Transfers,
         NEW p, p = Replaced(q, k, t)
  PROVE  /\ p \in Seq(Transfers) /\ DOMAIN p = DOMAIN q /\ p[k] = t
         /\ \A l \in DOMAIN q : l # k => p[l] = q[l]
         /\ SumFunction(Nets(p)) = SumFunction(Nets(q)) + (t.amount - t.reversed)
                                   - (q[k].amount - q[k].reversed)
<1>1. DOMAIN q = 1..Len(q) /\ IsFiniteSet(DOMAIN q)
  BY NetsAre
<1>2. p \in Seq(Transfers)
  BY <1>1, ExceptSeq DEF Replaced
<1>3. DOMAIN p = DOMAIN q /\ p[k] = t /\ \A l \in DOMAIN q : l # k => p[l] = q[l]
  BY DEF Replaced
<1>4. /\ \A l \in DOMAIN q : Nets(p)[l] \in Int /\ Nets(p)[l] = p[l].amount - p[l].reversed
      /\ SumFunction(Nets(p)) = SumFunctionOnSet(Nets(p), DOMAIN q)
  BY <1>2, <1>3, NetsAre
<1>5. /\ \A l \in DOMAIN q : Nets(q)[l] \in Int /\ Nets(q)[l] = q[l].amount - q[l].reversed
      /\ SumFunction(Nets(q)) = SumFunctionOnSet(Nets(q), DOMAIN q)
      /\ SumFunction(Nets(q)) \in Int
  BY NetsAre
<1>6. \A l \in DOMAIN q \ {k} : Nets(p)[l] = Nets(q)[l]
  BY <1>3, <1>4, <1>5
<1>7. SumFunctionOnSet(Nets(p), DOMAIN q)
        = SumFunctionOnSet(Nets(q), DOMAIN q) + Nets(p)[k] - Nets(q)[k]
  <2>1. \A l \in DOMAIN q : Nets(q)[l] \in Int /\ Nets(p)[l] \in Int
    BY <1>4, <1>5
  <2> DEFINE f == Nets(q)  g == Nets(p)  S == DOMAIN q
  <2>2. IsFiniteSet(S) /\ k \in S /\ (\A y \in S : f[y] \in Int /\ g[y] \in Int)
        /\ \A y \in S \ {k} : g[y] = f[y]
    BY <1>1, <1>6, <2>1
  <2> HIDE DEF f, g, S
  <2>3. SumFunctionOnSet(g, S) = SumFunctionOnSet(f, S) + g[k] - f[k]
    BY <2>2, SumChanges
  <2>4. QED BY <2>3 DEF f, g, S
<1>8. Nets(p)[k] = t.amount - t.reversed /\ Nets(q)[k] = q[k].amount - q[k].reversed
      /\ Nets(p)[k] \in Int /\ Nets(q)[k] \in Int
  BY <1>3, <1>4, <1>5
<1>9. SumFunction(Nets(p)) = SumFunction(Nets(q)) + (t.amount - t.reversed)
                                      - (q[k].amount - q[k].reversed)
  BY <1>4, <1>5, <1>7, <1>8
<1>10. QED BY <1>2, <1>3, <1>9

\* The same amounts.
LEMMA NetsStay ==
  ASSUME NEW q \in Seq(Transfers), NEW p, DOMAIN p = DOMAIN q,
         p = [k \in DOMAIN q |-> p[k]],
         \A k \in DOMAIN q : /\ p[k] \in Transfers /\ p[k].amount = q[k].amount
                             /\ p[k].reversed = q[k].reversed
  PROVE  p \in Seq(Transfers) /\ SumFunction(Nets(p)) = SumFunction(Nets(q))
<1>1. DOMAIN q = 1..Len(q) /\ Len(q) \in Nat
  BY NetsAre
<1>2. p \in [1..Len(q) -> Transfers]
  BY <1>1
<1>3. p \in Seq(Transfers)
  BY <1>1, <1>2, SeqDef
<1>4. Nets(p) = Nets(q)
  BY DEF Nets
<1>5. QED BY <1>3, <1>4

----------------------------------------------------------------------------
(* What a step leaves alone fits as before.                                *)

LEMMA IdleIs == Idle \in Jobs
  BY DEF Idle, Jobs, Ops, Places, Deeds

LEMMA IdleFits ==
  ASSUME job' = Idle
  PROVE  job' \in Jobs /\ JobFits'
<1>1. Idle \in Jobs
  BY IdleIs
<1>2. IsFiniteSet(Idle.todo)
  BY FS_EmptySet DEF Idle
<1>3. QED
  BY <1>1, <1>2 DEF JobFits, TodoFits, PayoutFits, EarlyFits, RefundFits, At, Idle

\* Only the job moves.
LEMMA JobMoves ==
  ASSUME SettlementInv, UNCHANGED <<booking, inst, charge, refunds, sent, vendor, report, crashes>>,
         job' \in Jobs, JobFits'
  PROVE  SettlementInv'
<1>1. TypeOK' /\ (sent \in Seq(Transfers))'
  BY DEF SettlementInv, TypeOK
<1>2. RowsFit' /\ BookFits'
  BY DEF SettlementInv, RowsFit, RowFits, ChargeFits, BookFits, EverPaid
<1>3. QED BY <1>1, <1>2 DEF SettlementInv

\* The job moves on, or is over.
LEMMA GotoIs ==
  ASSUME job \in Jobs, NEW p \in Places, Goto(p)
  PROVE  /\ job' \in Jobs /\ job'.at = p /\ job'.op = job.op /\ job'.i = job.i
         /\ job'.left = job.left /\ job'.todo = job.todo /\ job'.paidOut = job.paidOut
         /\ job'.gross = job.gross /\ job'.share = job.share /\ job'.owed = job.owed
         /\ job'.other = job.other /\ job'.deed = job.deed
  BY DEF Goto, Jobs

LEMMA TakeBackDoneInv ==
  ASSUME SettlementInv, TakeBackDone, UNCHANGED crashes
  PROVE  SettlementInv'
<1>1. CASE job.op \in {"dispute", "return"}
  <2>1. job \in Jobs /\ Goto("close") /\ "close" \in Places
    BY <1>1 DEF TakeBackDone, AfterTakeBack, SettlementInv, TypeOK, Places
  <2>2. JobFits'
    BY <2>1, GotoIs, <1>1 DEF SettlementInv, JobFits, TodoFits, PayoutFits, EarlyFits, RefundFits, At
  <2>3. QED BY <2>1, <2>2, GotoIs, JobMoves DEF TakeBackDone
<1>2. CASE job.op \notin {"dispute", "return"}
  BY <1>2, IdleFits, JobMoves DEF TakeBackDone, AfterTakeBack, Done
<1>3. QED BY <1>1, <1>2

LEMMA LoweringDoneInv ==
  ASSUME SettlementInv, LoweringDone, UNCHANGED crashes
  PROVE  SettlementInv'
<1>1. CASE job.left > 0
  <2>1. job \in Jobs /\ Goto("parts") /\ "parts" \in Places /\ At("lower")
    BY <1>1 DEF LoweringDone, SettlementInv, TypeOK, Places
  <2>2. JobFits'
    BY <2>1, GotoIs DEF SettlementInv, JobFits, TodoFits, PayoutFits, EarlyFits, RefundFits, At
  <2>3. QED BY <2>1, <2>2, GotoIs, JobMoves DEF LoweringDone
<1>2. CASE ~ (job.left > 0)
  BY <1>2, IdleFits, JobMoves DEF LoweringDone, Done
<1>3. QED BY <1>1, <1>2

LEMMA RefundsDoneInv ==
  ASSUME SettlementInv, RefundsDone, UNCHANGED crashes
  PROVE  SettlementInv'
<1>1. job \in Jobs /\ At("refund") /\ "recover" \in Places /\ "resolve" \in Places
  BY DEF RefundsDone, SettlementInv, TypeOK, Places
<1>2. PICK p \in Places : /\ Goto(p)
                          /\ p = IF job.op = "giveBack" THEN "recover" ELSE "resolve"
  BY <1>1 DEF RefundsDone
<1>3. JobFits'
  BY <1>1, <1>2, GotoIs DEF SettlementInv, JobFits, TodoFits, PayoutFits, EarlyFits, RefundFits, At,
       DisputeOpen, RefundsDone
<1>4. QED BY <1>1, <1>2, <1>3, GotoIs, JobMoves DEF RefundsDone

----------------------------------------------------------------------------
(* How a job begins.                                                       *)

Started(op, at, left, todo, gross, share, owed, deed) ==
  [op |-> op, at |-> at, i |-> None, left |-> left, todo |-> todo, paidOut |-> 0,
   gross |-> gross, share |-> share, owed |-> owed, other |-> FALSE, deed |-> deed]

LEMMA StartedIs ==
  ASSUME NEW op \in Ops, NEW at \in Places, NEW left \in Int, NEW todo \in SUBSET Visits,
         NEW gross \in Nat, NEW share \in Int, NEW owed \in Nat, NEW deed \in Deeds,
         job' = Started(op, at, left, todo, gross, share, owed, deed)
  PROVE  /\ job' \in Jobs /\ job'.op = op /\ job'.at = at /\ job'.left = left
         /\ job'.todo = todo /\ job'.gross = gross /\ job'.share = share
<1>1. Started(op, at, left, todo, gross, share, owed, deed) \in Jobs
  BY DEF Started, Jobs
<1>2. QED BY <1>1 DEF Started

LEMMA ReleaseBeginsInv ==
  ASSUME SettlementInv, ReleaseBegins, UNCHANGED crashes
  PROVE  SettlementInv'
<1> DEFINE S == NotOut(EverPaid)
<1>1. S \in SUBSET Installments /\ inst \in [Installments -> Rows] /\ booking \in BookingRows
      /\ vendor.balance \in Int /\ (\A i \in Installments : RowFits(i)) /\ booking.early >= 0
  BY DEF NotOut, EverPaid, SettlementInv, TypeOK, RowsFit, BookFits
<1>2. PICK gross : gross = PortionOf(S)
  OBVIOUS
<1>3. /\ gross \in Nat
      /\ gross + (IF Deposit \in S THEN Shrunk ELSE 0) <= PartsOf(S)
  BY <1>1, <1>2, PortionsWithin
<1>4. PICK todo \in SUBSET Visits : todo = Read(S)
  BY <1>1, ReadIs
<1>5. IsFiniteSet(todo) /\ (\A v, w \in todo : v.i = w.i => v = w) /\ {v.i : v \in todo} = S
  BY <1>1, <1>4, ReadIs
<1>6. PICK cut \in Nat : cut = Rounded(gross * Percent, 100)
  <2>1. gross * Percent \in Nat /\ 100 \in Nat \ {0}
    BY <1>3, MoneyAssumption
  <2>2. QED BY <2>1, RoundedIs
<1>7. PICK owed \in Nat : owed = Owed
  BY <1>1 DEF Owed, AtLeast0
<1>8. PICK share \in Int : share = gross - cut - booking.early
  BY <1>1, <1>3 DEF BookingRows
<1>9. job' = Started("release", "claim", 0, todo, gross, share, owed, "none")
  BY <1>2, <1>4, <1>6, <1>7, <1>8 DEF ReleaseBegins, Begin, Idle, Started
<1>10. /\ job' \in Jobs /\ job'.op = "release" /\ job'.at = "claim" /\ job'.left = 0
       /\ job'.todo = todo /\ job'.gross = gross /\ job'.share = share
  <2>1. "release" \in Ops /\ "claim" \in Places /\ "none" \in Deeds
    BY DEF Ops, Places, Deeds
  <2>2. 0 \in Int /\ todo \in SUBSET Visits /\ gross \in Nat /\ share \in Int /\ owed \in Nat
    BY <1>3
  <2> HIDE DEF S
  <2>3. QED BY <1>9, <2>1, <2>2, StartedIs
<1>11. Visited' = S
  BY <1>5, <1>10 DEF Visited
<1>12. /\ booking.status = "COMPLETED" /\ ~ booking.released
       /\ UNCHANGED <<booking, inst, charge, refunds, sent, vendor, report>>
  BY DEF ReleaseBegins
<1>13. job'.share <= job'.gross - booking.early
  BY <1>1, <1>3, <1>8, <1>10 DEF BookingRows
<1>14. NotOut(EverPaid)' = S /\ PartsOf(Visited)' = PartsOf(S) /\ Shrunk' = Shrunk
  BY <1>11, <1>12 DEF NotOut, EverPaid, PartsOf, Shrunk
<1> HIDE DEF S
<1>15. JobFits'
  <2>1. TodoFits' /\ EarlyFits' /\ RefundFits'
    BY <1>5, <1>10 DEF TodoFits, EarlyFits, RefundFits, At
  <2>2. PayoutFits'
    BY <1>3, <1>10, <1>11, <1>12, <1>13, <1>14 DEF PayoutFits, At
  <2>3. QED BY <2>1, <2>2 DEF JobFits
<1>16. QED BY <1>10, <1>12, <1>15, JobMoves

LEMMA LateBeginsInv ==
  ASSUME SettlementInv, LateBegins, UNCHANGED crashes
  PROVE  SettlementInv'
<1> DEFINE S == NotOut(Paid)
<1>1. S \in SUBSET Installments /\ inst \in [Installments -> Rows] /\ booking \in BookingRows
      /\ vendor.balance \in Int /\ (\A i \in Installments : RowFits(i)) /\ BookFits
      /\ S \subseteq NotOut(EverPaid)
  BY DEF NotOut, Paid, EverPaid, SettlementInv, TypeOK, RowsFit
<1>2. PICK gross : gross = PortionOf(S)
  OBVIOUS
<1>3. /\ gross \in Nat
      /\ gross + (IF Deposit \in S THEN Shrunk ELSE 0) <= PartsOf(S)
  BY <1>1, <1>2, PortionsWithin
<1>4. PICK todo \in SUBSET Visits : todo = Read(S)
  BY <1>1, ReadIs
<1>5. IsFiniteSet(todo) /\ (\A v, w \in todo : v.i = w.i => v = w) /\ {v.i : v \in todo} = S
  BY <1>1, <1>4, ReadIs
<1>6. PICK share \in 0..gross : share = AfterCommission(gross)
  BY <1>1, <1>3, AfterCommissionIs
<1>7. PICK owed \in Nat : owed = Owed
  BY <1>1 DEF Owed, AtLeast0
<1>8. job' = Started("late", "claim", 0, todo, gross, share, owed, "none")
  BY <1>2, <1>4, <1>6, <1>7 DEF LateBegins, Begin, Idle, Started
<1>9. share \in Int /\ share <= gross
  BY <1>3
<1>10. /\ job' \in Jobs /\ job'.op = "late" /\ job'.at = "claim" /\ job'.left = 0
       /\ job'.todo = todo /\ job'.gross = gross /\ job'.share = share
  <2>1. "late" \in Ops /\ "claim" \in Places /\ "none" \in Deeds
    BY DEF Ops, Places, Deeds
  <2>2. 0 \in Int /\ todo \in SUBSET Visits /\ gross \in Nat /\ share \in Int /\ owed \in Nat
    BY <1>3, <1>9
  <2> HIDE DEF S
  <2>3. QED BY <1>8, <2>1, <2>2, StartedIs
<1>11. Visited' = S
  BY <1>5, <1>10 DEF Visited
<1>12. /\ booking.status = "COMPLETED" /\ booking.released /\ booking.dispute # "refunded"
       /\ UNCHANGED <<booking, inst, charge, refunds, sent, vendor, report>>
  BY DEF LateBegins, Ended
<1>13. NotOut(EverPaid)' = NotOut(EverPaid) /\ PartsOf(Visited)' = PartsOf(S) /\ Shrunk' = Shrunk
  BY <1>11, <1>12 DEF NotOut, EverPaid, PartsOf, Shrunk
<1> HIDE DEF S
<1>14. JobFits'
  <2>1. TodoFits' /\ EarlyFits' /\ RefundFits'
    BY <1>5, <1>10 DEF TodoFits, EarlyFits, RefundFits, At
  <2>2. PayoutFits'
    BY <1>1, <1>3, <1>9, <1>10, <1>11, <1>12, <1>13 DEF PayoutFits, At
  <2>3. QED BY <2>1, <2>2 DEF JobFits
<1>15. QED BY <1>10, <1>12, <1>14, JobMoves

LEMMA EarlyBeginsInv ==
  ASSUME SettlementInv, EarlyBegins, UNCHANGED crashes
  PROVE  SettlementInv'
<1>1. Deposit \in Installments /\ inst \in [Installments -> Rows]
  BY KindsAssumption DEF SettlementInv, TypeOK, EarlyBegins
<1>2. PICK amount : /\ amount = inst[Deposit].amount - inst[Deposit].fee - inst[Deposit].refunded
                    /\ amount > 0
                    /\ job' = [Begin("early", "claim") EXCEPT !.share = amount]
  BY DEF EarlyBegins
<1>3. amount \in Int /\ amount = Portion(inst[Deposit])
  BY <1>1, <1>2 DEF Rows, Portion, AtLeast0
<1>4. job' = Started("early", "claim", 0, {}, 0, amount, 0, "none")
  BY <1>2 DEF Begin, Idle, Started
<1>5. {} \in SUBSET Visits
  OBVIOUS
<1>6. /\ job' \in Jobs /\ job'.op = "early" /\ job'.at = "claim" /\ job'.left = 0
      /\ job'.todo = {} /\ job'.share = amount
  <2>1. "early" \in Ops /\ "claim" \in Places /\ "none" \in Deeds /\ amount \in Int
        /\ 0 \in Int /\ 0 \in Nat
    BY <1>3 DEF Ops, Places, Deeds
  <2>2. QED BY <1>4, <1>5, <2>1, StartedIs
<1>7. /\ booking.status # "COMPLETED" /\ booking.early = 0 /\ inst[Deposit].status = "PAID"
      /\ Deposit # None
      /\ UNCHANGED <<booking, inst, charge, refunds, sent, vendor, report>>
  BY DEF EarlyBegins
<1>8. JobFits'
  <2>1. TodoFits'
    BY <1>6, FS_EmptySet DEF TodoFits
  <2>2. PayoutFits' /\ RefundFits'
    BY <1>2, <1>6 DEF PayoutFits, RefundFits, At
  <2>3. EarlyFits'
    BY <1>2, <1>3, <1>6, <1>7 DEF EarlyFits, At, Settled
  <2>4. QED BY <2>1, <2>2, <2>3 DEF JobFits
<1>9. QED BY <1>6, <1>7, <1>8, JobMoves

LEMMA GiveBackBeginsInv ==
  ASSUME SettlementInv, GiveBackBegins, UNCHANGED crashes
  PROVE  SettlementInv'
<1>1. Unpaid \in SUBSET Installments /\ inst \in [Installments -> Rows]
  BY DEF Unpaid, SettlementInv, TypeOK
<1>2. PICK todo \in SUBSET Visits : todo = Read(Unpaid)
  BY <1>1, ReadIs
<1>3. /\ IsFiniteSet(todo) /\ (\A v, w \in todo : v.i = w.i => v = w)
      /\ \A v \in todo : v.was \in {"SCHEDULED", "FAILED"}
  <2>1. \A v \in todo : v.i \in Unpaid /\ v.was = inst[v.i].status
    BY <1>1, <1>2, ReadIs
  <2>2. QED BY <1>1, <1>2, <2>1, ReadIs DEF Unpaid
<1>4. PICK amount \in Amounts :
        job' = Started("giveBack", "lower", amount, todo, 0, 0, 0, "none")
  BY <1>2 DEF GiveBackBegins, Begin, Idle, Started
<1>5. amount \in Nat
  BY MoneyAssumption
<1>6. amount \in Int
  BY <1>5
<1>7. /\ job' \in Jobs /\ job'.op = "giveBack" /\ job'.at = "lower" /\ job'.todo = todo
      /\ job'.left = amount
  <2>1. "giveBack" \in Ops /\ "lower" \in Places /\ "none" \in Deeds /\ 0 \in Nat
    BY DEF Ops, Places, Deeds
  <2>2. QED BY <1>4, <1>6, <2>1, StartedIs
<1>8. JobFits'
  BY <1>3, <1>5, <1>7 DEF JobFits, TodoFits, PayoutFits, EarlyFits, RefundFits, At
<1>9. QED BY <1>7, <1>8, JobMoves DEF GiveBackBegins

LEMMA DisputeBeginsInv ==
  ASSUME SettlementInv, DisputeBegins, UNCHANGED crashes
  PROVE  SettlementInv'
<1>1. PICK sum \in Nat : sum = SumFunction([i \in Paid |-> Kept(i)])
  <2> DEFINE f == [i \in Paid |-> Kept(i)]
  <2>1. \A i \in Paid : f[i] \in Nat
    BY DEF Paid, SettlementInv, TypeOK, RowsFit, RowFits, Kept, Rows
  <2>2. Paid \in SUBSET Installments /\ DOMAIN f = Paid
    BY DEF Paid
  <2> HIDE DEF f
  <2>3. SumFunction(f) \in Nat
    BY <2>1, <2>2, SumOverNat
  <2>4. QED BY <2>3 DEF f
<1>2. PICK left \in Nat, deed \in Deeds, p \in {"parts", "resolve"} :
        job' = Started("dispute", p, left, {}, 0, 0, 0, deed)
  <2>1. \A x \in Amounts : x \in Nat
    BY MoneyAssumption
  <2>2. CASE job' = [[Begin("dispute", "parts") EXCEPT !.deed = "refund"] EXCEPT !.left = sum]
    <3>1. job' = Started("dispute", "parts", sum, {}, 0, 0, 0, "refund")
      BY <2>2 DEF Begin, Idle, Started
    <3>2. QED BY <3>1 DEF Deeds
  <2>3. CASE \E amount \in Amounts :
               job' = [[Begin("dispute", "parts") EXCEPT !.deed = "refund"]
                         EXCEPT !.left = amount, !.deed = "partial"]
    <3>1. PICK amount \in Amounts : job' = Started("dispute", "parts", amount, {}, 0, 0, 0, "partial")
      BY <2>3 DEF Begin, Idle, Started
    <3>2. QED BY <2>1, <3>1 DEF Deeds
  <2>4. CASE job' = [[Begin("dispute", "parts") EXCEPT !.deed = "refund"]
                        EXCEPT !.at = "resolve", !.deed = "release"]
    <3>1. job' = Started("dispute", "resolve", 0, {}, 0, 0, 0, "release")
      BY <2>4 DEF Begin, Idle, Started
    <3>2. QED BY <3>1 DEF Deeds
  <2>5. QED BY <1>1, <2>2, <2>3, <2>4 DEF DisputeBegins
<1>3. left \in Int /\ {} \in SUBSET Visits /\ p \in Places
  BY DEF Places
<1>4. /\ job' \in Jobs /\ job'.op = "dispute" /\ job'.at = p /\ job'.left = left
      /\ job'.todo = {}
  BY <1>2, <1>3, StartedIs DEF Ops
<1>5. DisputeOpen /\ ~ booking.released /\ UNCHANGED booking
  BY DEF DisputeBegins
<1>6. JobFits'
  <2>1. TodoFits'
    BY <1>4, FS_EmptySet DEF TodoFits
  <2>2. PayoutFits' /\ EarlyFits'
    BY <1>4 DEF PayoutFits, EarlyFits, At
  <2>3. RefundFits'
    BY <1>4, <1>5 DEF RefundFits, At, DisputeOpen
  <2>4. QED BY <2>1, <2>2, <2>3 DEF JobFits
<1>7. QED BY <1>4, <1>6, JobMoves DEF DisputeBegins

----------------------------------------------------------------------------
(* The payout.                                                             *)

\* What is known where an action is taken.
LEMMA Known0 ==
  ASSUME SettlementInv
  PROVE  /\ TypeOK /\ sent \in Seq(Transfers) /\ RowsFit /\ BookFits /\ JobFits
         /\ booking \in BookingRows /\ inst \in [Installments -> Rows]
         /\ charge \in [Installments -> Charges] /\ job \in Jobs
         /\ vendor \in [balance : Int, opened : Balances, withdrawn : Nat, connected : BOOLEAN]
         /\ TodoFits /\ PayoutFits /\ EarlyFits /\ RefundFits
         /\ job.left \in Int /\ job.left >= 0 /\ IsFiniteSet(job.todo)
  BY DEF SettlementInv, TypeOK, JobFits, TodoFits, Jobs

LEMMA AfterClaimIs ==
  ASSUME SettlementInv, AfterClaim, At("claim"), job.op \in {"release", "late"}
  PROVE  job' \in Jobs /\ JobFits'
<1>1. job \in Jobs /\ TodoFits /\ job.share \in Int
  BY Known0 DEF Jobs
<1>2. CASE job.share < 0
  <2>1. PICK n \in Int : n = - job.share /\ n >= 0
    BY <1>1, <1>2
  <2>2. job' = [job EXCEPT !.at = "owe", !.left = n]
    BY <1>1, <1>2, <2>1 DEF AfterClaim
  <2>3. job' \in Jobs /\ job'.at = "owe" /\ job'.op = job.op /\ job'.todo = job.todo /\ job'.left = n
    BY <1>1, <2>1, <2>2 DEF Jobs, Places
  <2>4. JobFits'
    BY <1>1, <2>1, <2>3 DEF JobFits, TodoFits, PayoutFits, EarlyFits, RefundFits, At
  <2>5. QED BY <2>3, <2>4
<1>3. CASE job.share = 0
  <2>1. job' = Idle
    BY <1>1, <1>3 DEF AfterClaim, Done
  <2>2. QED BY <2>1, IdleFits
<1>4. CASE job.share > 0
  <2>1. PICK p \in {"offset", "send"} : Goto(p)
    BY <1>1, <1>4 DEF AfterClaim
  <2>2. p \in Places
    BY DEF Places
  <2>3. JobFits'
    BY <1>1, <1>4, <2>1, <2>2, GotoIs
       DEF JobFits, TodoFits, PayoutFits, EarlyFits, RefundFits, At
  <2>4. QED BY <1>1, <2>1, <2>2, <2>3, GotoIs
<1>5. QED BY <1>1, <1>2, <1>3, <1>4

LEMMA MarkOutIs ==
  ASSUME inst \in [Installments -> Rows], MarkOut
  PROVE  /\ inst' \in [Installments -> Rows]
         /\ \A i \in Installments :
              /\ inst'[i].status = inst[i].status /\ inst'[i].amount = inst[i].amount
              /\ inst'[i].fee = inst[i].fee /\ inst'[i].refunded = inst[i].refunded
              /\ i \in Visited => inst'[i].out
              /\ i \notin Visited => inst'[i].out = inst[i].out
  BY DEF MarkOut, Rows

LEMMA ClaimReleaseInv ==
  ASSUME SettlementInv, ClaimRelease, UNCHANGED crashes
  PROVE  SettlementInv'
<1>1. At("claim") /\ job.op = "release" /\ job.gross \in Nat
      /\ UNCHANGED <<charge, refunds, sent, vendor, report, crashes>>
  BY Known0 DEF ClaimRelease, Jobs
<1>2. PICK cut \in 0..job.gross : cut = Rounded(job.gross * Percent, 100)
  <2>1. 100 \in Nat \ {0} /\ Percent \in Nat /\ Percent <= 100
    BY MoneyAssumption
  <2>2. QED BY <1>1, <2>1, RoundedWithin
<1>3. booking' = [booking EXCEPT !.released = TRUE, !.gross = job.gross, !.commission = cut]
  BY <1>2 DEF ClaimRelease
<1>4. /\ booking' \in BookingRows /\ booking'.released /\ booking'.status = booking.status
      /\ booking'.early = booking.early /\ booking'.dispute = booking.dispute
      /\ booking'.gross = job.gross /\ booking'.commission = cut
  <2>1. booking \in BookingRows /\ job.gross \in Nat /\ cut \in Nat
    BY <1>1, <1>2, Known0
  <2>2. booking' \in BookingRows
    BY <1>3, <2>1 DEF BookingRows
  <2>3. QED BY <1>3, <2>1 DEF BookingRows
<1>5. booking.status = "COMPLETED" /\ Visited \subseteq NotOut(EverPaid)
  BY <1>1, Known0 DEF PayoutFits
<1>6. BookFits'
  BY <1>1, <1>2, <1>4, <1>5, Known0 DEF BookFits
<1>7. MarkOut /\ AfterClaim
  BY DEF ClaimRelease
<1>8. RowsFit'
  <2> SUFFICES ASSUME NEW i \in Installments
               PROVE  RowFits(i)' /\ ChargeFits(i)'
    BY DEF RowsFit
  <2>1. RowFits(i) /\ ChargeFits(i)
    BY Known0 DEF RowsFit
  <2>2. i \in Visited => inst[i].status \in {"PAID", "REFUNDED"}
    BY <1>5 DEF NotOut, EverPaid
  <2>3. QED BY <1>1, <1>4, <1>5, <1>7, <2>1, <2>2, Known0, MarkOutIs DEF RowFits, ChargeFits
<1>9. job' \in Jobs /\ JobFits'
  BY <1>1, <1>7, AfterClaimIs
<1>10. TypeOK' /\ (sent \in Seq(Transfers))'
  BY <1>1, <1>4, <1>7, <1>9, Known0, MarkOutIs DEF TypeOK
<1>11. QED BY <1>6, <1>8, <1>9, <1>10 DEF SettlementInv

LEMMA ClaimLateInv ==
  ASSUME SettlementInv, ClaimLate, UNCHANGED crashes
  PROVE  SettlementInv'
<1>1. At("claim") /\ job.op = "late" /\ MarkOut /\ AfterClaim
      /\ UNCHANGED <<booking, charge, refunds, sent, vendor, report, crashes>>
  BY DEF ClaimLate
<1>2. booking.status = "COMPLETED" /\ booking.released /\ Visited \subseteq NotOut(EverPaid)
  BY <1>1, Known0 DEF PayoutFits
<1>3. RowsFit'
  <2> SUFFICES ASSUME NEW i \in Installments
               PROVE  RowFits(i)' /\ ChargeFits(i)'
    BY DEF RowsFit
  <2>1. RowFits(i) /\ ChargeFits(i)
    BY Known0 DEF RowsFit
  <2>2. i \in Visited => inst[i].status \in {"PAID", "REFUNDED"}
    BY <1>2 DEF NotOut, EverPaid
  <2>3. QED BY <1>1, <1>2, <2>1, <2>2, Known0, MarkOutIs DEF RowFits, ChargeFits
<1>4. job' \in Jobs /\ JobFits'
  BY <1>1, AfterClaimIs
<1>5. TypeOK' /\ (sent \in Seq(Transfers))' /\ BookFits'
  BY <1>1, <1>4, Known0, MarkOutIs DEF TypeOK, BookFits
<1>6. QED BY <1>3, <1>4, <1>5 DEF SettlementInv

\* Only the balance and the job move.
LEMMA BalanceMoves ==
  ASSUME SettlementInv, UNCHANGED <<booking, inst, charge, refunds, sent, report, crashes>>,
         NEW amount \in Int, Credit(amount), job' \in Jobs, JobFits'
  PROVE  SettlementInv' /\ vendor' = [vendor EXCEPT !.balance = @ + amount]
<1>1. vendor' = [vendor EXCEPT !.balance = @ + amount]
  BY DEF Credit
<1>2. TypeOK' /\ (sent \in Seq(Transfers))'
  BY <1>1, Known0 DEF TypeOK
<1>3. RowsFit' /\ BookFits'
  BY Known0 DEF RowsFit, RowFits, ChargeFits, BookFits
<1>4. QED BY <1>1, <1>2, <1>3 DEF SettlementInv

LEMMA OffsetIs ==
  ASSUME SettlementInv, job.share > 0
  PROVE  Offset \in Int /\ Offset >= 0 /\ Offset <= job.share /\ ToPay \in Int
         /\ ToPay >= 0 /\ ToPay = job.share - Offset
<1>1. job.owed \in Nat /\ job.share \in Int
  BY Known0 DEF Jobs
<1>2. QED BY <1>1 DEF Offset, Smaller, ToPay

LEMMA OffsetDebtInv ==
  ASSUME SettlementInv, OffsetDebt, UNCHANGED crashes
  PROVE  SettlementInv'
<1>1. At("offset") /\ job.share > 0 /\ job.op \in {"release", "late"}
      /\ UNCHANGED <<booking, inst, charge, refunds, sent, report, crashes>>
  BY Known0 DEF OffsetDebt, PayoutFits, At
<1>2. Offset \in Int /\ Credit(Offset)
  BY <1>1, OffsetIs DEF OffsetDebt
<1>3. job' \in Jobs /\ JobFits'
  <2>1. CASE job.share > Offset
    <3>1. Goto("send") /\ "send" \in Places
      BY <2>1 DEF OffsetDebt, Places
    <3>2. JobFits'
      BY <1>1, <3>1, Known0, GotoIs DEF JobFits, TodoFits, PayoutFits, EarlyFits, RefundFits, At
    <3>3. QED BY <3>1, <3>2, Known0, GotoIs
  <2>2. CASE ~ (job.share > Offset)
    <3>1. job' = Idle
      BY <2>2 DEF OffsetDebt, Done
    <3>2. QED BY <3>1, IdleFits
  <2>3. QED BY <2>1, <2>2
<1>4. QED BY <1>1, <1>2, <1>3, BalanceMoves

LEMMA CreditBalanceInv ==
  ASSUME SettlementInv, CreditBalance, UNCHANGED crashes
  PROVE  SettlementInv'
<1>1. At("credit") /\ job.share > 0
      /\ UNCHANGED <<booking, inst, charge, refunds, sent, report, crashes>>
  BY Known0 DEF CreditBalance, PayoutFits, At
<1>2. ToPay \in Int /\ Credit(ToPay) /\ job' = Idle
  BY <1>1, OffsetIs DEF CreditBalance, Done
<1>3. QED BY <1>1, <1>2, IdleFits, BalanceMoves

SentFits == sent \in Seq(Transfers) /\ \A k \in DOMAIN sent : sent[k].reversed <= sent[k].amount

LEMMA SentKnown == ASSUME SettlementInv PROVE SentFits
  BY DEF SettlementInv, TypeOK, SentFits

\* Only the transfers and the job move.
LEMMA SentMoves ==
  ASSUME SettlementInv, UNCHANGED <<booking, inst, charge, refunds, vendor, report, crashes>>,
         SentFits', job' \in Jobs, JobFits'
  PROVE  SettlementInv'
<1>1. sent' \in Seq(Transfers) /\ \A k \in DOMAIN sent' : sent'[k].reversed <= sent'[k].amount
  BY DEF SentFits
<1>2. \A k \in DOMAIN sent' : sent'[k] \in Transfers
  BY <1>1, NetsAre
<1>3. TypeOK'
  BY <1>1, <1>2, Known0 DEF TypeOK
<1>4. RowsFit' /\ BookFits'
  BY Known0 DEF RowsFit, RowFits, ChargeFits, BookFits
<1>5. QED BY <1>1, <1>3, <1>4 DEF SettlementInv

\* A transfer made, known or refused.
LEMMA TransferIs ==
  ASSUME SettlementInv, NEW key \in Keys, NEW amount \in Nat, NEW made \in Places,
         NEW failed \in Places, Transfer(key, amount, made, failed)
  PROVE  /\ SentFits'
         /\ \/ /\ SumFunction(Nets(sent)) + amount = SumFunction(Nets(sent'))
               /\ Goto(made) \/ (AnswersLost /\ Goto(failed))
            \/ UNCHANGED sent /\ (Goto(made) \/ Goto(failed))
<1>1. SentFits
  BY SentKnown
<1>2. CASE UNCHANGED sent /\ (Goto(made) \/ Goto(failed))
  BY <1>1, <1>2 DEF SentFits
<1> DEFINE t == [key |-> key, amount |-> amount, reversed |-> 0, row |-> FALSE, fresh |-> TRUE]
<1>3. CASE sent' = Append(sent, t) /\ \E answered \in {TRUE, ~ AnswersLost} :
                                         Goto(IF answered THEN made ELSE failed)
  <2>1. t \in Transfers /\ t.amount = amount /\ t.reversed = 0
    BY DEF Transfers
  <2>2. sent \in Seq(Transfers) /\ sent' = Append(sent, t)
    BY <1>1, <1>3 DEF SentFits
  <2> HIDE DEF t
  <2>3. /\ sent' \in Seq(Transfers)
        /\ \A k \in DOMAIN sent' : (k \in DOMAIN sent /\ sent'[k] = sent[k]) \/ sent'[k] = t
        /\ SumFunction(Nets(sent')) = SumFunction(Nets(sent)) + t.amount - t.reversed
    BY <2>1, <2>2, NetsGrow
  <2>4. SentFits'
    BY <1>1, <2>1, <2>3 DEF SentFits
  <2>5. SumFunction(Nets(sent)) \in Int
    BY <2>2, NetsAre
  <2>6. AnswersLost \in BOOLEAN
    BY KindsAssumption
  <2>7. Goto(made) \/ (AnswersLost /\ Goto(failed))
    BY <1>3, <2>6
  <2>8. QED BY <2>1, <2>3, <2>4, <2>5, <2>7
<1>4. QED BY <1>2, <1>3 DEF Transfer

LEMMA KeyIs ==
  ASSUME SettlementInv, job.op \in {"release", "late", "early"}
  PROVE  Key \in Keys
<1>1. job.todo \in SUBSET Visits
  BY Known0 DEF Jobs
<1>2. Visited \in SUBSET Installments
  BY <1>1 DEF Visited, Visits
<1>3. QED BY <1>2 DEF Key, Keys

LEMMA SendPayoutInv ==
  ASSUME SettlementInv, SendPayout, UNCHANGED crashes
  PROVE  SettlementInv'
<1>1. At("send") /\ job.share > 0 /\ job.op \in {"release", "late"} /\ "record" \in Places
      /\ "credit" \in Places
      /\ UNCHANGED <<booking, inst, charge, refunds, vendor, report, crashes>>
  BY Known0 DEF SendPayout, PayoutFits, At, Places
<1>2. SentFits' /\ \E p \in {"record", "credit"} : Goto(p)
  <2>1. CASE vendor.connected
    <3>1. Transfer(Key, ToPay, "record", "credit")
      BY <2>1 DEF SendPayout
    <3>2. Key \in Keys /\ ToPay \in Nat
      BY <1>1, KeyIs, OffsetIs
    <3>3. QED BY <1>1, <3>1, <3>2, TransferIs
  <2>2. CASE ~ vendor.connected
    BY <2>2, SentKnown DEF SendPayout, SentFits
  <2>3. QED BY <2>1, <2>2
<1>3. PICK p \in {"record", "credit"} : Goto(p)
  BY <1>2
<1>4. p \in Places
  BY DEF Places
<1>5. JobFits'
  BY <1>1, <1>3, <1>4, Known0, GotoIs DEF JobFits, TodoFits, PayoutFits, EarlyFits, RefundFits, At
<1>6. QED BY <1>1, <1>2, <1>3, <1>4, <1>5, Known0, GotoIs, SentMoves

LEMMA SendEarlyInv ==
  ASSUME SettlementInv, SendEarly, UNCHANGED crashes
  PROVE  SettlementInv'
<1>1. At("send") /\ job.op = "early" /\ job.share > 0 /\ "record" \in Places
      /\ "unsend" \in Places /\ Transfer(Key, job.share, "record", "unsend")
      /\ UNCHANGED <<booking, inst, charge, refunds, vendor, report, crashes>>
  BY Known0 DEF SendEarly, PayoutFits, At, Places
<1>2. Key \in Keys /\ job.share \in Nat
  BY <1>1, KeyIs, Known0 DEF Jobs
<1>3. SentFits' /\ \E p \in {"record", "unsend"} : Goto(p)
  BY <1>1, <1>2, TransferIs
<1>4. PICK p \in {"record", "unsend"} : Goto(p)
  BY <1>3
<1>5. p \in Places
  BY DEF Places
<1>6. JobFits'
  BY <1>1, <1>4, <1>5, Known0, GotoIs
     DEF JobFits, TodoFits, PayoutFits, EarlyFits, RefundFits, At, Settled
<1>7. QED BY <1>1, <1>3, <1>4, <1>5, <1>6, Known0, GotoIs, SentMoves

\* A transfer's row, or none where the transfer of that key is not found.
LEMMA RecordPayoutIs ==
  ASSUME SettlementInv, RecordPayout
  PROVE  SentFits' /\ SumFunction(Nets(sent')) = SumFunction(Nets(sent))
<1> DEFINE m == Max({k \in DOMAIN sent : sent[k].key = Key})
<1>1. sent' = [sent EXCEPT ![m].row = TRUE]
  BY DEF RecordPayout
<1>2. sent \in Seq(Transfers) /\ SentFits /\ \A k \in DOMAIN sent : sent[k] \in Transfers
  BY Known0, SentKnown, NetsAre
<1> HIDE DEF m
<1>3. /\ DOMAIN sent' = DOMAIN sent /\ sent' = [k \in DOMAIN sent |-> sent'[k]]
      /\ \A k \in DOMAIN sent : sent'[k] = IF k = m THEN [sent[k] EXCEPT !.row = TRUE] ELSE sent[k]
  BY <1>1
<1>4. \A k \in DOMAIN sent : /\ sent'[k] \in Transfers /\ sent'[k].amount = sent[k].amount
                             /\ sent'[k].reversed = sent[k].reversed
  BY <1>2, <1>3 DEF Transfers
<1>5. sent' \in Seq(Transfers) /\ SumFunction(Nets(sent')) = SumFunction(Nets(sent))
  BY <1>2, <1>3, <1>4, NetsStay
<1>6. QED BY <1>2, <1>3, <1>4, <1>5 DEF SentFits

LEMMA RecordPayoutInv ==
  ASSUME SettlementInv, RecordPayout, UNCHANGED crashes
  PROVE  SettlementInv'
<1>1. job' = Idle /\ UNCHANGED <<booking, inst, charge, refunds, vendor, report, crashes>>
  BY DEF RecordPayout, Done
<1>2. QED BY <1>1, IdleFits, RecordPayoutIs, SentMoves

----------------------------------------------------------------------------
(* The deposit, early, and what the vendor gives back.                     *)

LEMMA ClaimEarlyInv ==
  ASSUME SettlementInv, ClaimEarly, UNCHANGED crashes
  PROVE  SettlementInv'
<1>1. At("claim") /\ job.op = "early" /\ Goto("send") /\ "send" \in Places
      /\ booking' = [booking EXCEPT !.early = job.share]
      /\ UNCHANGED <<inst, charge, refunds, sent, vendor, report, crashes>>
  BY DEF ClaimEarly, Places
<1>2. job.share > 0 /\ job.share \in Int /\ Deposit # None /\ ~ Settled
  BY <1>1, Known0 DEF EarlyFits, Jobs
<1>3. /\ booking' \in BookingRows /\ booking'.released = booking.released
      /\ booking'.status = booking.status /\ booking'.early = job.share
      /\ booking'.dispute = booking.dispute /\ booking'.gross = booking.gross
      /\ booking'.commission = booking.commission
  BY <1>1, <1>2, Known0 DEF BookingRows
<1>4. BookFits' /\ RowsFit'
  BY <1>1, <1>2, <1>3, Known0 DEF BookFits, RowsFit, RowFits, ChargeFits
<1>5. job' \in Jobs /\ JobFits'
  BY <1>1, <1>2, <1>3, Known0, GotoIs
     DEF JobFits, TodoFits, PayoutFits, EarlyFits, RefundFits, At, Settled
<1>6. QED BY <1>1, <1>3, <1>4, <1>5, Known0 DEF SettlementInv, TypeOK

LEMMA UnsendEarlyInv ==
  ASSUME SettlementInv, UnsendEarly, UNCHANGED crashes
  PROVE  SettlementInv'
<1>1. job' = Idle /\ booking' = [booking EXCEPT !.early = 0]
      /\ UNCHANGED <<inst, charge, refunds, sent, vendor, report, crashes>>
  BY DEF UnsendEarly, Done
<1>2. /\ booking' \in BookingRows /\ booking'.released = booking.released
      /\ booking'.status = booking.status /\ booking'.early = 0
      /\ booking'.dispute = booking.dispute /\ booking'.gross = booking.gross
      /\ booking'.commission = booking.commission
  BY <1>1, Known0 DEF BookingRows
<1>3. BookFits' /\ RowsFit'
  BY <1>1, <1>2, Known0 DEF BookFits, RowsFit, RowFits, ChargeFits
<1>4. QED BY <1>1, <1>2, <1>3, IdleFits, Known0 DEF SettlementInv, TypeOK

\* Where taking back goes next.
LEMMA AfterTakeBackIs ==
  ASSUME SettlementInv, AfterTakeBack, job.op # "early"
  PROVE  job' \in Jobs /\ JobFits' /\ job'.at \in {"close", "idle"}
<1>1. CASE job.op \in {"dispute", "return"}
  <2>1. Goto("close") /\ "close" \in Places
    BY <1>1 DEF AfterTakeBack, Places
  <2>2. QED
    BY <1>1, <2>1, Known0, GotoIs DEF JobFits, TodoFits, PayoutFits, EarlyFits, RefundFits, At
<1>2. CASE job.op \notin {"dispute", "return"}
  <2>1. job' = Idle
    BY <1>2 DEF AfterTakeBack, Done
  <2>2. QED BY <2>1, IdleFits DEF Idle
<1>3. QED BY <1>1, <1>2

LEMMA TakeBackIs ==
  ASSUME SettlementInv, NEW amount \in Int, TakeBack(amount), job.op # "early"
  PROVE  job' \in Jobs /\ JobFits' /\ job'.at \in {"reverse", "close", "idle"}
<1>1. CASE amount > 0
  <2>1. job' = [job EXCEPT !.at = "reverse", !.left = amount]
    BY <1>1 DEF TakeBack
  <2>2. job' \in Jobs /\ job'.at = "reverse" /\ job'.op = job.op /\ job'.todo = job.todo
        /\ job'.left = amount
    BY <2>1, Known0 DEF Jobs, Places
  <2>3. JobFits'
    BY <1>1, <2>2, Known0 DEF JobFits, TodoFits, PayoutFits, EarlyFits, RefundFits, At
  <2>4. QED BY <2>2, <2>3
<1>2. CASE ~ (amount > 0)
  BY <1>2, AfterTakeBackIs DEF TakeBack
<1>3. QED BY <1>1, <1>2

\* A reversal takes no more than is left, from a transfer that has it.
LEMMA ReverseIs ==
  ASSUME SettlementInv, At("reverse"), job.left > 0, Reversible # {},
         NEW k, k = Max(Reversible),
         NEW take, take = Smaller(job.left, sent[k].amount - sent[k].reversed),
         sent' = [sent EXCEPT ![k].reversed = @ + take]
  PROVE  /\ SentFits' /\ take \in Nat /\ take <= job.left
         /\ SumFunction(Nets(sent')) = SumFunction(Nets(sent)) - take
<1>1. sent \in Seq(Transfers) /\ SentFits /\ IsFiniteSet(DOMAIN sent) /\ job.left \in Int
      /\ \A l \in DOMAIN sent : sent[l] \in Transfers /\ l \in Int
  BY Known0, SentKnown, NetsAre
<1>2. Reversible \in SUBSET DOMAIN sent
  BY DEF Reversible
<1>3. IsFiniteSet(Reversible) /\ Reversible \subseteq Int
  BY <1>1, <1>2, FS_Subset
<1>4. k \in Reversible
  BY <1>3, MaxIs
<1>5. /\ k \in DOMAIN sent /\ sent[k] \in Transfers
      /\ sent[k].reversed < sent[k].amount /\ sent[k].amount \in Nat /\ sent[k].reversed \in Nat
  BY <1>1, <1>4 DEF Reversible, Transfers
<1>6. take \in Nat /\ take <= job.left /\ take <= sent[k].amount - sent[k].reversed
  BY <1>1, <1>5 DEF Smaller
<1>7. PICK t : t = [sent[k] EXCEPT !.reversed = @ + take]
  OBVIOUS
<1>8. t \in Transfers /\ t.amount = sent[k].amount /\ t.reversed = sent[k].reversed + take
  BY <1>5, <1>6, <1>7 DEF Transfers
<1>9. sent' = [sent EXCEPT ![k] = t]
  BY <1>7
<1>10. /\ sent' \in Seq(Transfers) /\ DOMAIN sent' = DOMAIN sent /\ sent'[k] = t
       /\ \A l \in DOMAIN sent : l # k => sent'[l] = sent[l]
       /\ SumFunction(Nets(sent')) = SumFunction(Nets(sent)) + (t.amount - t.reversed)
                                      - (sent[k].amount - sent[k].reversed)
  <2>1. sent \in Seq(Transfers) /\ k \in DOMAIN sent /\ t \in Transfers
    BY <1>1, <1>5, <1>8
  <2>2. sent' = Replaced(sent, k, t)
    BY <1>9 DEF Replaced
  <2>3. PICK p : p = sent'
    OBVIOUS
  <2>4. p = Replaced(sent, k, t)
    BY <2>2, <2>3
  <2>5. p \in Seq(Transfers) /\ DOMAIN p = DOMAIN sent /\ p[k] = t
    BY <2>1, <2>4, NetsMove
  <2>6. \A l \in DOMAIN sent : l # k => p[l] = sent[l]
    BY <2>1, <2>4, NetsMove
  <2>7. SumFunction(Nets(p)) = SumFunction(Nets(sent)) + (t.amount - t.reversed)
                                      - (sent[k].amount - sent[k].reversed)
    BY <2>1, <2>4, NetsMove
  <2>8. QED BY <2>3, <2>5, <2>6, <2>7
<1>11. SentFits'
  BY <1>1, <1>5, <1>6, <1>8, <1>10 DEF SentFits
<1>12. SumFunction(Nets(sent)) \in Int
  BY <1>1, NetsAre
<1>13. QED BY <1>5, <1>6, <1>8, <1>10, <1>11, <1>12

LEMMA ReverseTransferInv ==
  ASSUME SettlementInv, ReverseTransfer, UNCHANGED crashes
  PROVE  SettlementInv'
<1>1. At("reverse") /\ job.left > 0
      /\ UNCHANGED <<booking, inst, charge, refunds, vendor, report, crashes>>
  BY DEF ReverseTransfer
<1>2. CASE UNCHANGED sent /\ Goto("owe")
  <2>1. "owe" \in Places /\ SentFits'
    BY <1>2, SentKnown DEF Places, SentFits
  <2>2. JobFits'
    BY <1>1, <1>2, <2>1, Known0, GotoIs
       DEF JobFits, TodoFits, PayoutFits, EarlyFits, RefundFits, At, Settled
  <2>3. QED BY <1>1, <1>2, <2>1, <2>2, Known0, GotoIs, SentMoves
<1>3. ASSUME Reversible # {}, NEW k, k = Max(Reversible),
             NEW take, take = Smaller(job.left, sent[k].amount - sent[k].reversed),
             sent' = [sent EXCEPT ![k].reversed = @ + take],
             job' = [job EXCEPT !.left = @ - take]
      PROVE  SettlementInv'
  <2>1. SentFits' /\ take \in Nat /\ take <= job.left
    BY <1>1, <1>3, ReverseIs
  <2> PICK left \in Int : left = job.left - take
    BY <2>1, Known0
  <2>2. job' \in Jobs /\ job'.at = job.at /\ job'.op = job.op /\ job'.todo = job.todo
        /\ job'.left = job.left - take /\ job'.share = job.share
    <3>1. job' = [job EXCEPT !.left = left] /\ job \in Jobs
      BY <1>3, Known0
    <3>2. QED BY <3>1 DEF Jobs
  <2>3. job'.left >= 0
    BY <2>1, <2>2, Known0
  <2>4. JobFits'
    BY <1>1, <2>2, <2>3, Known0
       DEF JobFits, TodoFits, PayoutFits, EarlyFits, RefundFits, At, Settled
  <2>5. QED BY <1>1, <2>1, <2>2, <2>4, SentMoves
<1>4. QED BY <1>2, <1>3 DEF ReverseTransfer

LEMMA OweRestInv ==
  ASSUME SettlementInv, OweRest, UNCHANGED crashes
  PROVE  SettlementInv'
<1>1. At("owe") /\ Credit(- job.left) /\ AfterTakeBack
      /\ UNCHANGED <<booking, inst, charge, refunds, sent, report, crashes>>
  BY DEF OweRest
<1>2. - job.left \in Int /\ job.op # "early"
  BY <1>1, Known0 DEF EarlyFits, At
<1>3. QED BY <1>1, <1>2, AfterTakeBackIs, BalanceMoves

----------------------------------------------------------------------------
(* Refunds.                                                                *)

LEMMA ThisIs ==
  ASSUME SettlementInv, job.todo # {}
  PROVE  /\ Current \in job.todo /\ This \in Installments
         /\ \A v \in job.todo \ {Current} : v.i # This /\ v.i \in Installments
<1>1. Current \in job.todo
  BY Known0, CurrentIs
<1>2. job.todo \in SUBSET Visits /\ \A v, w \in job.todo : v.i = w.i => v = w
  BY Known0 DEF Jobs, TodoFits
<1>3. \A v \in job.todo : v.i \in Installments
  BY <1>2 DEF Visits
<1>4. This = Current.i
  BY DEF This
<1> HIDE DEF This
<1>5. \A v \in job.todo \ {Current} : v.i # This
  BY <1>1, <1>2, <1>4
<1>6. QED BY <1>1, <1>3, <1>4, <1>5

LEMMA TakeIs ==
  ASSUME SettlementInv, job.todo # {}
  PROVE  /\ Take \in Int /\ Take <= inst[This].amount - inst[This].refunded
         /\ Take <= job.left /\ inst[This] \in Rows
<1>1. This \in Installments
  BY ThisIs
<1>2. inst[This] \in Rows /\ inst[This].refunded <= inst[This].amount /\ job.left \in Int
  BY <1>1, Known0 DEF RowsFit, RowFits
<1> HIDE DEF This
<1>3. Refundable(This) \in Int /\ Refundable(This) <= inst[This].amount - inst[This].refunded
  <2>1. Portion(inst[This]) \in Int /\ Portion(inst[This]) <= inst[This].amount - inst[This].refunded
    BY <1>2 DEF Portion, AtLeast0, Rows
  <2>2. QED BY <1>2, <2>1 DEF Refundable, Rows
<1>4. inst[This].amount - inst[This].refunded \in Int
  BY <1>2 DEF Rows
<1>5. QED BY <1>2, <1>3, <1>4 DEF Take, Smaller

\* The rows still to visit, without the one at hand.
LEMMA RestFits ==
  ASSUME SettlementInv, job.todo # {}
  PROVE  /\ job.todo \ {Current} \in SUBSET Visits /\ IsFiniteSet(job.todo \ {Current})
         /\ \A v, w \in job.todo \ {Current} : v.i = w.i => v = w
<1>1. job.todo \in SUBSET Visits /\ IsFiniteSet(job.todo)
      /\ \A v, w \in job.todo : v.i = w.i => v = w
  BY Known0 DEF Jobs, TodoFits
<1>2. job.todo \ {Current} \in SUBSET job.todo
  OBVIOUS
<1>3. IsFiniteSet(job.todo \ {Current})
  BY <1>1, FS_RemoveElement
<1>4. QED BY <1>1, <1>2, <1>3

LEMMA ReadPartsInv ==
  ASSUME SettlementInv, ReadParts, UNCHANGED crashes
  PROVE  SettlementInv'
<1>1. At("parts") /\ job' = [job EXCEPT !.at = "refund", !.todo = Parts]
      /\ UNCHANGED <<booking, inst, charge, refunds, sent, vendor, report>>
  BY DEF ReadParts
<1>2. PICK S \in SUBSET Installments :
        Parts = Read(S) /\ (job.op = "giveBack" => S = Paid)
  <2>1. Paid \in SUBSET Installments /\ Unpaid \in SUBSET Installments
    BY DEF Paid, Unpaid
  <2>2. CASE job.op = "giveBack"
    BY <2>1, <2>2 DEF Parts
  <2>3. CASE job.op # "giveBack"
    <3> DEFINE T == Paid \cup {i \in Unpaid : ~ (job.deed = "partial" /\ i \in AfterService)}
    <3>1. T \in SUBSET Installments
      BY <2>1
    <3>2. Parts = Read(T)
      BY <2>3 DEF Parts
    <3> HIDE DEF T
    <3>3. QED BY <2>3, <3>1, <3>2
  <2>4. QED BY <2>2, <2>3
<1>3. /\ Parts \in SUBSET Visits /\ IsFiniteSet(Parts)
      /\ \A v, w \in Parts : v.i = w.i => v = w
      /\ \A v \in Parts : v.i \in S /\ v.was = inst[v.i].status
  BY <1>2, Known0, ReadIs
<1>4. \A v \in Parts : job.op = "giveBack" => v.was = "PAID"
  BY <1>2, <1>3 DEF Paid
<1> HIDE DEF Parts
<1>5. job' \in Jobs /\ job'.at = "refund" /\ job'.op = job.op /\ job'.todo = Parts
      /\ job'.left = job.left
  BY <1>1, <1>3, Known0 DEF Jobs, Places
<1>6. job.op \in {"giveBack", "dispute"} /\ (job.op = "dispute" => DisputeOpen /\ ~ booking.released)
  BY <1>1, Known0 DEF RefundFits, At
<1>7. JobFits'
  <2>1. TodoFits' /\ PayoutFits' /\ EarlyFits'
    BY <1>3, <1>5, <1>6, Known0 DEF TodoFits, PayoutFits, EarlyFits, At
  <2>2. RefundFits'
    BY <1>1, <1>3, <1>4, <1>5, <1>6 DEF RefundFits, At, DisputeOpen
  <2>3. QED BY <2>1, <2>2 DEF JobFits
<1>8. QED BY <1>1, <1>5, <1>7, JobMoves

\* The job goes on to the next row, what it knows of the others as it was.
LEMMA NextRow ==
  ASSUME SettlementInv, At("refund") \/ At("recordRefund"), job.todo # {}, UNCHANGED booking,
         job' \in Jobs, job'.at = "refund", job'.op = job.op, job'.todo = job.todo \ {Current},
         job'.left >= 0, \A i \in Installments \ {This} : inst'[i] = inst[i]
  PROVE  JobFits'
<1>1. TodoFits'
  BY RestFits DEF TodoFits
<1>2. PayoutFits' /\ EarlyFits'
  BY Known0 DEF PayoutFits, EarlyFits, RefundFits, At
<1>3. /\ job.op \in {"giveBack", "dispute"} /\ (job.op = "dispute" => DisputeOpen /\ ~ booking.released)
      /\ \A v \in job.todo : IF v.was = "PAID" THEN inst[v.i].status = "PAID" ELSE job.op = "dispute"
  BY Known0 DEF RefundFits, At
<1>4. \A v \in job.todo \ {Current} : inst'[v.i] = inst[v.i]
  BY ThisIs
<1>5. \A v \in job'.todo :
        IF v.was = "PAID" THEN inst'[v.i].status = "PAID" ELSE job'.op = "dispute"
  BY <1>3, <1>4
<1>6. RefundFits'
  BY <1>3, <1>5 DEF RefundFits, At, DisputeOpen
<1>7. QED BY <1>1, <1>2, <1>6 DEF JobFits

LEMMA SkipPartInv ==
  ASSUME SettlementInv, SkipPart, UNCHANGED crashes
  PROVE  SettlementInv'
<1>1. At("refund") /\ job.todo # {} /\ job' = [job EXCEPT !.todo = @ \ {Current}]
      /\ UNCHANGED <<booking, inst, charge, refunds, sent, vendor, report>>
  BY DEF SkipPart, ToRefund
<1>2. job.todo \ {Current} \in SUBSET Visits
  BY <1>1, RestFits
<1>3. job' \in Jobs /\ job'.at = "refund" /\ job'.op = job.op /\ job'.todo = job.todo \ {Current}
      /\ job'.left = job.left
  BY <1>1, <1>2, Known0 DEF Jobs, At
<1>4. QED BY <1>1, <1>3, Known0, NextRow, JobMoves

\* Only one row and the job move.
LEMMA RowMoves ==
  ASSUME SettlementInv, UNCHANGED <<booking, charge, refunds, sent, vendor, report, crashes>>,
         NEW x \in Installments, NEW row \in Rows, inst' = [inst EXCEPT ![x] = row],
         row.refunded <= row.amount, row.amount - row.fee <= inst[x].amount - inst[x].fee,
         row.status \in {"SCHEDULED", "FAILED"} => row.status = inst[x].status /\ row.refunded = 0,
         row.status # "CLEARING", row.out = inst[x].out,
         inst[x].out \/ (charge[x].taken > 0 /\ x \notin ByBank) =>
           row.status \in {"PAID", "REFUNDED"} \/ (row.status = "CANCELLED" /\ ~ row.out),
         job' \in Jobs, JobFits'
  PROVE  SettlementInv'
<1>1. inst' \in [Installments -> Rows] /\ inst'[x] = row
      /\ \A i \in Installments \ {x} : inst'[i] = inst[i]
  BY Known0
<1>2. TypeOK' /\ (sent \in Seq(Transfers))' /\ BookFits'
  BY <1>1, Known0 DEF TypeOK, BookFits
<1>3. RowsFit'
  <2> SUFFICES ASSUME NEW i \in Installments
               PROVE  RowFits(i)' /\ ChargeFits(i)'
    BY DEF RowsFit
  <2>1. RowFits(i) /\ ChargeFits(i)
    BY Known0 DEF RowsFit
  <2>2. CASE i # x
    BY <1>1, <2>1, <2>2 DEF RowFits, ChargeFits
  <2>3. CASE i = x
    <3>1. row.amount - row.fee <= Part(i)
      <4>1. inst[i] \in Rows /\ Price[i] \in Int /\ Fee[i] \in Int
        BY Known0, MoneyAssumption
      <4>2. QED BY <2>1, <2>3, <4>1 DEF RowFits, Part, Rows
    <3>2. RowFits(i)'
      BY <1>1, <2>1, <2>3, <3>1 DEF RowFits
    <3>3. ChargeFits(i)'
      BY <1>1, <2>1, <2>3 DEF ChargeFits, RowFits
    <3>4. QED BY <3>2, <3>3
  <2>4. QED BY <2>2, <2>3
<1>4. QED BY <1>2, <1>3 DEF SettlementInv

LEMMA CallOffPartInv ==
  ASSUME SettlementInv, CallOffPart, UNCHANGED crashes
  PROVE  SettlementInv'
<1>1. /\ At("refund") /\ job.todo # {} /\ Current.was # "PAID"
      /\ inst' = [inst EXCEPT ![This].status = "CANCELLED"]
      /\ job' = [job EXCEPT !.todo = @ \ {Current}]
      /\ UNCHANGED <<booking, charge, refunds, sent, vendor, report, crashes>>
  BY DEF CallOffPart
<1>2. Current \in job.todo /\ This \in Installments /\ inst[This] \in Rows
      /\ inst[This].refunded <= inst[This].amount
  BY <1>1, ThisIs, Known0 DEF RowsFit, RowFits
<1>3. ~ inst[This].out
  <2>1. ~ booking.released
    BY <1>1, <1>2, Known0 DEF RefundFits, At
  <2>2. RowFits(This)
    BY <1>2, Known0 DEF RowsFit
  <2>3. QED BY <2>1, <2>2 DEF RowFits
<1> PICK row : row = [inst[This] EXCEPT !.status = "CANCELLED"]
  OBVIOUS
<1>4. inst' = [inst EXCEPT ![This] = row]
  BY <1>1
<1>5. row \in Rows /\ row.amount = inst[This].amount /\ row.fee = inst[This].fee
      /\ row.refunded = inst[This].refunded /\ row.out = inst[This].out /\ row.status = "CANCELLED"
  BY <1>2 DEF Rows, Statuses
<1>6. job.todo \ {Current} \in SUBSET Visits
  BY <1>1, RestFits
<1>7. job' \in Jobs /\ job'.at = "refund" /\ job'.op = job.op /\ job'.todo = job.todo \ {Current}
      /\ job'.left = job.left
  BY <1>1, <1>6, Known0 DEF Jobs, At
<1>8. \A i \in Installments \ {This} : inst'[i] = inst[i]
  BY <1>4, Known0
<1>9. JobFits'
  BY <1>1, <1>7, <1>8, Known0, NextRow
<1>10. row.amount - row.fee <= inst[This].amount - inst[This].fee
  BY <1>2, <1>5 DEF Rows
<1>11. QED BY <1>1, <1>2, <1>3, <1>4, <1>5, <1>7, <1>9, <1>10, RowMoves

LEMMA RefundPartInv ==
  ASSUME SettlementInv, RefundPart, UNCHANGED crashes
  PROVE  SettlementInv'
<1>1. At("refund") /\ job.todo # {} /\ Current.was = "PAID" /\ Take > 0
      /\ UNCHANGED <<booking, inst, sent, vendor, report, crashes>>
  BY DEF RefundPart, ToRefund
<1>2. Current \in job.todo /\ This \in Installments /\ Take \in Nat
  BY <1>1, ThisIs, TakeIs
<1>3. /\ charge' \in [Installments -> Charges]
      /\ \A k \in refunds' : k.i \in Installments /\ k.amount \in Nat
      /\ \A i \in Installments : ChargeFits(i)'
  <2>1. CASE UNCHANGED <<charge, refunds>>
    <3>1. \A i \in Installments : ChargeFits(i)
      BY Known0 DEF RowsFit
    <3>2. QED BY <1>1, <2>1, <3>1, Known0 DEF TypeOK, ChargeFits
  <2>2. CASE /\ CanRefund(This, Take) /\ charge' = [charge EXCEPT ![This].back = @ + Take]
             /\ refunds' = refunds \cup {[key |-> RefundKey(This), i |-> This, amount |-> Take]}
    <3> PICK take \in Nat : take = Take
      BY <1>2
    <3>1. charge[This] \in Charges /\ charge[This].taken - charge[This].back >= take
      BY <1>2, <2>2, Known0 DEF CanRefund
    <3>2. charge' = [charge EXCEPT ![This].back = @ + take]
      BY <2>2
    <3>3. charge' \in [Installments -> Charges]
      <4> PICK c : c = [charge[This] EXCEPT !.back = @ + take]
        OBVIOUS
      <4>1. c \in Charges
        BY <3>1 DEF Charges
      <4>2. charge' = [charge EXCEPT ![This] = c]
        BY <3>2
      <4>3. QED BY <4>1, <4>2, Known0
    <3>4. \A k \in refunds' : k.i \in Installments /\ k.amount \in Nat
      BY <1>2, <2>2, Known0 DEF TypeOK
    <3>5. ASSUME NEW i \in Installments PROVE ChargeFits(i)'
      <4>1. charge[i] \in Charges /\ ChargeFits(i)
        BY Known0 DEF RowsFit
      <4>2. charge'[i].taken = charge[i].taken /\ charge'[i].bank = charge[i].bank
            /\ charge'[i].back <= charge[i].taken
        <5>1. CASE i = This
          <6>1. charge'[i] = [charge[i] EXCEPT !.back = @ + take]
            BY <1>2, <3>2, <5>1, Known0
          <6>2. QED BY <3>1, <4>1, <5>1, <6>1 DEF Charges
        <5>2. CASE i # This
          <6>1. charge'[i] = charge[i]
            BY <3>2, <5>2, Known0
          <6>2. QED BY <4>1, <6>1 DEF ChargeFits
        <5>3. QED BY <5>1, <5>2
      <4>3. QED BY <1>1, <4>1, <4>2 DEF ChargeFits
    <3>6. QED BY <3>3, <3>4, <3>5
  <2>3. QED BY <2>1, <2>2 DEF RefundPart
<1>4. RowsFit' /\ BookFits'
  BY <1>1, <1>3, Known0 DEF RowsFit, RowFits, BookFits
<1>5. job' \in Jobs /\ JobFits'
  <2>1. CASE job' = Idle
    BY <2>1, IdleFits
  <2>2. CASE Goto("recordRefund")
    <3>1. "recordRefund" \in Places
      BY DEF Places
    <3>2. job' \in Jobs /\ job'.at = "recordRefund" /\ job'.op = job.op /\ job'.todo = job.todo
          /\ job'.left = job.left /\ job'.deed = job.deed
      BY <2>2, <3>1, Known0, GotoIs
    <3>3. Current' = Current
      BY <3>2 DEF Current, Precedes
    <3>4. Take' = Take
      BY <1>1, <3>2, <3>3 DEF Take, This, Refundable
    <3>5. TodoFits' /\ PayoutFits' /\ EarlyFits'
      BY <1>1, <3>2, Known0 DEF TodoFits, PayoutFits, EarlyFits, RefundFits, At
    <3>6. RefundFits'
      BY <1>1, <3>2, <3>3, <3>4, Known0 DEF RefundFits, At, DisputeOpen
    <3>7. QED BY <3>2, <3>5, <3>6 DEF JobFits
  <2>3. QED BY <2>1, <2>2 DEF RefundPart, Done
<1>6. QED BY <1>1, <1>3, <1>4, <1>5, Known0 DEF SettlementInv, TypeOK

LEMMA RecordPartInv ==
  ASSUME SettlementInv, RecordPart, UNCHANGED crashes
  PROVE  SettlementInv'
<1>1. /\ At("recordRefund") /\ job.todo # {} /\ Current.was = "PAID" /\ Take > 0
      /\ UNCHANGED <<booking, charge, refunds, sent, vendor, report, crashes>>
  BY Known0 DEF RecordPart, RefundFits
<1>2. /\ Current \in job.todo /\ This \in Installments /\ inst[This] \in Rows
      /\ Take <= inst[This].amount - inst[This].refunded /\ Take <= job.left
  BY <1>1, ThisIs, TakeIs
<1>3. inst[This].status = "PAID"
  BY <1>1, <1>2, Known0 DEF RefundFits, At, This
<1> PICK take \in Nat : take = Take
  BY <1>1, TakeIs
<1> PICK end \in {"PAID", "REFUNDED"} :
      end = IF Take >= inst[This].amount - inst[This].refunded THEN "REFUNDED" ELSE "PAID"
  OBVIOUS
<1> PICK row : row = [inst[This] EXCEPT !.refunded = @ + take, !.status = end]
  OBVIOUS
<1>4. inst' = [inst EXCEPT ![This] = row]
  BY DEF RecordPart
<1>5. row \in Rows /\ row.amount = inst[This].amount /\ row.fee = inst[This].fee
      /\ row.refunded = inst[This].refunded + take /\ row.out = inst[This].out /\ row.status = end
  <2>1. end \in Statuses
    BY DEF Statuses
  <2> PICK n \in Nat : n = inst[This].refunded + take
    BY <1>2 DEF Rows
  <2>2. row = [inst[This] EXCEPT !.refunded = n, !.status = end]
    OBVIOUS
  <2>3. QED BY <1>2, <2>1, <2>2 DEF Rows
<1> PICK left \in Int : left = job.left - take
  BY Known0
<1> PICK paidOut \in Nat : paidOut = IF inst[This].out THEN job.paidOut + take ELSE job.paidOut
  BY Known0 DEF Jobs
<1>6. job' = [job EXCEPT !.at = "refund", !.todo = @ \ {Current}, !.left = left,
                         !.paidOut = paidOut]
  BY DEF RecordPart
<1>7. job.todo \ {Current} \in SUBSET Visits
  BY <1>1, RestFits
<1>8. job' \in Jobs /\ job'.at = "refund" /\ job'.op = job.op /\ job'.todo = job.todo \ {Current}
      /\ job'.left = left
  BY <1>6, <1>7, Known0 DEF Jobs, Places
<1>9. job'.left >= 0
  BY <1>2, <1>8, Known0
<1>10. \A i \in Installments \ {This} : inst'[i] = inst[i]
  BY <1>4, Known0
<1>11. JobFits'
  BY <1>1, <1>8, <1>9, <1>10, NextRow
<1>12. row.amount - row.fee <= inst[This].amount - inst[This].fee /\ row.refunded <= row.amount
  BY <1>2, <1>5 DEF Rows
<1>13. QED BY <1>1, <1>2, <1>3, <1>4, <1>5, <1>8, <1>11, <1>12, RowMoves

\* What lowering leaves of an unpaid row, and takes from what is still to give back.
LEMMA LoweredIs ==
  ASSUME NEW i \in Installments, inst[i] \in Rows, job.left \in Int, job.left > 0
  PROVE  /\ Lowered(i) \in Nat
         /\ inst[i].amount - Lowered(i) <= job.left
<1>1. inst[i].amount \in Nat /\ inst[i].fee \in Nat /\ MinCharge \in Nat
  BY MoneyAssumption DEF Rows
<1>2. PICK low : low = Smaller(job.left, Lowerable(i))
  OBVIOUS
<1>3. low \in Nat /\ low <= job.left /\ low <= inst[i].amount
  BY <1>1, <1>2 DEF Smaller, Lowerable, AtLeast0
<1>4. QED BY <1>1, <1>2, <1>3 DEF Lowered

LEMMA LowerUnpaidInv ==
  ASSUME SettlementInv, LowerUnpaid, UNCHANGED crashes
  PROVE  SettlementInv'
<1>1. /\ At("lower") /\ job.todo # {} /\ job.left > 0 /\ job.op = "giveBack"
      /\ UNCHANGED <<booking, charge, refunds, sent, vendor, report, crashes>>
  BY Known0 DEF LowerUnpaid, RefundFits
<1>2. /\ Current \in job.todo /\ This \in Installments /\ inst[This] \in Rows
      /\ Current.was \in {"SCHEDULED", "FAILED"} /\ RowFits(This) /\ ChargeFits(This)
  BY <1>1, ThisIs, Known0 DEF RefundFits, RowsFit
<1>3. job.todo \ {Current} \in SUBSET Visits
  BY <1>1, RestFits
<1>4. ASSUME job' \in Jobs, job'.at = "lower", job'.op = job.op,
             job'.todo = job.todo \ {Current}, job'.left >= 0
      PROVE  JobFits'
  <2>1. TodoFits'
    BY <1>1, <1>4, RestFits DEF TodoFits
  <2>2. \A v \in job.todo : v.was \in {"SCHEDULED", "FAILED"}
    BY <1>1, Known0 DEF RefundFits
  <2>3. PayoutFits' /\ EarlyFits' /\ RefundFits'
    BY <1>1, <1>4, <2>2 DEF PayoutFits, EarlyFits, RefundFits, At
  <2>4. QED BY <2>1, <2>3 DEF JobFits
<1> PICK low : low = Lowered(This)
  OBVIOUS
<1>5. low \in Nat /\ inst[This].amount - low <= job.left
  BY <1>1, <1>2, Known0, LoweredIs
<1>6. CASE UNCHANGED inst /\ job' = [job EXCEPT !.todo = @ \ {Current}]
  <2>1. job' \in Jobs /\ job'.at = "lower" /\ job'.op = job.op
        /\ job'.todo = job.todo \ {Current} /\ job'.left = job.left
    BY <1>1, <1>3, <1>6, Known0 DEF Jobs, At
  <2>2. QED BY <1>1, <1>4, <1>6, <2>1, Known0, JobMoves
<1>7. CASE /\ inst[This].status = Current.was /\ inst[This].amount - low > 0
           /\ inst' = [inst EXCEPT ![This].amount = low,
                                   ![This].status = IF low > 0 THEN @ ELSE "CANCELLED"]
           /\ job' = [job EXCEPT !.todo = @ \ {Current}, !.left = @ - (inst[This].amount - low)]
  <2> PICK row : row = [inst[This] EXCEPT !.amount = low,
                                          !.status = IF low > 0 THEN @ ELSE "CANCELLED"]
    OBVIOUS
  <2>1. inst' = [inst EXCEPT ![This] = row]
    BY <1>7
  <2>2. row \in Rows /\ row.amount = low /\ row.fee = inst[This].fee
        /\ row.refunded = inst[This].refunded /\ row.out = inst[This].out
        /\ row.status \in {inst[This].status, "CANCELLED"}
    BY <1>2, <1>5 DEF Rows, Statuses
  <2>3. inst[This].refunded = 0 /\ ~ inst[This].out
        /\ ~ (charge[This].taken > 0 /\ This \notin ByBank)
    BY <1>2, <1>7 DEF RowFits, ChargeFits
  <2>4. row.amount - row.fee <= inst[This].amount - inst[This].fee /\ row.refunded <= row.amount
    BY <1>2, <1>5, <1>7, <2>2, <2>3 DEF Rows
  <2> PICK left \in Int : left = job.left - (inst[This].amount - low)
    BY <1>2, <1>5, Known0 DEF Rows
  <2>5. left >= 0
    BY <1>2, <1>5, Known0 DEF Rows
  <2>6. job' = [job EXCEPT !.todo = @ \ {Current}, !.left = left]
    BY <1>7
  <2>7. job' \in Jobs /\ job'.at = "lower" /\ job'.op = job.op
        /\ job'.todo = job.todo \ {Current} /\ job'.left = left
    BY <1>1, <1>3, <2>6, Known0 DEF Jobs, At
  <2>8. JobFits'
    BY <1>4, <2>5, <2>7
  <2>9. inst[This].status \in {"SCHEDULED", "FAILED"}
    BY <1>2, <1>7
  <2>10. row.status \in {"SCHEDULED", "FAILED"} => row.status = inst[This].status /\ row.refunded = 0
    BY <2>2, <2>3
  <2>11. row.status # "CLEARING" /\ row.out = inst[This].out
    BY <2>2, <2>9
  <2>12. QED BY <1>1, <1>2, <2>1, <2>2, <2>3, <2>4, <2>7, <2>8, <2>10, <2>11, RowMoves
<1>8. QED BY <1>6, <1>7 DEF LowerUnpaid

LEMMA RecoverGivenBackInv ==
  ASSUME SettlementInv, RecoverGivenBack, UNCHANGED crashes
  PROVE  SettlementInv'
<1>1. At("recover") /\ Credit(- AfterCommission(job.paidOut)) /\ job' = Idle
      /\ UNCHANGED <<booking, inst, charge, refunds, sent, report, crashes>>
  BY DEF RecoverGivenBack, Done
<1>2. job.paidOut \in Nat
  BY Known0 DEF Jobs
<1>3. - AfterCommission(job.paidOut) \in Int
  <2>1. AfterCommission(job.paidOut) \in 0..job.paidOut
    BY <1>2, Known0, AfterCommissionIs
  <2>2. QED BY <1>2, <2>1
<1>4. QED BY <1>1, <1>3, IdleFits, BalanceMoves

----------------------------------------------------------------------------
(* Settlements, returns and lost bank disputes.                            *)

\* Only the booking and the job move.
LEMMA BookingMoves ==
  ASSUME SettlementInv, UNCHANGED <<inst, charge, refunds, sent, vendor, report, crashes>>,
         booking' \in BookingRows, BookFits',
         booking.released => booking'.released,
         booking.status = "COMPLETED" => booking'.status = "COMPLETED",
         job' \in Jobs, JobFits'
  PROVE  SettlementInv'
<1>1. TypeOK' /\ (sent \in Seq(Transfers))'
  BY Known0 DEF TypeOK
<1>2. RowsFit'
  BY Known0 DEF RowsFit, RowFits, ChargeFits
<1>3. QED BY <1>1, <1>2 DEF SettlementInv

LEMMA ResolveInv ==
  ASSUME SettlementInv, Resolve, UNCHANGED crashes
  PROVE  SettlementInv'
<1>1. At("resolve") /\ job.op = "dispute" /\ DisputeOpen /\ ~ booking.released
      /\ UNCHANGED <<inst, charge, refunds, sent, vendor, report, crashes>>
  BY Known0 DEF Resolve, RefundFits, At
<1> PICK dispute \in {"refunded", "resolved"} :
      dispute = IF job.deed = "refund" THEN "refunded" ELSE "resolved"
  OBVIOUS
<1> PICK due \in BOOLEAN :
      due = (booking.due \/ (job.deed # "refund" /\ booking.status = "COMPLETED"))
  OBVIOUS
<1>2. booking' = [booking EXCEPT !.dispute = dispute, !.due = due]
  BY DEF Resolve
<1>3. /\ booking' \in BookingRows /\ booking'.released = booking.released
      /\ booking'.status = booking.status /\ booking'.early = booking.early
      /\ booking'.dispute = dispute /\ booking'.gross = booking.gross
      /\ booking'.commission = booking.commission
  BY <1>2, Known0 DEF BookingRows
<1>4. BookFits'
  BY <1>1, <1>3, Known0 DEF BookFits
<1>5. job' \in Jobs /\ JobFits'
  <2>1. CASE job.deed = "refund"
    <3>1. Goto("over") /\ "over" \in Places /\ dispute = "refunded"
      BY <2>1 DEF Resolve, Places
    <3>2. TodoFits' /\ PayoutFits' /\ EarlyFits' /\ RefundFits'
      BY <1>1, <1>3, <3>1, Known0, GotoIs DEF TodoFits, PayoutFits, EarlyFits, RefundFits, At
    <3>3. QED BY <3>1, <3>2, Known0, GotoIs DEF JobFits
  <2>2. CASE job.deed # "refund"
    BY <2>2, IdleFits DEF Resolve, Done
  <2>3. QED BY <2>1, <2>2
<1>6. QED BY <1>1, <1>3, <1>4, <1>5, BookingMoves

LEMMA EndRefundedInv ==
  ASSUME SettlementInv, EndRefunded, UNCHANGED crashes
  PROVE  SettlementInv'
<1>1. At("over") /\ job.op = "dispute" /\ booking.dispute = "refunded" /\ TakeBack(booking.early)
      /\ booking' = [booking EXCEPT !.released = TRUE]
      /\ UNCHANGED <<inst, charge, refunds, sent, vendor, report, crashes>>
  BY Known0 DEF EndRefunded, RefundFits
<1>2. /\ booking' \in BookingRows /\ booking'.released
      /\ booking'.status = booking.status /\ booking'.early = booking.early
      /\ booking'.dispute = booking.dispute /\ booking'.gross = booking.gross
      /\ booking'.commission = booking.commission /\ booking.early \in Int
  BY <1>1, Known0 DEF BookingRows
<1>3. BookFits'
  BY <1>1, <1>2, Known0 DEF BookFits
<1>4. job' \in Jobs /\ JobFits'
  BY <1>1, <1>2, TakeBackIs
<1>5. QED BY <1>1, <1>2, <1>3, <1>4, BookingMoves

LEMMA CloseRefundedInv ==
  ASSUME SettlementInv, CloseRefunded, UNCHANGED crashes
  PROVE  SettlementInv'
<1>1. job' = Idle /\ UNCHANGED <<charge, refunds, sent, vendor, report, crashes>>
  BY DEF CloseRefunded, Done
<1>2. job' \in Jobs /\ JobFits'
  BY <1>1, IdleFits
<1>3. CASE UNCHANGED <<booking, inst>>
  BY <1>1, <1>2, <1>3, JobMoves
<1>4. CASE /\ booking.status = "CONFIRMED" /\ booking' = [booking EXCEPT !.status = "CANCELLED"]
           /\ inst' = [i \in Installments |->
                IF i \in Unpaid THEN [inst[i] EXCEPT !.status = "CANCELLED"] ELSE inst[i]]
  <2>1. /\ booking' \in BookingRows /\ booking'.released = booking.released
        /\ booking'.status = "CANCELLED" /\ booking'.early = booking.early
        /\ booking'.dispute = booking.dispute /\ booking'.gross = booking.gross
        /\ booking'.commission = booking.commission
    BY <1>4, Known0 DEF BookingRows
  <2>2. BookFits'
    BY <1>4, <2>1, Known0 DEF BookFits
  <2>3. inst' \in [Installments -> Rows]
    BY <1>4, Known0 DEF Rows, Statuses
  <2>4. RowsFit'
    <3> SUFFICES ASSUME NEW i \in Installments
                 PROVE  RowFits(i)' /\ ChargeFits(i)'
      BY DEF RowsFit
    <3>1. RowFits(i) /\ ChargeFits(i) /\ inst[i] \in Rows
      BY Known0 DEF RowsFit
    <3>2. /\ inst'[i].amount = inst[i].amount /\ inst'[i].fee = inst[i].fee
          /\ inst'[i].refunded = inst[i].refunded /\ inst'[i].out = inst[i].out
          /\ inst'[i].status \in {inst[i].status, "CANCELLED"}
      BY <1>4, <3>1 DEF Rows
    <3>3. ~ inst[i].out
      BY <1>4, <3>1 DEF RowFits
    <3>4. QED BY <1>1, <3>1, <3>2, <3>3 DEF RowFits, ChargeFits
  <2>5. QED BY <1>1, <1>2, <2>1, <2>2, <2>3, <2>4, Known0 DEF SettlementInv, TypeOK
<1>5. QED BY <1>3, <1>4 DEF CloseRefunded

LEMMA ForgetEarlyInv ==
  ASSUME SettlementInv, ForgetEarly, UNCHANGED crashes
  PROVE  SettlementInv'
<1>1. At("forget") /\ job.op = "return" /\ TakeBack(booking.early)
      /\ booking' = [booking EXCEPT !.early = 0]
      /\ UNCHANGED <<inst, charge, refunds, sent, vendor, report, crashes>>
  BY Known0 DEF ForgetEarly, RefundFits
<1>2. /\ booking' \in BookingRows /\ booking'.released = booking.released
      /\ booking'.status = booking.status /\ booking'.early = 0
      /\ booking'.dispute = booking.dispute /\ booking'.gross = booking.gross
      /\ booking'.commission = booking.commission /\ booking.early \in Int
  BY <1>1, Known0 DEF BookingRows
<1>3. BookFits'
  BY <1>2, Known0 DEF BookFits
<1>4. job' \in Jobs /\ JobFits'
  BY <1>1, <1>2, TakeBackIs
<1>5. QED BY <1>1, <1>2, <1>3, <1>4, BookingMoves

LEMMA CloseReturnInv ==
  ASSUME SettlementInv, CloseReturn, UNCHANGED crashes
  PROVE  SettlementInv'
<1>1. job' = Idle /\ booking' \in {booking, [booking EXCEPT !.paid = FALSE]}
      /\ UNCHANGED <<inst, charge, refunds, sent, vendor, report, crashes>>
  BY DEF CloseReturn, Done
<1>2. /\ booking' \in BookingRows /\ booking'.released = booking.released
      /\ booking'.status = booking.status /\ booking'.early = booking.early
      /\ booking'.dispute = booking.dispute /\ booking'.gross = booking.gross
      /\ booking'.commission = booking.commission
  BY <1>1, Known0 DEF BookingRows
<1>3. BookFits'
  BY <1>2, Known0 DEF BookFits
<1>4. QED BY <1>1, <1>2, <1>3, IdleFits, BookingMoves

\* One row, the booking's other columns and the job move.
LEMMA RowAndBookingMove ==
  ASSUME SettlementInv, UNCHANGED <<charge, refunds, sent, vendor, report, crashes>>,
         booking' \in BookingRows, BookFits', booking'.released = booking.released,
         booking'.status = booking.status,
         NEW x \in Installments, NEW row \in Rows, inst' = [inst EXCEPT ![x] = row],
         row.refunded <= row.amount, row.amount - row.fee <= Part(x),
         row.status \in {"SCHEDULED", "FAILED"} => row.refunded = 0,
         row.status # "CLEARING",
         row.out => inst[x].out /\ row.status \in {"PAID", "REFUNDED"},
         charge[x].taken > 0 /\ x \notin ByBank => row.status \in {"PAID", "REFUNDED", "CANCELLED"},
         job' \in Jobs, JobFits'
  PROVE  SettlementInv'
<1>1. inst' \in [Installments -> Rows] /\ inst'[x] = row
      /\ \A i \in Installments \ {x} : inst'[i] = inst[i]
  BY Known0
<1>2. TypeOK' /\ (sent \in Seq(Transfers))'
  BY <1>1, Known0 DEF TypeOK
<1>3. RowsFit'
  <2> SUFFICES ASSUME NEW i \in Installments
               PROVE  RowFits(i)' /\ ChargeFits(i)'
    BY DEF RowsFit
  <2>1. RowFits(i) /\ ChargeFits(i)
    BY Known0 DEF RowsFit
  <2>2. CASE i # x
    BY <1>1, <2>1, <2>2 DEF RowFits, ChargeFits
  <2>3. CASE i = x
    <3>1. RowFits(i)'
      BY <1>1, <2>1, <2>3 DEF RowFits
    <3>2. ChargeFits(i)'
      BY <1>1, <2>1, <2>3 DEF ChargeFits
    <3>3. QED BY <3>1, <3>2
  <2>4. QED BY <2>2, <2>3
<1>4. QED BY <1>2, <1>3 DEF SettlementInv

\* The row of a returned payment.
LEMMA ReturnedIs ==
  ASSUME SettlementInv, NEW i \in Installments
  PROVE  /\ Returned(inst[i]) \in Rows /\ Returned(inst[i]).refunded = 0
         /\ Returned(inst[i]).amount - Returned(inst[i]).fee <= Part(i)
         /\ Returned(inst[i]).status \in {"FAILED", "CANCELLED"} /\ ~ Returned(inst[i]).out
<1>1. inst[i] \in Rows /\ RowFits(i) /\ Part(i) \in Nat
  BY Known0, MoneyAssumption DEF RowsFit, Part
<1> PICK owed \in Nat : owed = inst[i].amount - inst[i].refunded
  BY <1>1 DEF Rows, RowFits
<1> PICK fee \in Nat : fee = Smaller(inst[i].fee, owed)
  BY <1>1 DEF Rows, Smaller
<1>2. owed - fee <= Part(i)
  BY <1>1 DEF Rows, RowFits, Smaller
<1> PICK status \in {"FAILED", "CANCELLED"} : status = IF owed > 0 THEN "FAILED" ELSE "CANCELLED"
  OBVIOUS
<1>3. Returned(inst[i]) = [inst[i] EXCEPT !.status = status, !.out = FALSE,
                 !.amount = owed, !.fee = fee, !.refunded = 0]
  BY DEF Returned
<1>4. status \in Statuses
  BY DEF Statuses
<1>5. Returned(inst[i]) \in Rows
  <2>1. inst[i] = [status |-> inst[i].status, amount |-> inst[i].amount, fee |-> inst[i].fee,
                   refunded |-> inst[i].refunded, out |-> inst[i].out]
    BY <1>1 DEF Rows
  <2>2. Returned(inst[i]) = [status |-> status, amount |-> owed, fee |-> fee, refunded |-> 0,
                             out |-> FALSE]
    BY <1>3, <2>1
  <2>3. QED BY <1>4, <2>2 DEF Rows
<1>6. QED BY <1>1, <1>2, <1>3, <1>5 DEF Rows

ForReturn(place, i, left, other) ==
  [op |-> "return", at |-> place, i |-> i, left |-> left, todo |-> {}, paidOut |-> 0,
   gross |-> 0, share |-> 0, owed |-> 0, other |-> other, deed |-> "none"]

LEMMA ForReturnIs ==
  ASSUME NEW place \in {"reverse", "forget", "close"}, NEW i \in Installments, NEW left \in Nat,
         NEW other \in BOOLEAN
  PROVE  /\ ForReturn(place, i, left, other) \in Jobs
         /\ ForReturn(place, i, left, other).op = "return"
         /\ ForReturn(place, i, left, other).at = place
         /\ ForReturn(place, i, left, other).i = i
         /\ ForReturn(place, i, left, other).left = left
         /\ ForReturn(place, i, left, other).todo = {}
  BY DEF Jobs, Ops, Places, Deeds, ForReturn

LEMMA ReturnBeginsIs ==
  ASSUME SettlementInv, ReturnBegins
  PROVE  \E i \in ByBank, left \in Nat, place \in {"reverse", "forget", "close"} :
           /\ inst[i].status = "PAID" /\ charge[i].taken = 0 /\ i \in Installments
           /\ inst' = [inst EXCEPT ![i] = Returned(@)]
           /\ job' \in Jobs /\ job'.op = "return" /\ job'.at = place /\ job'.i = i
           /\ job'.left = left /\ job'.todo = {}
           /\ place = "forget" => i = Deposit /\ ~ (inst[i].out /\ Portion(inst[i]) > 0)
           /\ place = "reverse" => inst[i].out
           /\ job.op = "idle"
           /\ UNCHANGED <<booking, charge, refunds, sent, vendor, report>>
<1>1. PICK i \in ByBank :
       /\ inst[i].status = "PAID" /\ charge[i].taken = 0
       /\ inst' = [inst EXCEPT ![i] = Returned(@)]
       /\ LET part == Portion(inst[i])
              out == inst[i].out /\ part > 0
              next == IF out THEN "reverse" ELSE IF PaidEarly(i) THEN "forget" ELSE "close"
          IN job' = [Begin("return", next) EXCEPT
                       !.i = i, !.left = IF out THEN AfterCommission(part) ELSE 0,
                       !.other = EverPaid \ {i} # {}]
  BY DEF ReturnBegins
<1>2. i \in Installments
  BY KindsAssumption
<1>3. PICK part \in Nat : part = Portion(inst[i])
  BY <1>2, Known0, PortionIs
<1>4. AfterCommission(part) \in Nat
  <2>1. AfterCommission(part) \in 0..part
    BY Known0, AfterCommissionIs
  <2>2. QED BY <2>1
<1>5. PICK left \in Nat : left = IF inst[i].out /\ part > 0 THEN AfterCommission(part) ELSE 0
  BY <1>4
<1>6. PICK place \in {"reverse", "forget", "close"} :
      place = IF inst[i].out /\ part > 0 THEN "reverse" ELSE IF PaidEarly(i) THEN "forget" ELSE "close"
  OBVIOUS
<1>7. PICK other \in BOOLEAN : other = (EverPaid \ {i} # {})
  OBVIOUS
<1>8. job' = ForReturn(place, i, left, other)
  BY <1>1, <1>3, <1>5, <1>6, <1>7 DEF Begin, Idle, ForReturn
<1>9. /\ job' \in Jobs /\ job'.op = "return" /\ job'.at = place /\ job'.i = i
      /\ job'.left = left /\ job'.todo = {}
  BY <1>2, <1>8, ForReturnIs
<1>10. /\ place = "forget" => i = Deposit /\ ~ (inst[i].out /\ Portion(inst[i]) > 0)
       /\ place = "reverse" => inst[i].out
  BY <1>3, <1>6 DEF PaidEarly
<1>11. job.op = "idle" /\ UNCHANGED <<booking, charge, refunds, sent, vendor, report>>
  BY DEF ReturnBegins, Free
<1>12. QED BY <1>1, <1>2, <1>9, <1>10, <1>11

LEMMA ReturnBeginsInv ==
  ASSUME SettlementInv, ReturnBegins, UNCHANGED crashes
  PROVE  SettlementInv'
<1> PICK i \in ByBank, left \in Nat, place \in {"reverse", "forget", "close"} :
           /\ inst[i].status = "PAID" /\ charge[i].taken = 0 /\ i \in Installments
           /\ inst' = [inst EXCEPT ![i] = Returned(@)]
           /\ job' \in Jobs /\ job'.op = "return" /\ job'.at = place /\ job'.i = i
           /\ job'.left = left /\ job'.todo = {}
           /\ place = "forget" => i = Deposit /\ ~ (inst[i].out /\ Portion(inst[i]) > 0)
           /\ UNCHANGED <<booking, charge, refunds, sent, vendor, report>>
  BY ReturnBeginsIs
<1>1. JobFits'
  BY FS_EmptySet DEF JobFits, TodoFits, PayoutFits, EarlyFits, RefundFits, At
<1>2. booking' \in BookingRows /\ BookFits'
  BY Known0 DEF BookFits
<1> PICK row : row = Returned(inst[i])
  OBVIOUS
<1>3. /\ row \in Rows /\ row.refunded = 0 /\ row.amount - row.fee <= Part(i)
      /\ row.status \in {"FAILED", "CANCELLED"} /\ ~ row.out
  BY ReturnedIs
<1>4. row.refunded <= row.amount
  BY <1>3 DEF Rows
<1>5. inst' = [inst EXCEPT ![i] = row]
  OBVIOUS
<1>6. QED BY <1>1, <1>2, <1>3, <1>4, <1>5, RowAndBookingMove

\* Keys that Stripe forgets are of the same transfers.
LEMMA KeysExpireIs ==
  ASSUME SettlementInv, KeysExpire
  PROVE  SentFits' /\ SumFunction(Nets(sent')) = SumFunction(Nets(sent))
<1>1. sent \in Seq(Transfers) /\ SentFits /\ \A k \in DOMAIN sent : sent[k] \in Transfers
  BY Known0, SentKnown, NetsAre
<1>2. /\ DOMAIN sent' = DOMAIN sent /\ sent' = [k \in DOMAIN sent |-> sent'[k]]
      /\ \A k \in DOMAIN sent : sent'[k] = [sent[k] EXCEPT !.fresh = FALSE]
  BY DEF KeysExpire
<1>3. \A k \in DOMAIN sent : /\ sent'[k] \in Transfers /\ sent'[k].amount = sent[k].amount
                             /\ sent'[k].reversed = sent[k].reversed
  BY <1>1, <1>2 DEF Transfers
<1>4. sent' \in Seq(Transfers) /\ SumFunction(Nets(sent')) = SumFunction(Nets(sent))
  BY <1>1, <1>2, <1>3, NetsStay
<1>5. QED BY <1>1, <1>2, <1>3, <1>4 DEF SentFits

----------------------------------------------------------------------------
(* What takes no lock.                                                     *)

\* It leaves alone what the job under the lock has read.
LEMMA JobStays ==
  ASSUME SettlementInv, job' = job,
         booking'.released = booking.released, booking'.early = booking.early,
         booking.status = "COMPLETED" => booking'.status = "COMPLETED",
         Settled' => Settled,
         booking.dispute \in {"open", "refunded"} => booking'.dispute = booking.dispute,
         booking'.dispute = "refunded" => booking.dispute = "refunded",
         \A i \in EverPaid : inst'[i] = inst[i],
         \A i \in Installments : charge[i].bank = "lost" => charge'[i].bank = "lost"
  PROVE  JobFits'
<1>1. TodoFits'
  BY Known0 DEF TodoFits
<1>2. \A i \in NotOut(EverPaid) : i \in EverPaid
  BY DEF NotOut
<1>3. Visited' = Visited /\ PartsOf(Visited)' = PartsOf(Visited)
  BY DEF Visited, PartsOf
<1>4. Deposit \in EverPaid => Shrunk' = Shrunk
  BY DEF Shrunk
<1>5. Visited \subseteq NotOut(EverPaid) => Visited \subseteq NotOut(EverPaid)'
  BY DEF NotOut, EverPaid
<1>6. PayoutFits'
  BY <1>2, <1>3, <1>4, <1>5, Known0 DEF PayoutFits, At
<1>7. EarlyFits'
  <2>1. CASE job.op = "early"
    <3>1. Deposit \in Installments
      BY <2>1, Known0, KindsAssumption DEF EarlyFits
    <3>2. At("claim") => inst'[Deposit] = inst[Deposit]
      BY <2>1, <3>1, Known0 DEF EarlyFits, EverPaid
    <3>3. QED BY <2>1, <3>2, Known0 DEF EarlyFits, At
  <2>2. QED BY <2>1 DEF EarlyFits
<1>8. Current' = Current
  BY DEF Current, Precedes
<1>9. At("recordRefund") => Take' = Take
  <2>1. CASE At("recordRefund")
    <3>1. Current \in job.todo /\ This \in Installments
      BY <2>1, Known0, ThisIs DEF RefundFits
    <3>2. inst[This].status = "PAID"
      BY <2>1, <3>1, Known0 DEF RefundFits, At, This
    <3>3. inst'[This] = inst[This]
      BY <3>1, <3>2 DEF EverPaid
    <3>4. This' = This
      BY <1>8 DEF This
    <3>5. QED BY <3>3, <3>4 DEF Take, Refundable
  <2>2. QED BY <2>1
<1>10. \A v \in job.todo : v.i \in Installments
  BY Known0 DEF Jobs, Visits
<1>11. job.at \in {"refund", "recordRefund"} => \A v \in job.todo :
        v.was = "PAID" => inst'[v.i].status = "PAID"
  <2> SUFFICES ASSUME job.at \in {"refund", "recordRefund"}, NEW v \in job.todo, v.was = "PAID"
               PROVE  inst'[v.i].status = "PAID"
    OBVIOUS
  <2>1. inst[v.i].status = "PAID"
    BY Known0 DEF RefundFits
  <2>2. v.i \in EverPaid
    BY <1>10, <2>1 DEF EverPaid
  <2>3. QED BY <2>1, <2>2
<1>12. RefundFits'
  BY <1>8, <1>9, <1>11, Known0 DEF RefundFits, At, DisputeOpen
<1>13. QED BY <1>1, <1>6, <1>7, <1>12 DEF JobFits

\* Only the booking's row moves, or the report.
LEMMA BookingAloneMoves ==
  ASSUME SettlementInv, UNCHANGED <<inst, charge, refunds, sent, vendor, job, crashes>>,
         report' \in BOOLEAN, booking' \in BookingRows,
         booking'.released = booking.released, booking'.early = booking.early,
         booking'.gross = booking.gross, booking'.commission = booking.commission,
         booking.status = "COMPLETED" => booking'.status = "COMPLETED",
         Settled' => Settled,
         booking.dispute \in {"open", "refunded"} => booking'.dispute = booking.dispute,
         booking'.dispute = "refunded" => booking.dispute = "refunded"
  PROVE  SettlementInv'
<1>1. JobFits'
  BY JobStays
<1>2. RowsFit'
  BY Known0 DEF RowsFit, RowFits, ChargeFits
<1>3. BookFits'
  BY Known0 DEF BookFits
<1>4. TypeOK' /\ (sent \in Seq(Transfers))'
  BY Known0 DEF TypeOK
<1>5. QED BY <1>1, <1>2, <1>3, <1>4 DEF SettlementInv

LEMMA CheckReportInv ==
  ASSUME SettlementInv, CheckReport, UNCHANGED crashes
  PROVE  SettlementInv'
<1>1. report' \in BOOLEAN /\ UNCHANGED <<booking, inst, charge, refunds, sent, vendor, job, crashes>>
  BY DEF CheckReport
<1>2. Settled' => Settled
  BY <1>1 DEF Settled
<1>3. QED BY <1>1, <1>2, Known0, BookingAloneMoves

LEMMA OpenReportInv ==
  ASSUME SettlementInv, OpenReport, UNCHANGED crashes
  PROVE  SettlementInv'
<1>1. report' \in BOOLEAN /\ UNCHANGED <<inst, charge, refunds, sent, vendor, job, crashes>>
  BY DEF OpenReport
<1>2. CASE booking' = booking
  <2>1. Settled' => Settled
    BY <1>2 DEF Settled
  <2>2. QED BY <1>1, <1>2, <2>1, Known0, BookingAloneMoves
<1>3. CASE booking.dispute = "none" /\ booking' = [booking EXCEPT !.dispute = "open"]
  <2>1. /\ booking' \in BookingRows /\ booking'.released = booking.released
        /\ booking'.status = booking.status /\ booking'.early = booking.early
        /\ booking'.dispute = "open" /\ booking'.gross = booking.gross
        /\ booking'.commission = booking.commission
    BY <1>3, Known0 DEF BookingRows
  <2>2. Settled' => Settled
    BY <2>1 DEF Settled
  <2>3. QED BY <1>1, <1>3, <2>1, <2>2, BookingAloneMoves
<1>4. QED BY <1>2, <1>3 DEF OpenReport

LEMMA WorkInv ==
  ASSUME SettlementInv, Work, UNCHANGED crashes
  PROVE  SettlementInv'
<1>1. UNCHANGED <<inst, charge, refunds, sent, vendor, job, report, crashes>> /\ ~ Ended
  BY DEF Work
<1>2. PICK status \in {"IN_PROGRESS", "COMPLETED"} :
        booking.status # "COMPLETED" /\ booking' = [booking EXCEPT !.status = status]
  BY DEF Work
<1>3. /\ booking' \in BookingRows /\ booking'.released = booking.released
      /\ booking'.early = booking.early
      /\ booking'.dispute = booking.dispute /\ booking'.gross = booking.gross
      /\ booking'.commission = booking.commission
  BY <1>2, Known0 DEF BookingRows
<1>4. ~ booking.released
  BY <1>1, <1>2, Known0 DEF BookFits, Ended
<1>5. Settled' => Settled
  BY <1>3, <1>4 DEF Settled
<1>6. report' \in BOOLEAN
  BY <1>1, Known0 DEF TypeOK
<1>7. QED BY <1>1, <1>2, <1>3, <1>5, <1>6, BookingAloneMoves

LEMMA ReleaseTimeComesInv ==
  ASSUME SettlementInv, ReleaseTimeComes, UNCHANGED crashes
  PROVE  SettlementInv'
<1>1. UNCHANGED <<inst, charge, refunds, sent, vendor, job, report, crashes>>
      /\ booking' = [booking EXCEPT !.due = TRUE]
  BY DEF ReleaseTimeComes
<1>2. /\ booking' \in BookingRows /\ booking'.released = booking.released
      /\ booking'.status = booking.status /\ booking'.early = booking.early
      /\ booking'.dispute = booking.dispute /\ booking'.gross = booking.gross
      /\ booking'.commission = booking.commission
  BY <1>1, Known0 DEF BookingRows
<1>3. Settled' => Settled
  BY <1>2 DEF Settled
<1>4. report' \in BOOLEAN
  BY <1>1, Known0 DEF TypeOK
<1>5. QED BY <1>1, <1>2, <1>3, <1>4, BookingAloneMoves

LEMMA WithdrawInv ==
  ASSUME SettlementInv, Withdraw, UNCHANGED crashes
  PROVE  SettlementInv'
<1>1. UNCHANGED <<booking, inst, charge, refunds, sent, job, report, crashes>>
      /\ vendor' = [vendor EXCEPT !.balance = 0, !.withdrawn = @ + vendor.balance]
      /\ vendor.balance > 0
  BY DEF Withdraw
<1> PICK all \in Nat : all = vendor.withdrawn + vendor.balance
  BY <1>1, Known0
<1>2. vendor' = [vendor EXCEPT !.balance = 0, !.withdrawn = all]
  BY <1>1
<1>3. vendor' \in [balance : Int, opened : Balances, withdrawn : Nat, connected : BOOLEAN]
  <2>1. vendor \in [balance : Int, opened : Balances, withdrawn : Nat, connected : BOOLEAN]
    BY Known0
  <2>2. vendor' = [balance |-> 0, opened |-> vendor.opened, withdrawn |-> all,
                   connected |-> vendor.connected]
    BY <1>2, <2>1
  <2>3. vendor.opened \in Balances /\ vendor.connected \in BOOLEAN
    BY <2>1
  <2>4. QED BY <2>2, <2>3
<1>4. TypeOK' /\ (sent \in Seq(Transfers))'
  BY <1>1, <1>3, Known0 DEF TypeOK
<1>5. Settled' => Settled
  BY <1>1 DEF Settled
<1>6. JobFits'
  BY <1>1, <1>5, JobStays
<1>7. RowsFit' /\ BookFits'
  BY <1>1, Known0 DEF RowsFit, RowFits, ChargeFits, BookFits
<1>8. QED BY <1>4, <1>6, <1>7 DEF SettlementInv


\* One row and its charge move, as nothing that the job has read.
LEMMA PaymentMoves ==
  ASSUME SettlementInv, UNCHANGED <<refunds, vendor, job, report, crashes>>, SentFits',
         booking' \in BookingRows, booking'.released = booking.released,
         booking'.early = booking.early, booking'.status = booking.status,
         booking'.gross = booking.gross, booking'.commission = booking.commission,
         booking'.dispute = booking.dispute,
         NEW x \in Installments, NEW row \in Rows, inst' = [inst EXCEPT ![x] = row],
         NEW c \in Charges, charge' = [charge EXCEPT ![x] = c],
         x \in EverPaid => row = inst[x],
         charge[x].bank = "lost" => c.bank = "lost",
         row.refunded <= row.amount, row.amount = inst[x].amount, row.fee = inst[x].fee,
         row.out = inst[x].out,
         row.status \in {"SCHEDULED", "FAILED", "CLEARING"} => row.refunded = 0,
         row.status = "CLEARING" => x \in ByBank /\ row.amount > 0,
         c.back <= c.taken, c.bank # "none" => c.taken > 0 /\ x \notin ByBank,
         c.taken > 0 /\ x \notin ByBank => row.status \in {"PAID", "REFUNDED", "CANCELLED"}
  PROVE  SettlementInv'
<1>1. inst' \in [Installments -> Rows] /\ inst'[x] = row
      /\ \A i \in Installments \ {x} : inst'[i] = inst[i]
  BY Known0
<1>2. charge' \in [Installments -> Charges] /\ charge'[x] = c
      /\ \A i \in Installments \ {x} : charge'[i] = charge[i]
  BY Known0
<1>3. TypeOK' /\ (sent \in Seq(Transfers))'
  <2>1. sent' \in Seq(Transfers) /\ \A k \in DOMAIN sent' : sent'[k].reversed <= sent'[k].amount
    BY DEF SentFits
  <2>2. \A k \in DOMAIN sent' : sent'[k] \in Transfers
    BY <2>1, NetsAre
  <2>3. QED BY <1>1, <1>2, <2>1, <2>2, Known0 DEF TypeOK
<1>4. BookFits'
  BY Known0 DEF BookFits
<1>5. RowsFit'
  <2> SUFFICES ASSUME NEW i \in Installments
               PROVE  RowFits(i)' /\ ChargeFits(i)'
    BY DEF RowsFit
  <2>1. RowFits(i) /\ ChargeFits(i)
    BY Known0 DEF RowsFit
  <2>2. CASE i # x
    BY <1>1, <1>2, <2>1, <2>2 DEF RowFits, ChargeFits
  <2>3. CASE i = x
    <3>1. RowFits(i)'
      BY <1>1, <2>1, <2>3 DEF RowFits, EverPaid
    <3>2. ChargeFits(i)'
      BY <1>1, <1>2, <2>3 DEF ChargeFits
    <3>3. QED BY <3>1, <3>2
  <2>4. QED BY <2>2, <2>3
<1>6. Settled' => Settled
  BY DEF Settled
<1>7. \A i \in EverPaid : inst'[i] = inst[i]
  BY <1>1 DEF EverPaid
<1>8. \A i \in Installments : charge[i].bank = "lost" => charge'[i].bank = "lost"
  BY <1>2
<1>9. JobFits'
  BY <1>6, <1>7, <1>8, JobStays
<1>10. QED BY <1>3, <1>4, <1>5, <1>9 DEF SettlementInv

\* The row as it is, in the words of PaymentMoves.
LEMMA SameRow ==
  ASSUME SettlementInv, NEW i \in Installments
  PROVE  inst = [inst EXCEPT ![i] = inst[i]] /\ charge = [charge EXCEPT ![i] = charge[i]]
  BY Known0

LEMMA ChargebackOpenedInv ==
  ASSUME SettlementInv, UNCHANGED crashes, NEW i \in Installments, ChargebackOpened(i)
  PROVE  SettlementInv'
<1>1. /\ i \notin ByBank /\ charge[i].bank = "none" /\ charge[i].taken > charge[i].back
      /\ charge' = [charge EXCEPT ![i].bank = "open"]
      /\ UNCHANGED <<booking, inst, refunds, sent, vendor, job, report>>
  BY KindsAssumption DEF ChargebackOpened
<1>2. charge[i] \in Charges /\ inst[i] \in Rows /\ RowFits(i) /\ ChargeFits(i)
  BY Known0 DEF RowsFit
<1> PICK c : c = [charge[i] EXCEPT !.bank = "open"]
  OBVIOUS
<1>3. c \in Charges /\ c.taken = charge[i].taken /\ c.back = charge[i].back /\ c.bank = "open"
  BY <1>2 DEF Charges
<1>4. charge' = [charge EXCEPT ![i] = c] /\ inst' = [inst EXCEPT ![i] = inst[i]]
  BY <1>1, SameRow
<1>5. c.taken > 0
  BY <1>1, <1>2, <1>3 DEF Charges
<1>6. SentFits'
  BY <1>1, SentKnown DEF SentFits
<1>7. QED BY <1>1, <1>2, <1>3, <1>4, <1>5, <1>6, Known0, PaymentMoves DEF RowFits, ChargeFits

LEMMA ChargebackWonInv ==
  ASSUME SettlementInv, UNCHANGED crashes, NEW i \in Installments, ChargebackWon(i)
  PROVE  SettlementInv'
<1>1. /\ charge[i].bank = "open" /\ charge' = [charge EXCEPT ![i].bank = "won"]
      /\ UNCHANGED <<booking, inst, refunds, sent, vendor, job, report>>
  BY DEF ChargebackWon
<1>2. charge[i] \in Charges /\ inst[i] \in Rows /\ RowFits(i) /\ ChargeFits(i)
  BY Known0 DEF RowsFit
<1> PICK c : c = [charge[i] EXCEPT !.bank = "won"]
  OBVIOUS
<1>3. c \in Charges /\ c.taken = charge[i].taken /\ c.back = charge[i].back /\ c.bank = "won"
  BY <1>2 DEF Charges
<1>4. charge' = [charge EXCEPT ![i] = c] /\ inst' = [inst EXCEPT ![i] = inst[i]]
  BY <1>1, SameRow
<1>5. SentFits'
  BY <1>1, SentKnown DEF SentFits
<1>6. QED BY <1>1, <1>2, <1>3, <1>4, <1>5, Known0, PaymentMoves DEF RowFits, ChargeFits

LEMMA BankReturnsInv ==
  ASSUME SettlementInv, UNCHANGED crashes, NEW i \in Installments, BankReturns(i)
  PROVE  SettlementInv'
<1>1. /\ i \in ByBank /\ inst[i].status = "PAID" /\ charge[i].returned < MaxReturns /\ KeysExpire
      /\ charge' = [charge EXCEPT ![i].taken = 0, ![i].back = 0, ![i].returned = @ + 1]
      /\ UNCHANGED <<booking, inst, refunds, vendor, job, report>>
  BY DEF BankReturns
<1>2. charge[i] \in Charges /\ inst[i] \in Rows /\ RowFits(i) /\ ChargeFits(i)
  BY Known0 DEF RowsFit
<1> PICK n \in 0..MaxReturns : n = charge[i].returned + 1
  BY <1>1, <1>2, MoneyAssumption DEF Charges
<1> PICK c : c = [charge[i] EXCEPT !.taken = 0, !.back = 0, !.returned = n]
  OBVIOUS
<1>3. c \in Charges /\ c.taken = 0 /\ c.back = 0 /\ c.bank = charge[i].bank /\ c.returned = n
  BY <1>2 DEF Charges
<1>4. charge' = [charge EXCEPT ![i] = c] /\ inst' = [inst EXCEPT ![i] = inst[i]]
  BY <1>1, SameRow
<1>5. c.bank = "none"
  BY <1>1, <1>2, <1>3 DEF ChargeFits
<1>6. SentFits'
  BY <1>1, KeysExpireIs
<1>7. inst[i].refunded <= inst[i].amount
  BY <1>2 DEF RowFits
<1>8. /\ UNCHANGED <<booking, refunds, vendor, job, report, crashes>> /\ booking \in BookingRows
      /\ c.back <= c.taken /\ ~ (c.taken > 0) /\ charge[i].bank = "none"
      /\ inst[i].status = "PAID"
  BY <1>1, <1>3, <1>5, Known0
<1>9. QED BY <1>2, <1>3, <1>4, <1>5, <1>6, <1>7, <1>8, PaymentMoves

LEMMA LandIs ==
  ASSUME SettlementInv, UNCHANGED <<refunds, vendor, job, report, crashes>>, SentFits',
         NEW i \in Installments, Land(i), charge[i].bank # "lost",
         inst[i].status \in {"SCHEDULED", "FAILED", "CLEARING"}, inst[i].amount > 0
  PROVE  SettlementInv'
<1>1. charge[i] \in Charges /\ inst[i] \in Rows /\ RowFits(i) /\ ChargeFits(i)
  BY Known0 DEF RowsFit
<1> PICK row : row = [inst[i] EXCEPT !.status = "PAID"]
  OBVIOUS
<1>2. row \in Rows /\ row.amount = inst[i].amount /\ row.fee = inst[i].fee
      /\ row.refunded = inst[i].refunded /\ row.out = inst[i].out /\ row.status = "PAID"
  BY <1>1 DEF Rows, Statuses
<1> PICK amount \in Nat : amount = inst[i].amount
  BY <1>1 DEF Rows
<1> PICK c : c = [charge[i] EXCEPT !.taken = amount, !.back = 0]
  OBVIOUS
<1>3. c \in Charges /\ c.taken = amount /\ c.back = 0 /\ c.bank = charge[i].bank
  BY <1>1 DEF Charges
<1>4. charge' = [charge EXCEPT ![i] = c] /\ inst' = [inst EXCEPT ![i] = row]
  BY DEF Land
<1>5. /\ booking' \in BookingRows /\ booking'.released = booking.released
      /\ booking'.status = booking.status /\ booking'.early = booking.early
      /\ booking'.dispute = booking.dispute /\ booking'.gross = booking.gross
      /\ booking'.commission = booking.commission
  BY Known0 DEF Land, BookingRows
<1>6. row.refunded <= row.amount /\ c.back <= c.taken /\ i \notin EverPaid
  BY <1>1, <1>2, <1>3 DEF RowFits, EverPaid
<1>7. (c.bank # "none" => c.taken > 0 /\ i \notin ByBank)
  BY <1>1, <1>3 DEF ChargeFits
<1>8. QED BY <1>2, <1>3, <1>4, <1>5, <1>6, <1>7, PaymentMoves

\* A charge that is not taken yet is in no dispute at the bank.
LEMMA NotTaken ==
  ASSUME SettlementInv, NEW i \in Installments,
         inst[i].status \in {"SCHEDULED", "FAILED", "CLEARING"}
  PROVE  charge[i].bank = "none" /\ (charge[i].taken > 0 => i \in ByBank)
         /\ charge[i] \in Charges /\ inst[i] \in Rows /\ inst[i].refunded = 0 /\ ~ inst[i].out
         /\ charge[i].back <= charge[i].taken /\ i \notin EverPaid
<1>1. charge[i] \in Charges /\ inst[i] \in Rows /\ RowFits(i) /\ ChargeFits(i)
  BY Known0 DEF RowsFit
<1>2. QED BY <1>1 DEF RowFits, ChargeFits, EverPaid

LEMMA CardPaysInv ==
  ASSUME SettlementInv, UNCHANGED crashes, NEW i \in Installments, CardPays(i)
  PROVE  SettlementInv'
<1>1. /\ inst[i].status \in {"SCHEDULED", "FAILED"} /\ inst[i].amount > 0 /\ Land(i)
      /\ UNCHANGED <<refunds, sent, vendor, job, report>>
  BY DEF CardPays, Chargeable
<1>2. charge[i].bank # "lost"
  BY <1>1, NotTaken
<1>3. SentFits'
  BY <1>1, SentKnown DEF SentFits
<1>4. QED BY <1>1, <1>2, <1>3, LandIs

\* Only a row that is not paid moves.
LEMMA UnpaidMoves ==
  ASSUME SettlementInv, UNCHANGED <<booking, charge, refunds, sent, vendor, job, report, crashes>>,
         NEW i \in Installments, inst[i].status \in {"SCHEDULED", "FAILED", "CLEARING"},
         NEW status \in Statuses, inst' = [inst EXCEPT ![i].status = status],
         status = "CLEARING" => inst[i].amount > 0,
         i \in ByBank
  PROVE  SettlementInv'
<1>1. /\ charge[i].bank = "none" /\ charge[i] \in Charges /\ inst[i] \in Rows
      /\ inst[i].refunded = 0 /\ ~ inst[i].out /\ charge[i].back <= charge[i].taken
      /\ i \notin EverPaid
  BY NotTaken
<1> PICK row : row = [inst[i] EXCEPT !.status = status]
  OBVIOUS
<1>2. row \in Rows /\ row.amount = inst[i].amount /\ row.fee = inst[i].fee
      /\ row.refunded = 0 /\ row.out = inst[i].out /\ row.status = status
  BY <1>1 DEF Rows, Statuses
<1>3. charge' = [charge EXCEPT ![i] = charge[i]] /\ inst' = [inst EXCEPT ![i] = row]
  BY SameRow
<1>4. row.refunded <= row.amount
  BY <1>2 DEF Rows
<1>5. SentFits'
  BY SentKnown DEF SentFits
<1>6. QED BY <1>1, <1>2, <1>3, <1>4, <1>5, Known0, PaymentMoves

LEMMA BankPaysInv ==
  ASSUME SettlementInv, UNCHANGED crashes, NEW i \in Installments, BankPays(i)
  PROVE  SettlementInv'
<1>1. /\ inst[i].status \in {"SCHEDULED", "FAILED"} /\ inst[i].amount > 0 /\ i \in ByBank
      /\ inst' = [inst EXCEPT ![i].status = "CLEARING"]
      /\ UNCHANGED <<booking, charge, refunds, sent, vendor, job, report>>
  BY DEF BankPays, Chargeable
<1>2. "CLEARING" \in Statuses
  BY DEF Statuses
<1>3. QED BY <1>1, <1>2, UnpaidMoves

LEMMA ClearingFailsInv ==
  ASSUME SettlementInv, UNCHANGED crashes, NEW i \in Installments, ClearingFails(i)
  PROVE  SettlementInv'
<1>1. PICK status \in {"CANCELLED", "FAILED"} : inst' = [inst EXCEPT ![i].status = status]
  BY DEF ClearingFails
<1>2. inst[i].status = "CLEARING" /\ i \in ByBank
      /\ UNCHANGED <<booking, charge, refunds, sent, vendor, job, report>>
  BY Known0 DEF ClearingFails, RowsFit, RowFits
<1>3. status \in Statuses /\ status # "CLEARING"
  BY DEF Statuses
<1>4. QED BY <1>1, <1>2, <1>3, UnpaidMoves

LEMMA ClearsInv ==
  ASSUME SettlementInv, UNCHANGED crashes, NEW i \in Installments, Clears(i)
  PROVE  SettlementInv'
<1>1. inst[i].status = "CLEARING" /\ KeysExpire /\ UNCHANGED <<refunds, vendor, job, report>>
  BY DEF Clears
<1>2. SentFits'
  BY <1>1, KeysExpireIs
<1>3. i \in ByBank /\ inst[i].amount > 0
  BY <1>1, Known0 DEF RowsFit, RowFits
<1>4. /\ charge[i].bank = "none" /\ charge[i] \in Charges /\ inst[i] \in Rows
      /\ inst[i].refunded = 0 /\ ~ inst[i].out /\ i \notin EverPaid
  BY <1>1, NotTaken
<1>5. CASE ~ Ended
  <2>1. Land(i) /\ charge[i].bank # "lost"
    BY <1>4, <1>5 DEF Clears
  <2>2. QED BY <1>1, <1>2, <1>3, <2>1, LandIs
<1>6. CASE Ended
  <2> PICK amount \in Nat : amount = inst[i].amount
    BY <1>4 DEF Rows
  <2> PICK row : row = [inst[i] EXCEPT !.status = "REFUNDED", !.refunded = amount]
    OBVIOUS
  <2>1. row \in Rows /\ row.amount = amount /\ row.fee = inst[i].fee
        /\ row.refunded = amount /\ row.out = inst[i].out /\ row.status = "REFUNDED"
    BY <1>4 DEF Rows, Statuses
  <2> PICK c : c = [charge[i] EXCEPT !.taken = amount, !.back = amount]
    OBVIOUS
  <2>2. c \in Charges /\ c.taken = amount /\ c.back = amount /\ c.bank = charge[i].bank
    BY <1>4 DEF Charges
  <2>3. charge' = [charge EXCEPT ![i] = c] /\ inst' = [inst EXCEPT ![i] = row]
        /\ booking' = [booking EXCEPT !.paid = TRUE]
    BY <1>6 DEF Clears
  <2>4. /\ booking' \in BookingRows /\ booking'.released = booking.released
        /\ booking'.status = booking.status /\ booking'.early = booking.early
        /\ booking'.dispute = booking.dispute /\ booking'.gross = booking.gross
        /\ booking'.commission = booking.commission
    BY <2>3, Known0 DEF BookingRows
  <2>5. row.refunded <= row.amount /\ c.back <= c.taken
    BY <2>1, <2>2
  <2>6. QED BY <1>1, <1>2, <1>3, <1>4, <2>1, <2>2, <2>3, <2>4, <2>5, PaymentMoves
<1>7. QED BY <1>5, <1>6

----------------------------------------------------------------------------
(* Lost bank disputes, and servers that stop.                              *)

ForLoss(i, left) ==
  [op |-> "lost", at |-> "apply", i |-> i, left |-> left, todo |-> {}, paidOut |-> 0,
   gross |-> 0, share |-> 0, owed |-> 0, other |-> FALSE, deed |-> "none"]

LEMMA ForLossIs ==
  ASSUME NEW i \in Installments, NEW left \in Int
  PROVE  /\ ForLoss(i, left) \in Jobs
         /\ ForLoss(i, left).op = "lost"
         /\ ForLoss(i, left).at = "apply"
         /\ ForLoss(i, left).i = i
         /\ ForLoss(i, left).left = left
         /\ ForLoss(i, left).todo = {}
  BY DEF Jobs, Ops, Places, Deeds, ForLoss

LEMMA ChargebackLostIs ==
  ASSUME SettlementInv, ChargebackLost
  PROVE  \E i \in Installments, c \in Charges :
           /\ charge[i].bank = "open" /\ c.bank = "lost" /\ c.taken = charge[i].taken
           /\ c.back = charge[i].taken /\ c.returned = charge[i].returned
           /\ charge' = [charge EXCEPT ![i] = c]
           /\ job' \in Jobs /\ job'.op = "lost" /\ job'.at = "apply" /\ job'.i = i
           /\ job'.left >= 0 /\ job'.todo = {} /\ job.op = "idle"
           /\ UNCHANGED <<booking, inst, refunds, sent, vendor, report>>
<1>1. PICK i \in Installments :
       /\ charge[i].bank = "open"
       /\ charge' = [charge EXCEPT ![i].bank = "lost", ![i].back = charge[i].taken]
       /\ job' = [Begin("lost", "apply") EXCEPT
                    !.i = i, !.left = charge[i].taken - charge[i].back]
  BY DEF ChargebackLost
<1>2. charge[i] \in Charges /\ charge[i].back <= charge[i].taken
  BY Known0 DEF RowsFit, ChargeFits
<1>3. PICK left \in Int : left = charge[i].taken - charge[i].back
  BY <1>2 DEF Charges
<1>4. left >= 0
  BY <1>2, <1>3 DEF Charges
<1>5. job' = ForLoss(i, left)
  BY <1>1, <1>3 DEF Begin, Idle, ForLoss
<1>6. PICK c : c = [charge[i] EXCEPT !.bank = "lost", !.back = charge[i].taken]
  OBVIOUS
<1>7. c \in Charges /\ c.bank = "lost" /\ c.taken = charge[i].taken
      /\ c.back = charge[i].taken /\ c.returned = charge[i].returned
  BY <1>2, <1>6 DEF Charges
<1>8. charge' = [charge EXCEPT ![i] = c]
  BY <1>1, <1>6
<1>9. /\ job' \in Jobs /\ job'.op = "lost" /\ job'.at = "apply" /\ job'.i = i
      /\ job'.left = left /\ job'.todo = {}
  BY <1>5, ForLossIs
<1>10. job.op = "idle" /\ UNCHANGED <<booking, inst, refunds, sent, vendor, report>>
  BY DEF ChargebackLost, Free
<1>11. QED BY <1>1, <1>4, <1>7, <1>8, <1>9, <1>10

LEMMA ChargebackLostInv ==
  ASSUME SettlementInv, ChargebackLost, UNCHANGED crashes
  PROVE  SettlementInv'
<1>1. PICK i \in Installments, c \in Charges :
        /\ charge[i].bank = "open" /\ c.bank = "lost" /\ c.taken = charge[i].taken
        /\ c.back = charge[i].taken
        /\ charge' = [charge EXCEPT ![i] = c]
        /\ job' \in Jobs /\ job'.op = "lost" /\ job'.at = "apply" /\ job'.i = i
        /\ job'.left >= 0 /\ job'.todo = {}
        /\ UNCHANGED <<booking, inst, refunds, sent, vendor, report>>
  BY ChargebackLostIs
<1>2. charge' \in [Installments -> Charges] /\ charge'[i] = c
      /\ \A j \in Installments \ {i} : charge'[j] = charge[j]
  BY <1>1, Known0
<1>3. JobFits'
  <2>1. charge'[job'.i].bank = "lost" /\ job'.i \in Installments
    BY <1>1, <1>2
  <2>2. TodoFits' /\ PayoutFits' /\ EarlyFits'
    BY <1>1, FS_EmptySet DEF TodoFits, PayoutFits, EarlyFits, At
  <2>3. RefundFits'
    BY <1>1, <2>1 DEF RefundFits, At
  <2>4. QED BY <2>2, <2>3 DEF JobFits
<1>4. RowsFit'
  <2> SUFFICES ASSUME NEW j \in Installments
               PROVE  RowFits(j)' /\ ChargeFits(j)'
    BY DEF RowsFit
  <2>1. RowFits(j) /\ ChargeFits(j) /\ charge[j] \in Charges
    BY Known0 DEF RowsFit
  <2>2. RowFits(j)'
    BY <1>1, <2>1 DEF RowFits
  <2>3. CASE j # i
    BY <1>1, <1>2, <2>1, <2>2, <2>3 DEF ChargeFits
  <2>4. CASE j = i
    <3>1. c.back <= c.taken
      BY <1>1 DEF Charges
    <3>2. ChargeFits(j)'
      BY <1>1, <1>2, <2>1, <2>4, <3>1 DEF ChargeFits
    <3>3. QED BY <2>2, <3>2
  <2>5. QED BY <2>3, <2>4
<1>5. TypeOK' /\ (sent \in Seq(Transfers))' /\ BookFits'
  BY <1>1, <1>2, Known0 DEF TypeOK, BookFits
<1>6. QED BY <1>3, <1>4, <1>5 DEF SettlementInv

\* A lost dispute takes the payment's row down, never below nothing.
LEMMA AfterLossIs ==
  ASSUME SettlementInv, At("apply")
  PROVE  /\ job.op = "lost" /\ job.i \in Installments /\ inst[job.i] \in Rows
         /\ LostTake \in Nat /\ AfterLoss \in Rows
         /\ AfterLoss.refunded = inst[job.i].refunded + LostTake
         /\ AfterLoss.refunded <= AfterLoss.amount
         /\ AfterLoss.amount = inst[job.i].amount /\ AfterLoss.fee = inst[job.i].fee
         /\ AfterLoss.status = inst[job.i].status /\ AfterLoss.out = inst[job.i].out
         /\ PartLost \in Nat
         /\ Portion(AfterLoss) = Portion(inst[job.i]) - PartLost
<1>1. job.op = "lost" /\ job.i \in Installments /\ job.left \in Int /\ job.left >= 0
  BY Known0 DEF RefundFits
<1>2. PICK i \in Installments : i = job.i
  BY <1>1
<1>3. inst[i] \in Rows /\ inst[i].refunded <= inst[i].amount
  BY <1>2, Known0 DEF RowsFit, RowFits
<1>4. LostTake \in Nat /\ LostTake <= inst[i].amount - inst[i].refunded
  BY <1>1, <1>2, <1>3 DEF LostTake, Smaller, Kept, Rows
<1>5. PICK take \in Nat : take = LostTake
  BY <1>4
<1>6. AfterLoss = [inst[i] EXCEPT !.refunded = @ + take]
  BY <1>2, <1>5 DEF AfterLoss
<1>7. AfterLoss \in Rows /\ AfterLoss.refunded = inst[i].refunded + take
      /\ AfterLoss.amount = inst[i].amount /\ AfterLoss.fee = inst[i].fee
      /\ AfterLoss.status = inst[i].status /\ AfterLoss.out = inst[i].out
  BY <1>3, <1>6 DEF Rows
<1>8. AfterLoss.refunded <= AfterLoss.amount
  BY <1>3, <1>4, <1>5, <1>7 DEF Rows
<1>9. Portion(inst[i]) \in Nat /\ Portion(AfterLoss) \in Nat
      /\ Portion(AfterLoss) <= Portion(inst[i])
  BY <1>3, <1>7 DEF Portion, AtLeast0, Rows
<1>10. PartLost = Portion(inst[i]) - Portion(AfterLoss)
  BY <1>2 DEF PartLost
<1> HIDE DEF AfterLoss, PartLost, LostTake
<1>11. PartLost \in Nat /\ Portion(AfterLoss) = Portion(inst[i]) - PartLost
  BY <1>9, <1>10
<1>12. QED BY <1>1, <1>2, <1>3, <1>4, <1>5, <1>7, <1>8, <1>11

\* What is lost of a payment not paid out comes off the deposit released early.
LEMMA ApplyLossIs ==
  ASSUME SettlementInv, ApplyLoss
  PROVE  /\ At("apply") /\ inst' = [inst EXCEPT ![job.i] = AfterLoss]
         /\ \E early \in Nat, amount \in Int :
              /\ TakeBack(amount) /\ early <= booking.early /\ early <= PartLost
              /\ early > 0 => PaidEarly(job.i)
              /\ inst[job.i].out => early = 0
              /\ ~ inst[job.i].out /\ early < PartLost =>
                   ~ PaidEarly(job.i) \/ early = booking.early
              /\ booking' \in BookingRows /\ booking'.released = booking.released
              /\ booking'.status = booking.status /\ booking'.early = booking.early - early
              /\ booking'.dispute = booking.dispute /\ booking'.gross = booking.gross
              /\ booking'.commission = booking.commission
         /\ UNCHANGED <<charge, refunds, sent, vendor, report>>
<1>1. At("apply") /\ inst' = [inst EXCEPT ![job.i] = AfterLoss]
      /\ UNCHANGED <<charge, refunds, sent, vendor, report>>
  BY DEF ApplyLoss
<1>2. PartLost \in Nat
  BY <1>1, AfterLossIs
<1>3. booking \in BookingRows /\ booking.early \in Int /\ booking.early >= 0
  BY Known0 DEF BookFits, BookingRows
<1>4. CASE inst[job.i].out
  <2>1. TakeBack(AfterCommission(PartLost)) /\ booking' = booking
    BY <1>4 DEF ApplyLoss
  <2>2. AfterCommission(PartLost) \in Int
    <3>1. AfterCommission(PartLost) \in 0..PartLost
      BY <1>2, Known0, AfterCommissionIs
    <3>2. QED BY <1>2, <3>1
  <2>3. PICK amount \in Int : amount = AfterCommission(PartLost)
    BY <2>2
  <2>4. TakeBack(amount)
    BY <2>1, <2>3
  <2>5. booking'.early = booking.early - 0 /\ 0 <= booking.early /\ 0 <= PartLost
    BY <1>2, <1>3, <2>1
  <2>6. QED BY <1>1, <1>3, <1>4, <2>1, <2>4, <2>5
<1>5. CASE ~ inst[job.i].out
  <2>1. PICK early : /\ early = IF PaidEarly(job.i) THEN Smaller(PartLost, booking.early) ELSE 0
                     /\ booking' = [booking EXCEPT !.early = @ - early]
                     /\ TakeBack(early)
    BY <1>5 DEF ApplyLoss
  <2>2. /\ early \in Nat /\ early <= booking.early /\ early <= PartLost
        /\ early > 0 => PaidEarly(job.i)
        /\ early < PartLost => ~ PaidEarly(job.i) \/ early = booking.early
    BY <1>2, <1>3, <2>1 DEF Smaller
  <2>3. PICK rest \in Int : rest = booking.early - early
    BY <1>3, <2>2
  <2>4. booking' = [booking EXCEPT !.early = rest]
    BY <2>1, <2>3
  <2>5. /\ booking' \in BookingRows /\ booking'.released = booking.released
        /\ booking'.status = booking.status /\ booking'.early = rest
        /\ booking'.dispute = booking.dispute /\ booking'.gross = booking.gross
        /\ booking'.commission = booking.commission
    BY <1>3, <2>4 DEF BookingRows
  <2>6. early \in Int
    BY <2>2
  <2>7. QED BY <1>1, <1>5, <2>1, <2>2, <2>3, <2>5, <2>6
<1>6. QED BY <1>4, <1>5

LEMMA ApplyLossInv ==
  ASSUME SettlementInv, ApplyLoss, UNCHANGED crashes
  PROVE  SettlementInv'
<1>1. At("apply") /\ inst' = [inst EXCEPT ![job.i] = AfterLoss]
      /\ UNCHANGED <<charge, refunds, sent, vendor, report>>
  BY ApplyLossIs
<1>2. PICK early \in Nat, amount \in Int :
        /\ TakeBack(amount) /\ early <= booking.early
        /\ booking' \in BookingRows /\ booking'.released = booking.released
        /\ booking'.status = booking.status /\ booking'.early = booking.early - early
        /\ booking'.dispute = booking.dispute /\ booking'.gross = booking.gross
        /\ booking'.commission = booking.commission
  BY ApplyLossIs
<1>3. PICK i \in Installments : i = job.i
  BY <1>1, AfterLossIs
<1>4. PICK row \in Rows : row = AfterLoss
  BY <1>1, AfterLossIs
<1>5. /\ job.op = "lost" /\ row.refunded <= row.amount /\ row.amount = inst[i].amount
      /\ row.fee = inst[i].fee /\ row.status = inst[i].status /\ row.out = inst[i].out
      /\ inst[i] \in Rows
  BY <1>1, <1>3, <1>4, AfterLossIs
<1>6. inst' = [inst EXCEPT ![i] = row]
  BY <1>1, <1>3, <1>4
<1>7. job' \in Jobs /\ JobFits'
  BY <1>2, <1>5, TakeBackIs
<1>8. booking.early \in Int /\ booking'.early >= 0
  BY <1>2, Known0 DEF BookingRows
<1>9. BookFits'
  BY <1>2, <1>8, Known0 DEF BookFits
<1>10. RowFits(i) /\ ChargeFits(i) /\ charge[i].bank = "lost"
  BY <1>1, <1>3, Known0 DEF RowsFit, RefundFits
<1>11. inst[i].status \in {"PAID", "REFUNDED", "CANCELLED"}
  BY <1>10 DEF ChargeFits
<1>12. row.amount - row.fee <= Part(i)
  BY <1>5, <1>10 DEF RowFits
<1>13. row.out => row.status \in {"PAID", "REFUNDED"}
  BY <1>5, <1>10 DEF RowFits
<1>14. row.status \notin {"SCHEDULED", "FAILED", "CLEARING"}
  BY <1>5, <1>11
<1>15. QED BY <1>1, <1>2, <1>5, <1>6, <1>7, <1>9, <1>11, <1>12, <1>13, <1>14, RowAndBookingMove

LEMMA CrashInv ==
  ASSUME SettlementInv, Crash
  PROVE  SettlementInv'
<1>1. job' = Idle /\ crashes < MaxCrashes /\ crashes' = crashes + 1
      /\ UNCHANGED <<booking, inst, charge, refunds, sent, vendor, report>>
  BY DEF Crash, Done
<1>2. crashes' \in 0..MaxCrashes
  BY <1>1, Known0, KindsAssumption DEF TypeOK
<1>3. job' \in Jobs /\ JobFits'
  BY <1>1, IdleFits
<1>4. TypeOK' /\ (sent \in Seq(Transfers))'
  BY <1>1, <1>2, <1>3, Known0 DEF TypeOK
<1>5. RowsFit' /\ BookFits'
  BY <1>1, Known0 DEF RowsFit, RowFits, ChargeFits, BookFits
<1>6. QED BY <1>3, <1>4, <1>5 DEF SettlementInv

----------------------------------------------------------------------------
(* The types.                                                              *)

LEMMA SettlementInit == Init => SettlementInv
<1> SUFFICES ASSUME Init PROVE SettlementInv
  OBVIOUS
<1>1. /\ booking = [status |-> "CONFIRMED", paid |-> PaidAtFirst # {}, due |-> FALSE,
                    released |-> FALSE, gross |-> 0, commission |-> 0, early |-> 0,
                    dispute |-> "none"]
      /\ refunds = {} /\ sent = <<>> /\ job = Idle /\ report = FALSE /\ crashes = 0
  BY DEF Init
<1>2. booking \in BookingRows /\ BookFits
  <2>1. PICK paid \in BOOLEAN : paid = (PaidAtFirst # {})
    OBVIOUS
  <2>2. booking = [status |-> "CONFIRMED", paid |-> paid, due |-> FALSE,
                    released |-> FALSE, gross |-> 0, commission |-> 0, early |-> 0,
                    dispute |-> "none"]
    BY <1>1, <2>1
  <2>3. QED BY <2>2 DEF BookingRows, BookFits
<1>3. \A i \in Installments : /\ Price[i] \in Nat /\ Price[i] > 0 /\ Fee[i] \in Nat
                              /\ Fee[i] < Price[i]
  BY MoneyAssumption
<1>4. inst = [i \in Installments |->
       [status |-> IF i \in PaidAtFirst THEN "PAID" ELSE "SCHEDULED",
        amount |-> Price[i], fee |-> Fee[i], refunded |-> 0, out |-> FALSE]]
  BY DEF Init
<1>5. charge = [i \in Installments |->
       [taken |-> IF i \in PaidAtFirst THEN Price[i] ELSE 0, back |-> 0,
        bank |-> "none", returned |-> 0]]
  BY DEF Init
<1>6. inst \in [Installments -> Rows]
  BY <1>3, <1>4 DEF Rows, Statuses
<1>7. charge \in [Installments -> Charges]
  BY <1>3, <1>5, MoneyAssumption DEF Charges
<1>8. RowsFit
  <2> SUFFICES ASSUME NEW i \in Installments
               PROVE  RowFits(i) /\ ChargeFits(i)
    BY DEF RowsFit
  <2>1. RowFits(i)
    BY <1>3, <1>4 DEF RowFits, Part
  <2>2. ChargeFits(i)
    BY <1>3, <1>4, <1>5 DEF ChargeFits
  <2>3. QED BY <2>1, <2>2
<1>9. job \in Jobs /\ JobFits
  <2>1. IsFiniteSet(Idle.todo)
    BY FS_EmptySet DEF Idle
  <2>2. QED
    BY <1>1, <2>1, IdleIs DEF JobFits, TodoFits, PayoutFits, EarlyFits, RefundFits, At, Idle
<1>10. vendor \in [balance : Int, opened : Balances, withdrawn : Nat, connected : BOOLEAN]
  <2>1. PICK b \in Balances, connected \in BOOLEAN :
          vendor = [balance |-> b, opened |-> b, withdrawn |-> 0, connected |-> connected]
    BY DEF Init
  <2>2. b \in Int
    BY MoneyAssumption
  <2>3. QED BY <2>1, <2>2
<1>11. sent \in Seq(Transfers) /\ DOMAIN sent = {}
  BY <1>1, EmptySeq
<1>12. crashes \in 0..MaxCrashes
  BY <1>1, KindsAssumption
<1>13. TypeOK
  BY <1>1, <1>2, <1>6, <1>7, <1>9, <1>10, <1>11, <1>12 DEF TypeOK
<1>14. QED BY <1>2, <1>8, <1>9, <1>11, <1>13 DEF SettlementInv

LEMMA SettlementStutter == ASSUME SettlementInv, UNCHANGED vars PROVE SettlementInv'
<1>1. UNCHANGED <<booking, inst, charge, refunds, sent, vendor, report, crashes>> /\ job' = job
  BY DEF vars
<1>2. Settled' => Settled
  BY <1>1 DEF Settled
<1>3. JobFits'
  BY <1>1, <1>2, JobStays
<1>4. QED BY <1>1, <1>3, Known0, JobMoves

LEMMA SettlementStep == ASSUME SettlementInv, [Next]_vars PROVE SettlementInv'
<1>1. CASE UNCHANGED vars
  BY <1>1, SettlementStutter
<1>2. CASE Payout /\ UNCHANGED crashes
  BY <1>2, ClaimReleaseInv, ClaimLateInv, OffsetDebtInv, SendPayoutInv, RecordPayoutInv,
     CreditBalanceInv, ClaimEarlyInv, SendEarlyInv, UnsendEarlyInv DEF Payout
<1>3. CASE Recovery /\ UNCHANGED crashes
  BY <1>3, TakeBackDoneInv, ReverseTransferInv, OweRestInv DEF Recovery
<1>4. CASE Refunding /\ UNCHANGED crashes
  BY <1>4, ReadPartsInv, CallOffPartInv, SkipPartInv, RefundPartInv, RecordPartInv,
     RefundsDoneInv, LowerUnpaidInv, LoweringDoneInv, RecoverGivenBackInv DEF Refunding
<1>5. CASE Settling /\ UNCHANGED crashes
  BY <1>5, ResolveInv, EndRefundedInv, CloseRefundedInv, ForgetEarlyInv, CloseReturnInv,
     ApplyLossInv DEF Settling
<1>6. CASE Unlocked /\ UNCHANGED crashes
  BY <1>6, CheckReportInv, OpenReportInv, ChargebackOpenedInv, ChargebackWonInv,
     BankReturnsInv, CardPaysInv, BankPaysInv, ClearsInv, ClearingFailsInv, WorkInv,
     ReleaseTimeComesInv, WithdrawInv DEF Unlocked
<1>7. CASE JobBegins /\ UNCHANGED crashes
  BY <1>7, ReleaseBeginsInv, LateBeginsInv, EarlyBeginsInv, GiveBackBeginsInv,
     DisputeBeginsInv, ReturnBeginsInv, ChargebackLostInv DEF JobBegins
<1>8. CASE Crash
  BY <1>8, CrashInv
<1>9. QED BY <1>1, <1>2, <1>3, <1>4, <1>5, <1>6, <1>7, <1>8 DEF Next, JobStep

\* The rows of a booking, its charges, transfers and jobs are always of the shapes
\* the code keeps them in, and fit together: whatever the plan, the prices and the
\* order of payouts, refunds, returns, bank disputes and stopped servers.
THEOREM SettlementTyped == Spec => []TypeOK
<1>1. SettlementInv => TypeOK
  BY DEF SettlementInv
<1>2. QED BY <1>1, SettlementInit, SettlementStep, PTL DEF Spec

----------------------------------------------------------------------------
(* What the vendor has, and what covers it.                                *)

Cover == [i \in Installments |-> Part(i) * Counted(i)]

LEMMA PartIs == ASSUME NEW i \in Installments PROVE Part(i) \in Nat
<1>1. Price[i] \in Nat /\ Fee[i] \in Nat /\ Fee[i] < Price[i]
  BY MoneyAssumption
<1>2. QED BY <1>1 DEF Part

LEMMA PartTimes ==
  ASSUME NEW p \in Nat, NEW m \in Int, NEW n \in Int
  PROVE  /\ p * m \in Int /\ (m <= n => p * m <= p * n) /\ p * (m + 1) = p * m + p
  OBVIOUS

LEMMA CountedIs ==
  SettlementInv => \A i \in Installments : Counted(i) \in Int
<1> SUFFICES ASSUME SettlementInv, NEW i \in Installments PROVE Counted(i) \in Int
  OBVIOUS
<1>1. charge[i].returned \in Nat
  BY Known0, MoneyAssumption DEF Charges
<1>2. QED BY <1>1 DEF Counted

\* The bound's parts are numbers.
BoundTyped ==
  /\ Covers \in Int /\ Covers = SumFunctionOnSet(Cover, Installments)
  /\ \A i \in Installments : Cover[i] \in Int /\ Cover[i] = Part(i) * Counted(i)
                             /\ Counted(i) \in Int
  /\ booking.early \in Nat /\ Exposed \in Nat /\ Slack \in Nat /\ Slack <= Exposed
  /\ VendorHas \in Int
  /\ VendorHas = SumFunction(Nets(sent)) + vendor.balance - vendor.opened + vendor.withdrawn
  /\ ToCome \in Nat /\ Gained \in Int /\ Gained = VendorHas + ToCome

LEMMA BoundIs == SettlementInv => BoundTyped
<1> SUFFICES ASSUME SettlementInv PROVE BoundTyped
  OBVIOUS
<1>1. \A i \in Installments : Cover[i] \in Int /\ Cover[i] = Part(i) * Counted(i) /\ Counted(i) \in Int
  <2> SUFFICES ASSUME NEW i \in Installments
               PROVE  Cover[i] \in Int /\ Cover[i] = Part(i) * Counted(i) /\ Counted(i) \in Int
    OBVIOUS
  <2>1. Part(i) \in Nat /\ Counted(i) \in Int
    BY PartIs, CountedIs
  <2>2. Part(i) * Counted(i) \in Int
    BY <2>1, PartTimes
  <2>3. QED BY <2>1, <2>2 DEF Cover
<1>2. Covers = SumFunctionOnSet(Cover, Installments)
  BY SumFunctionIs DEF Covers, Cover
<1>3. Covers \in Int
  BY <1>1, <1>2, OrderAssumption, SumType
<1>4. booking.early \in Nat
  BY Known0 DEF BookFits, BookingRows
<1>5. Exposed \in Nat /\ Slack \in Nat /\ Slack <= Exposed
  <2>1. CASE Ahead
    <3>1. Deposit \in Installments
      BY <2>1, KindsAssumption DEF Ahead
    <3>2. inst[Deposit] \in Rows /\ RowFits(Deposit) /\ Part(Deposit) \in Nat
      BY <3>1, Known0, PartIs DEF RowsFit
    <3>3. Portion(inst[Deposit]) \in Nat /\ Portion(inst[Deposit]) <= Part(Deposit)
      BY <3>2 DEF RowFits, Portion, AtLeast0, Rows
    <3>4. QED BY <2>1, <3>2, <3>3 DEF Exposed, Slack, Shrunk
  <2>2. CASE ~ Ahead
    BY <2>2 DEF Exposed, Slack
  <2>3. QED BY <2>1, <2>2
<1>6. VendorHas = SumFunction(Nets(sent)) + vendor.balance - vendor.opened + vendor.withdrawn
  BY DEF VendorHas, Nets
<1>7. VendorHas \in Int
  <2>1. SumFunction(Nets(sent)) \in Int
    BY Known0, NetsAre
  <2>2. vendor.balance \in Int /\ vendor.opened \in Int /\ vendor.withdrawn \in Int
    <3>1. vendor \in [balance : Int, opened : Balances, withdrawn : Nat, connected : BOOLEAN]
      BY Known0
    <3>2. \A b \in Balances : b \in Int
      BY MoneyAssumption
    <3>3. vendor.opened \in Balances /\ vendor.balance \in Int /\ vendor.withdrawn \in Int
      BY <3>1
    <3>4. QED BY <3>2, <3>3
  <2>3. QED BY <1>6, <2>1, <2>2
<1>8. ToCome \in Nat
  <2>1. job.at \in {"offset", "send", "credit", "unsend"} => job.share \in Nat /\ ToPay \in Nat
    <3> SUFFICES ASSUME job.at \in {"offset", "send", "credit", "unsend"}
                 PROVE  job.share \in Nat /\ ToPay \in Nat
      OBVIOUS
    <3>1. job.share > 0 /\ job.share \in Int
      BY Known0 DEF PayoutFits, Jobs
    <3>2. QED BY <3>1, OffsetIs
  <2>2. QED BY <2>1 DEF ToCome
<1>9. QED BY <1>1, <1>2, <1>3, <1>4, <1>5, <1>6, <1>7, <1>8 DEF BoundTyped, Gained

LEMMA BoundNext == ASSUME SettlementInv' PROVE BoundTyped'
  BY BoundIs, PTL

\* Every installment counted as often or oftener: as much is covered, or more.
LEMMA CoversOrder ==
  ASSUME SettlementInv, SettlementInv', \A i \in Installments : Counted(i) <= Counted(i)'
  PROVE  Covers <= Covers'
<1>1. BoundTyped /\ BoundTyped'
  BY BoundIs, BoundNext
<1>2. PICK f : f = Cover
  OBVIOUS
<1>3. PICK g : g = Cover'
  OBVIOUS
<1>4. \A i \in Installments : f[i] \in Int /\ g[i] \in Int /\ f[i] <= g[i]
  <2> SUFFICES ASSUME NEW i \in Installments
               PROVE  f[i] \in Int /\ g[i] \in Int /\ f[i] <= g[i]
    OBVIOUS
  <2>1. f[i] = Part(i) * Counted(i) /\ Counted(i) \in Int
    BY <1>1, <1>2 DEF BoundTyped
  <2>2. g[i] = Part(i) * Counted(i)' /\ Counted(i)' \in Int
    BY <1>1, <1>3 DEF BoundTyped, Part
  <2>3. PICK m \in Int : m = Counted(i)
    BY <2>1
  <2>4. PICK n \in Int : n = Counted(i)'
    BY <2>2
  <2>5. m <= n /\ Part(i) \in Nat
    BY <2>3, <2>4, PartIs
  <2>6. QED BY <2>1, <2>2, <2>3, <2>4, <2>5, PartTimes
<1>5. IsFiniteSet(Installments)
  BY OrderAssumption
<1>6. SumFunctionOnSet(f, Installments) <= SumFunctionOnSet(g, Installments)
  BY <1>4, <1>5, SumOrder
<1>7. QED BY <1>1, <1>2, <1>3, <1>6 DEF BoundTyped

\* Those of X counted once more cover their parts more.
LEMMA CoversAdd ==
  ASSUME SettlementInv, SettlementInv', NEW X \in SUBSET Installments,
         \A i \in X : Counted(i)' = Counted(i) + 1,
         \A i \in Installments \ X : Counted(i)' = Counted(i)
  PROVE  Covers' = Covers + PartsOf(X) /\ PartsOf(X) \in Nat
<1>1. BoundTyped /\ BoundTyped'
  BY BoundIs, BoundNext
<1>2. PICK f : f = Cover
  OBVIOUS
<1>3. PICK h : h = Cover'
  OBVIOUS
<1>4. PICK g : g = [i \in X |-> Part(i)]
  OBVIOUS
<1>5. \A i \in Installments : f[i] \in Int
  BY <1>1, <1>2 DEF BoundTyped
<1>6. \A i \in X : g[i] \in Nat
  BY <1>4, PartIs
<1>7. \A i \in X : h[i] = f[i] + g[i]
  <2> SUFFICES ASSUME NEW i \in X PROVE h[i] = f[i] + g[i]
    OBVIOUS
  <2>1. f[i] = Part(i) * Counted(i) /\ Counted(i) \in Int
    BY <1>1, <1>2 DEF BoundTyped
  <2>2. h[i] = Part(i) * Counted(i)'
    BY <1>1, <1>3 DEF BoundTyped, Part
  <2>3. PICK m \in Int : m = Counted(i)
    BY <2>1
  <2>4. Counted(i)' = m + 1 /\ Part(i) \in Nat /\ g[i] = Part(i)
    BY <2>3, <1>4, PartIs
  <2>5. Part(i) * (m + 1) = Part(i) * m + Part(i)
    BY <2>4, PartTimes
  <2>6. QED BY <2>1, <2>2, <2>3, <2>4, <2>5
<1>8. \A i \in Installments \ X : h[i] = f[i]
  BY <1>1, <1>2, <1>3 DEF BoundTyped, Part
<1>9. IsFiniteSet(Installments) /\ IsFiniteSet(X)
  BY OrderAssumption, FS_Subset
<1>10. \A i \in X : g[i] \in Int /\ h[i] = f[i] + g[i]
  BY <1>6, <1>7
<1>11. SumFunctionOnSet(h, Installments) = SumFunctionOnSet(f, Installments) + SumFunctionOnSet(g, X)
  BY <1>5, <1>8, <1>9, <1>10, SumAdds
<1>12. PartsOf(X) = SumFunctionOnSet(g, X)
  <2>1. DOMAIN g = X
    BY <1>4
  <2>2. QED BY <1>4, <2>1, SumFunctionIs DEF PartsOf
<1>13. SumFunctionOnSet(g, X) \in Nat
  BY <1>6, <1>9, SumNat
<1>14. QED BY <1>1, <1>2, <1>3, <1>11, <1>12, <1>13 DEF BoundTyped

\* The parts of a set are no less than one of them.
LEMMA PartWithin ==
  ASSUME NEW X \in SUBSET Installments, NEW x \in X
  PROVE  Part(x) <= PartsOf(X) /\ Part(x) \in Nat
<1>1. PICK g : g = [i \in X |-> Part(i)]
  OBVIOUS
<1>2. \A i \in X : g[i] \in Nat
  BY <1>1, PartIs
<1>3. \A i \in X : g[i] \in Int
  BY <1>2
<1>4. IsFiniteSet(X) /\ IsFiniteSet(X \ {x})
  BY OrderAssumption, FS_Subset, FS_RemoveElement
<1>5. SumFunctionOnSet(g, X) = g[x] + SumFunctionOnSet(g, X \ {x})
  BY <1>3, <1>4, SumByAny
<1>6. \A i \in X \ {x} : g[i] \in Nat
  BY <1>2
<1>7. SumFunctionOnSet(g, X \ {x}) \in Nat
  BY <1>4, <1>6, SumNat
<1>8. PartsOf(X) = SumFunctionOnSet(g, X)
  <2>1. DOMAIN g = X
    BY <1>1
  <2>2. QED BY <1>1, <2>1, SumFunctionIs DEF PartsOf
<1>9. g[x] \in Nat /\ g[x] = Part(x)
  BY <1>1, <1>2
<1>10. QED BY <1>5, <1>7, <1>8, <1>9

\* A step that gives the vendor no more and covers no less.
LEMMA BoundKept ==
  ASSUME SettlementInv, SettlementInv', Bounded, Gained' <= Gained, Covers <= Covers',
         Exposed <= Exposed', Slack <= Slack', booking.early <= booking.early',
         Settled' <=> Settled,
         Settled /\ booking'.dispute # "refunded" => booking.dispute # "refunded",
         Apart' => Apart \/ Exposed = 0
  PROVE  Bounded'
<1>1. BoundTyped /\ BoundTyped'
  BY BoundIs, BoundNext
<1>2. Gained' <= Covers' + Exposed'
  BY <1>1 DEF Bounded, BoundTyped
<1>3. ~ Settled' => Gained' <= Covers' + booking.early' + Slack'
  BY <1>1 DEF Bounded, BoundTyped
<1>4. Settled' /\ booking.dispute' # "refunded" => Gained' <= Covers' + Slack'
  BY <1>1 DEF Bounded, BoundTyped
<1>5. Apart' => Gained' <= Covers'
  BY <1>1 DEF Bounded, BoundTyped
<1>6. QED BY <1>2, <1>3, <1>4, <1>5 DEF Bounded

\* A step after which what the vendor has is covered by what was paid out.
LEMMA BoundReached ==
  ASSUME SettlementInv, SettlementInv', Gained' <= Covers'
  PROVE  Bounded'
<1>1. BoundTyped'
  BY BoundNext
<1>2. Gained' <= Covers' + Exposed'
  BY <1>1 DEF BoundTyped
<1>3. Gained' <= Covers' + booking.early' + Slack'
  BY <1>1 DEF BoundTyped
<1>4. Gained' <= Covers' + Slack'
  BY <1>1 DEF BoundTyped
<1>5. QED BY <1>2, <1>3, <1>4 DEF Bounded

\* As long as the deposit is not one that may have gone out early.
LEMMA NotExposed ==
  ASSUME SettlementInv, Bounded, Apart \/ Exposed = 0
  PROVE  Gained <= Covers
<1>1. BoundTyped
  BY BoundIs
<1>2. QED BY <1>1 DEF Bounded, BoundTyped

\* The rows and charges stay, but for what was given back of the charges.
LEMMA RowsStay ==
  ASSUME SettlementInv, SettlementInv', inst' = inst,
         \A i \in Installments : /\ charge'[i].taken = charge[i].taken
                                 /\ charge'[i].returned = charge[i].returned
  PROVE  Covers <= Covers' /\ Exposed' = Exposed /\ Slack' = Slack
<1>1. \A i \in Installments : Counted(i)' = Counted(i)
  BY DEF Counted
<1>2. \A i \in Installments : Counted(i) \in Int
  BY BoundIs DEF BoundTyped
<1>3. Covers <= Covers'
  BY <1>1, <1>2, CoversOrder
<1>4. QED BY <1>3 DEF Exposed, Slack, Ahead, Shrunk, EverPaid

\* Only transfers, the balance and the job move.
LEMMA MoneyMoves ==
  ASSUME SettlementInv, SettlementInv', Bounded, UNCHANGED <<booking, inst, charge>>,
         Gained' <= Gained, Apart' => Apart \/ Exposed = 0
  PROVE  Bounded'
<1>1. Covers <= Covers' /\ Exposed' = Exposed /\ Slack' = Slack
  BY RowsStay
<1>2. Settled' <=> Settled
  BY DEF Settled
<1>3. BoundTyped
  BY BoundIs
<1>4. booking.early <= booking.early' /\ Exposed <= Exposed' /\ Slack <= Slack'
  BY <1>1, <1>3 DEF BoundTyped
<1>5. QED BY <1>1, <1>2, <1>4, BoundKept

\* Only the job moves.
LEMMA JobAlone ==
  ASSUME SettlementInv, SettlementInv', Bounded,
         UNCHANGED <<booking, inst, charge, sent, vendor>>,
         ToCome' = 0 \/ ToCome' = ToCome, Apart' => Apart \/ Exposed = 0
  PROVE  Bounded'
<1>1. VendorHas' = VendorHas
  BY DEF VendorHas
<1>2. BoundTyped /\ BoundTyped'
  BY BoundIs, BoundNext
<1>3. Gained' <= Gained
  BY <1>1, <1>2 DEF BoundTyped
<1>4. QED BY <1>3, MoneyMoves

LEMMA IdleApart ==
  ASSUME job' = Idle PROVE ToCome' = 0 /\ ~ Apart'
<1>1. job'.at = "idle" /\ job'.op = "idle"
  BY DEF Idle
<1>2. QED BY <1>1 DEF ToCome, Apart, At

\* A deposit not collected, or out already, is not exposed.
LEMMA DepositOut ==
  ASSUME ~ Ahead PROVE Exposed = 0 /\ Slack = 0
  BY DEF Exposed, Slack

LEMMA ReleaseBeginsBound ==
  ASSUME SettlementInv, SettlementInv', Bounded, ReleaseBegins
  PROVE  Bounded'
<1>1. job'.at = "claim" /\ job'.op = "release" /\ job'.todo = Read(NotOut(EverPaid))
      /\ UNCHANGED <<booking, inst, charge, sent, vendor>>
  BY DEF ReleaseBegins, Begin, Idle
<1>2. NotOut(EverPaid) \in SUBSET Installments
  BY DEF NotOut, EverPaid
<1>3. Visited' = NotOut(EverPaid)
  BY <1>1, <1>2, Known0, ReadIs DEF Visited
<1>4. Apart' => Exposed = 0
  <2>1. Apart' => Deposit \notin NotOut(EverPaid)
    BY <1>1, <1>3 DEF Apart, At
  <2>2. Deposit \notin NotOut(EverPaid) => ~ Ahead
    BY DEF NotOut, Ahead
  <2>3. QED BY <2>1, <2>2, DepositOut
<1>5. ToCome' = 0
  BY <1>1 DEF ToCome
<1>6. QED BY <1>1, <1>4, <1>5, JobAlone

LEMMA LateBeginsBound ==
  ASSUME SettlementInv, SettlementInv', Bounded, LateBegins
  PROVE  Bounded'
<1>1. job'.at = "claim" /\ job'.op = "late" /\ UNCHANGED <<booking, inst, charge, sent, vendor>>
  BY DEF LateBegins, Begin, Idle
<1>2. ToCome' = 0 /\ ~ Apart'
  BY <1>1 DEF ToCome, Apart, At
<1>3. QED BY <1>1, <1>2, JobAlone

LEMMA EarlyBeginsBound ==
  ASSUME SettlementInv, SettlementInv', Bounded, EarlyBegins
  PROVE  Bounded'
<1>1. job'.at = "claim" /\ job'.op = "early" /\ UNCHANGED <<booking, inst, charge, sent, vendor>>
  BY DEF EarlyBegins, Begin, Idle
<1>2. ToCome' = 0 /\ ~ Apart'
  BY <1>1 DEF ToCome, Apart, At
<1>3. QED BY <1>1, <1>2, JobAlone

LEMMA GiveBackBeginsBound ==
  ASSUME SettlementInv, SettlementInv', Bounded, GiveBackBegins
  PROVE  Bounded'
<1>1. job'.at = "lower" /\ UNCHANGED <<booking, inst, charge, sent, vendor>>
  BY DEF GiveBackBegins, Begin, Idle
<1>2. ToCome' = 0 /\ ~ Apart'
  BY <1>1 DEF ToCome, Apart, At
<1>3. QED BY <1>1, <1>2, JobAlone

LEMMA DisputeBeginsBound ==
  ASSUME SettlementInv, SettlementInv', Bounded, DisputeBegins
  PROVE  Bounded'
<1>1. job'.at \in {"parts", "resolve"}
      /\ UNCHANGED <<booking, inst, charge, sent, vendor>>
  BY DEF DisputeBegins, Begin, Idle
<1>2. ToCome' = 0 /\ ~ Apart'
  BY <1>1 DEF ToCome, Apart, At
<1>3. QED BY <1>1, <1>2, JobAlone

\* The job is over, or goes on to a place that pays nothing.
LEMMA JobTurns ==
  ASSUME SettlementInv, SettlementInv', Bounded,
         UNCHANGED <<booking, inst, charge, sent, vendor>>,
         job' = Idle \/ \E p \in {"parts", "recover", "resolve", "close", "owe", "over"} : Goto(p)
  PROVE  Bounded'
<1>1. ToCome' = 0 /\ ~ Apart'
  <2>1. CASE job' = Idle
    BY <2>1, IdleApart
  <2>2. CASE \E p \in {"parts", "recover", "resolve", "close", "owe", "over"} : Goto(p)
    <3>1. PICK p \in {"parts", "recover", "resolve", "close", "owe", "over"} : Goto(p)
      BY <2>2
    <3>2. job'.at = p /\ p \in Places
      BY <3>1, Known0, GotoIs DEF Places
    <3>3. QED BY <3>2 DEF ToCome, Apart, At
  <2>3. QED BY <2>1, <2>2
<1>2. QED BY <1>1, JobAlone

LEMMA JobTurnsBound ==
  ASSUME SettlementInv, SettlementInv', Bounded,
         TakeBackDone \/ LoweringDone \/ RefundsDone \/ Crash
  PROVE  Bounded'
<1>1. CASE TakeBackDone
  BY <1>1, JobTurns DEF TakeBackDone, AfterTakeBack, Done
<1>2. CASE LoweringDone
  BY <1>2, JobTurns DEF LoweringDone, Done
<1>3. CASE RefundsDone
  BY <1>3, JobTurns DEF RefundsDone
<1>4. CASE Crash
  BY <1>4, JobTurns DEF Crash, Done
<1>5. QED BY <1>1, <1>2, <1>3, <1>4

LEMMA ReadPartsBound ==
  ASSUME SettlementInv, SettlementInv', Bounded, ReadParts
  PROVE  Bounded'
<1>1. job' = [job EXCEPT !.at = "refund", !.todo = Parts]
      /\ UNCHANGED <<booking, inst, charge, sent, vendor>>
  BY DEF ReadParts
<1>2. job'.at = "refund" /\ job'.todo = Parts
  BY <1>1, Known0 DEF Jobs
<1>3. ToCome' = 0
  BY <1>2 DEF ToCome
<1>4. Apart' => Exposed = 0
  <2> SUFFICES ASSUME Apart' PROVE Exposed = 0
    OBVIOUS
  <2>1. PICK v \in Parts : v.i = Deposit /\ v.was # "PAID"
    BY <1>2 DEF Apart, At
  <2>2. Paid \in SUBSET Installments /\ Unpaid \in SUBSET Installments
    BY DEF Paid, Unpaid
  <2>3. PICK S \in SUBSET (Paid \cup Unpaid) : Parts = Read(S)
    <3>1. Paid \in SUBSET (Paid \cup Unpaid)
      OBVIOUS
    <3>2. Paid \cup {i \in Unpaid : ~ (job.deed = "partial" /\ i \in AfterService)}
            \in SUBSET (Paid \cup Unpaid)
      OBVIOUS
    <3>3. QED BY <3>1, <3>2 DEF Parts
  <2>4. S \in SUBSET Installments
    BY <2>2, <2>3
  <2>5. v.i \in S /\ v.was = inst[v.i].status
    BY <2>1, <2>3, <2>4, Known0, ReadIs
  <2>6. Deposit \notin EverPaid
    BY <2>1, <2>3, <2>5 DEF EverPaid, Paid, Unpaid
  <2>7. QED BY <2>6, DepositOut DEF Ahead
<1>5. QED BY <1>1, <1>3, <1>4, JobAlone

LEMMA SkipPartBound ==
  ASSUME SettlementInv, SettlementInv', Bounded, SkipPart
  PROVE  Bounded'
<1>1. job' = [job EXCEPT !.todo = @ \ {Current}] /\ At("refund")
      /\ UNCHANGED <<booking, inst, charge, sent, vendor>>
  BY DEF SkipPart, ToRefund
<1>2. job'.at = "refund" /\ job'.op = job.op /\ job'.todo \in SUBSET job.todo
  BY <1>1, Known0 DEF Jobs, At
<1>3. ToCome' = 0
  BY <1>2 DEF ToCome
<1>4. Apart' => Apart
  BY <1>1, <1>2 DEF Apart, At
<1>5. QED BY <1>1, <1>3, <1>4, JobAlone

\* The balance's part of what the vendor has.
LEMMA CreditHas ==
  ASSUME SettlementInv, SettlementInv', UNCHANGED sent, NEW amount \in Int, Credit(amount)
  PROVE  VendorHas' = VendorHas + amount
<1>1. BoundTyped /\ BoundTyped'
  BY BoundIs, BoundNext
<1>2. vendor'.balance = vendor.balance + amount /\ vendor'.opened = vendor.opened
      /\ vendor'.withdrawn = vendor.withdrawn
  BY Known0 DEF Credit
<1>3. vendor.balance \in Int /\ vendor.withdrawn \in Int /\ vendor.opened \in Int
      /\ SumFunction(Nets(sent)) \in Int
  <2>1. vendor \in [balance : Int, opened : Balances, withdrawn : Nat, connected : BOOLEAN]
    BY Known0
  <2>2. \A b \in Balances : b \in Int
    BY MoneyAssumption
  <2>3. vendor.opened \in Balances /\ vendor.balance \in Int /\ vendor.withdrawn \in Int
    BY <2>1
  <2>4. QED BY <2>2, <2>3, Known0, NetsAre
<1>4. VendorHas' = SumFunction(Nets(sent)) + vendor'.balance - vendor'.opened + vendor'.withdrawn
  BY <1>1 DEF BoundTyped
<1>5. VendorHas = SumFunction(Nets(sent)) + vendor.balance - vendor.opened + vendor.withdrawn
  BY <1>1 DEF BoundTyped
<1>6. QED BY <1>2, <1>3, <1>4, <1>5

\* The transfers' part of it.
LEMMA SentHas ==
  ASSUME SettlementInv, SettlementInv', UNCHANGED vendor
  PROVE  VendorHas' = VendorHas + SumFunction(Nets(sent')) - SumFunction(Nets(sent))
         /\ SumFunction(Nets(sent)) \in Int
<1>1. BoundTyped /\ BoundTyped'
  BY BoundIs, BoundNext
<1>2. vendor.balance \in Int /\ vendor.withdrawn \in Int /\ vendor.opened \in Int
  <2>1. vendor \in [balance : Int, opened : Balances, withdrawn : Nat, connected : BOOLEAN]
    BY Known0
  <2>2. \A b \in Balances : b \in Int
    BY MoneyAssumption
  <2>3. vendor.opened \in Balances /\ vendor.balance \in Int /\ vendor.withdrawn \in Int
    BY <2>1
  <2>4. QED BY <2>2, <2>3
<1>3. SumFunction(Nets(sent)) \in Int
  BY Known0, NetsAre
<1>4. SumFunction(Nets(sent')) \in Int
  <2>1. sent' \in Seq(Transfers)
    BY DEF SettlementInv
  <2>2. QED BY <2>1, NetsAre
<1>5. VendorHas' = SumFunction(Nets(sent')) + vendor.balance - vendor.opened + vendor.withdrawn
  BY <1>1 DEF BoundTyped
<1>6. VendorHas = SumFunction(Nets(sent)) + vendor.balance - vendor.opened + vendor.withdrawn
  BY <1>1 DEF BoundTyped
<1>7. QED BY <1>2, <1>3, <1>4, <1>5, <1>6

LEMMA OffsetDebtBound ==
  ASSUME SettlementInv, SettlementInv', Bounded, OffsetDebt
  PROVE  Bounded'
<1>1. At("offset") /\ job.share > 0 /\ job.op \in {"release", "late"} /\ job.share \in Int
      /\ UNCHANGED <<booking, inst, charge, sent>>
  BY Known0 DEF OffsetDebt, PayoutFits, At, Jobs
<1>2. Offset \in Int /\ Offset <= job.share /\ Credit(Offset) /\ ToPay = job.share - Offset
  BY <1>1, OffsetIs DEF OffsetDebt
<1>3. VendorHas' = VendorHas + Offset
  BY <1>1, <1>2, CreditHas
<1>4. ToCome = job.share
  BY <1>1 DEF ToCome, At
<1>5. ToCome' = job.share - Offset /\ ~ Apart'
  <2>1. CASE job.share > Offset
    <3>1. Goto("send") /\ "send" \in Places
      BY <2>1 DEF OffsetDebt, Places
    <3>2. job'.at = "send" /\ job'.op = job.op /\ job'.share = job.share /\ job'.owed = job.owed
      BY <3>1, Known0, GotoIs
    <3>3. ToPay' = ToPay
      BY <3>2 DEF ToPay, Offset
    <3>4. QED BY <1>1, <1>2, <3>2, <3>3 DEF ToCome, Apart, At
  <2>2. CASE ~ (job.share > Offset)
    <3>1. job' = Idle
      BY <2>2 DEF OffsetDebt, Done
    <3>2. job.share - Offset = 0
      BY <1>1, <1>2, <2>2
    <3>3. QED BY <3>1, <3>2, IdleApart
  <2>3. QED BY <2>1, <2>2
<1>6. BoundTyped /\ BoundTyped'
  BY BoundIs, BoundNext
<1>7. Gained' <= Gained
  BY <1>1, <1>2, <1>3, <1>4, <1>5, <1>6 DEF BoundTyped
<1>8. QED BY <1>1, <1>5, <1>7, MoneyMoves

LEMMA CreditBalanceBound ==
  ASSUME SettlementInv, SettlementInv', Bounded, CreditBalance
  PROVE  Bounded'
<1>1. At("credit") /\ job.share > 0 /\ job.op \in {"release", "late"}
      /\ UNCHANGED <<booking, inst, charge, sent>>
  BY Known0 DEF CreditBalance, PayoutFits, At
<1>2. ToPay \in Int /\ Credit(ToPay) /\ job' = Idle
  BY <1>1, OffsetIs DEF CreditBalance, Done
<1>3. VendorHas' = VendorHas + ToPay
  BY <1>1, <1>2, CreditHas
<1>4. ToCome = ToPay
  BY <1>1 DEF ToCome, At
<1>5. ToCome' = 0 /\ ~ Apart'
  BY <1>2, IdleApart
<1>6. BoundTyped /\ BoundTyped'
  BY BoundIs, BoundNext
<1>7. Gained' <= Gained
  BY <1>2, <1>3, <1>4, <1>5, <1>6 DEF BoundTyped
<1>8. QED BY <1>1, <1>5, <1>7, MoneyMoves

\* Money comes off the balance, and the job turns to nothing that pays.
LEMMA DebitBound ==
  ASSUME SettlementInv, SettlementInv', Bounded, UNCHANGED <<booking, inst, charge, sent>>,
         NEW amount \in Nat, Credit(- amount), job' = Idle \/ Goto("close")
  PROVE  Bounded'
<1>1. - amount \in Int
  OBVIOUS
<1>2. VendorHas' = VendorHas + (- amount)
  BY <1>1, CreditHas
<1>3. ToCome' = 0 /\ ~ Apart'
  <2>1. CASE job' = Idle
    BY <2>1, IdleApart
  <2>2. CASE Goto("close")
    <3>1. job'.at = "close"
      BY <2>2, Known0, GotoIs DEF Places
    <3>2. QED BY <3>1 DEF ToCome, Apart, At
  <2>3. QED BY <2>1, <2>2
<1>4. BoundTyped /\ BoundTyped'
  BY BoundIs, BoundNext
<1>5. Gained' <= Gained
  BY <1>2, <1>3, <1>4 DEF BoundTyped
<1>6. QED BY <1>3, <1>5, MoneyMoves

LEMMA OweRestBound ==
  ASSUME SettlementInv, SettlementInv', Bounded, OweRest
  PROVE  Bounded'
<1>1. Credit(- job.left) /\ AfterTakeBack /\ UNCHANGED <<booking, inst, charge, sent>>
  BY DEF OweRest
<1>2. PICK left \in Nat : left = job.left
  BY Known0
<1>3. Credit(- left) /\ (job' = Idle \/ Goto("close"))
  BY <1>1, <1>2 DEF AfterTakeBack, Done
<1>4. QED BY <1>1, <1>3, DebitBound

LEMMA RecoverGivenBackBound ==
  ASSUME SettlementInv, SettlementInv', Bounded, RecoverGivenBack
  PROVE  Bounded'
<1>1. Credit(- AfterCommission(job.paidOut)) /\ job' = Idle
      /\ UNCHANGED <<booking, inst, charge, sent>>
  BY DEF RecoverGivenBack, Done
<1>2. AfterCommission(job.paidOut) \in Nat
  <2>1. job.paidOut \in Nat
    BY Known0 DEF Jobs
  <2>2. AfterCommission(job.paidOut) \in 0..job.paidOut
    BY <2>1, Known0, AfterCommissionIs
  <2>3. QED BY <2>1, <2>2
<1>3. PICK amount \in Nat : amount = AfterCommission(job.paidOut)
  BY <1>2
<1>4. Credit(- amount)
  BY <1>1, <1>3
<1>5. QED BY <1>1, <1>4, DebitBound

LEMMA WithdrawBound ==
  ASSUME SettlementInv, SettlementInv', Bounded, Withdraw
  PROVE  Bounded'
<1>1. UNCHANGED <<booking, inst, charge, sent, job>>
      /\ vendor' = [vendor EXCEPT !.balance = 0, !.withdrawn = @ + vendor.balance]
  BY DEF Withdraw
<1>2. vendor \in [balance : Int, opened : Balances, withdrawn : Nat, connected : BOOLEAN]
  BY Known0
<1>3. vendor'.balance = 0 /\ vendor'.opened = vendor.opened
      /\ vendor'.withdrawn = vendor.withdrawn + vendor.balance
  BY <1>1, <1>2
<1>4. vendor.opened \in Int /\ vendor.balance \in Int /\ vendor.withdrawn \in Int
  <2>1. \A b \in Balances : b \in Int
    BY MoneyAssumption
  <2>2. vendor.opened \in Balances /\ vendor.balance \in Int /\ vendor.withdrawn \in Int
    BY <1>2
  <2>3. QED BY <2>1, <2>2
<1>5. SumFunction(Nets(sent)) \in Int
  BY Known0, NetsAre
<1>6. BoundTyped /\ BoundTyped'
  BY BoundIs, BoundNext
<1>7. VendorHas' = SumFunction(Nets(sent)) + vendor'.balance - vendor'.opened + vendor'.withdrawn
  BY <1>1, <1>6 DEF BoundTyped
<1>8. VendorHas = SumFunction(Nets(sent)) + vendor.balance - vendor.opened + vendor.withdrawn
  BY <1>6 DEF BoundTyped
<1>9. VendorHas' = VendorHas
  BY <1>3, <1>4, <1>5, <1>7, <1>8
<1>10. ToCome' = ToCome
  BY <1>1 DEF ToCome, ToPay, Offset
<1>11. Apart' => Apart
  BY <1>1 DEF Apart, At, Visited
<1>12. Gained' <= Gained
  BY <1>6, <1>9, <1>10 DEF BoundTyped
<1>13. QED BY <1>1, <1>11, <1>12, MoneyMoves

LEMMA SendPayoutBound ==
  ASSUME ~ AnswersLost, SettlementInv, SettlementInv', Bounded, SendPayout
  PROVE  Bounded'
<1>1. At("send") /\ job.share > 0 /\ job.op \in {"release", "late"}
      /\ UNCHANGED <<booking, inst, charge, vendor>>
  BY Known0 DEF SendPayout, PayoutFits, At
<1>2. ToPay \in Nat /\ ToCome = ToPay
  BY <1>1, OffsetIs DEF ToCome, At
<1>3. "record" \in Places /\ "credit" \in Places
  BY DEF Places
<1>4. Goto("record") => ToCome' = 0 /\ ~ Apart'
  <2>1. Goto("record") => job'.at = "record"
    BY <1>3, Known0, GotoIs
  <2>2. QED BY <2>1 DEF ToCome, Apart, At
<1>5. Goto("credit") => ToCome' = ToCome /\ ~ Apart'
  <2>1. Goto("credit") => job'.at = "credit" /\ job'.op = job.op /\ job'.share = job.share
                          /\ job'.owed = job.owed
    BY <1>3, Known0, GotoIs
  <2>2. Goto("credit") => ToPay' = ToPay
    BY <2>1 DEF ToPay, Offset
  <2>3. QED BY <1>1, <1>2, <2>1, <2>2 DEF ToCome, Apart, At
<1>6. \/ SumFunction(Nets(sent)) + ToPay = SumFunction(Nets(sent')) /\ Goto("record")
      \/ UNCHANGED sent /\ (Goto("record") \/ Goto("credit"))
  <2>1. CASE vendor.connected
    <3>1. Transfer(Key, ToPay, "record", "credit") /\ Key \in Keys
      BY <1>1, <2>1, KeyIs DEF SendPayout
    <3>2. QED BY <1>2, <1>3, <3>1, TransferIs
  <2>2. CASE ~ vendor.connected
    BY <2>2 DEF SendPayout
  <2>3. QED BY <2>1, <2>2
<1>7. BoundTyped /\ BoundTyped'
  BY BoundIs, BoundNext
<1>8. VendorHas' = VendorHas + SumFunction(Nets(sent')) - SumFunction(Nets(sent))
      /\ SumFunction(Nets(sent)) \in Int
  BY <1>1, SentHas
<1>9. Gained' <= Gained
  BY <1>2, <1>4, <1>5, <1>6, <1>7, <1>8 DEF BoundTyped
<1>10. QED BY <1>1, <1>4, <1>5, <1>6, <1>9, MoneyMoves

LEMMA SendEarlyBound ==
  ASSUME ~ AnswersLost, SettlementInv, SettlementInv', Bounded, SendEarly
  PROVE  Bounded'
<1>1. At("send") /\ job.share > 0 /\ job.op = "early" /\ job.share \in Nat
      /\ Transfer(Key, job.share, "record", "unsend")
      /\ UNCHANGED <<booking, inst, charge, vendor>>
  BY Known0 DEF SendEarly, PayoutFits, At, Jobs
<1>2. ToCome = job.share /\ Key \in Keys
  BY <1>1, KeyIs DEF ToCome, At
<1>3. "record" \in Places /\ "unsend" \in Places
  BY DEF Places
<1>4. Goto("record") => ToCome' = 0 /\ ~ Apart'
  <2>1. Goto("record") => job'.at = "record"
    BY <1>3, Known0, GotoIs
  <2>2. QED BY <2>1 DEF ToCome, Apart, At
<1>5. Goto("unsend") => ToCome' = ToCome /\ ~ Apart'
  <2>1. Goto("unsend") => job'.at = "unsend" /\ job'.op = job.op /\ job'.share = job.share
    BY <1>3, Known0, GotoIs
  <2>2. QED BY <1>1, <1>2, <2>1 DEF ToCome, Apart, At
<1>6. \/ SumFunction(Nets(sent)) + job.share = SumFunction(Nets(sent')) /\ Goto("record")
      \/ UNCHANGED sent /\ (Goto("record") \/ Goto("unsend"))
  BY <1>1, <1>2, <1>3, TransferIs
<1>7. BoundTyped /\ BoundTyped'
  BY BoundIs, BoundNext
<1>8. VendorHas' = VendorHas + SumFunction(Nets(sent')) - SumFunction(Nets(sent))
      /\ SumFunction(Nets(sent)) \in Int
  BY <1>1, SentHas
<1>9. Gained' <= Gained
  BY <1>1, <1>2, <1>4, <1>5, <1>6, <1>7, <1>8 DEF BoundTyped
<1>10. QED BY <1>1, <1>4, <1>5, <1>6, <1>9, MoneyMoves

LEMMA RecordPayoutBound ==
  ASSUME SettlementInv, SettlementInv', Bounded, RecordPayout
  PROVE  Bounded'
<1>1. job' = Idle /\ UNCHANGED <<booking, inst, charge, vendor>>
  BY DEF RecordPayout, Done
<1>2. ToCome' = 0 /\ ~ Apart'
  BY <1>1, IdleApart
<1>3. BoundTyped /\ BoundTyped'
  BY BoundIs, BoundNext
<1>4. VendorHas' = VendorHas + SumFunction(Nets(sent')) - SumFunction(Nets(sent))
      /\ SumFunction(Nets(sent)) \in Int
  BY <1>1, SentHas
<1>5. SumFunction(Nets(sent')) = SumFunction(Nets(sent))
  BY RecordPayoutIs
<1>6. Gained' <= Gained
  BY <1>2, <1>3, <1>4, <1>5 DEF BoundTyped
<1>7. QED BY <1>1, <1>2, <1>6, MoneyMoves

LEMMA ReverseTransferBound ==
  ASSUME SettlementInv, SettlementInv', Bounded, ReverseTransfer
  PROVE  Bounded'
<1>1. At("reverse") /\ job.left > 0 /\ UNCHANGED <<booking, inst, charge, vendor>>
  BY DEF ReverseTransfer
<1>2. CASE UNCHANGED sent /\ Goto("owe")
  BY <1>1, <1>2, JobTurns
<1>3. ASSUME Reversible # {}, NEW k, k = Max(Reversible),
             NEW take, take = Smaller(job.left, sent[k].amount - sent[k].reversed),
             sent' = [sent EXCEPT ![k].reversed = @ + take],
             job' = [job EXCEPT !.left = @ - take]
      PROVE  Bounded'
  <2>1. take \in Nat /\ SumFunction(Nets(sent')) = SumFunction(Nets(sent)) - take
    BY <1>1, <1>3, ReverseIs
  <2>2. job'.at = "reverse"
    BY <1>1, <1>3, Known0 DEF At, Jobs
  <2>3. ToCome' = 0 /\ ~ Apart'
    BY <2>2 DEF ToCome, Apart, At
  <2>4. BoundTyped /\ BoundTyped'
    BY BoundIs, BoundNext
  <2>5. VendorHas' = VendorHas + SumFunction(Nets(sent')) - SumFunction(Nets(sent))
        /\ SumFunction(Nets(sent)) \in Int
    BY <1>1, SentHas
  <2>6. Gained' <= Gained
    BY <2>1, <2>3, <2>4, <2>5 DEF BoundTyped
  <2>7. QED BY <1>1, <2>3, <2>6, MoneyMoves
<1>4. QED BY <1>2, <1>3 DEF ReverseTransfer

\* A step that pays nothing and leaves the installments counted as often or oftener.
LEMMA StepKept ==
  ASSUME SettlementInv, SettlementInv', Bounded, UNCHANGED vendor,
         SumFunction(Nets(sent')) = SumFunction(Nets(sent)),
         ToCome' = 0 \/ ToCome' = ToCome,
         \A i \in Installments : Counted(i) <= Counted(i)',
         Ahead => Ahead' /\ Shrunk <= Shrunk', booking.early <= booking.early',
         Settled' <=> Settled,
         Settled /\ booking'.dispute # "refunded" => booking.dispute # "refunded",
         Apart' => Apart \/ Exposed = 0
  PROVE  Bounded'
<1>1. BoundTyped /\ BoundTyped'
  BY BoundIs, BoundNext
<1>2. VendorHas' = VendorHas
  <2>1. VendorHas' = VendorHas + SumFunction(Nets(sent')) - SumFunction(Nets(sent))
        /\ SumFunction(Nets(sent)) \in Int
    BY SentHas
  <2>2. QED BY <1>1, <2>1 DEF BoundTyped
<1>3. Gained' <= Gained
  BY <1>1, <1>2 DEF BoundTyped
<1>4. Covers <= Covers'
  BY CoversOrder
<1>5. Exposed <= Exposed' /\ Slack <= Slack'
  <2>1. CASE Ahead
    <3>1. Exposed' = Exposed
      BY <2>1 DEF Exposed, Part
    <3>2. Slack = Shrunk /\ Slack' = Shrunk'
      BY <2>1 DEF Slack
    <3>3. QED BY <1>1, <2>1, <3>1, <3>2 DEF BoundTyped
  <2>2. CASE ~ Ahead
    <3>1. Exposed = 0 /\ Slack = 0
      BY <2>2, DepositOut
    <3>2. QED BY <1>1, <3>1 DEF BoundTyped
  <2>3. QED BY <2>1, <2>2
<1>6. QED BY <1>3, <1>4, <1>5, BoundKept

LEMMA NotIdleAhead ==
  ASSUME SettlementInv, Ahead
  PROVE  Deposit \in Installments /\ Part(Deposit) \in Nat /\ Shrunk \in Int
         /\ Portion(inst[Deposit]) \in Nat /\ Shrunk = Part(Deposit) - Portion(inst[Deposit])
<1>1. Deposit \in Installments
  BY KindsAssumption DEF Ahead
<1>2. Part(Deposit) \in Nat /\ Portion(inst[Deposit]) \in Nat
  BY <1>1, PartIs, PortionIs, Known0
<1>3. QED BY <1>1, <1>2 DEF Shrunk

\* The rows and charges stay; the booking's other columns move.
LEMMA BookingKept ==
  ASSUME SettlementInv, SettlementInv', Bounded, UNCHANGED <<inst, charge, sent, vendor>>,
         ToCome' = 0 \/ ToCome' = ToCome, booking.early = booking.early',
         Settled' <=> Settled,
         Settled /\ booking'.dispute # "refunded" => booking.dispute # "refunded",
         Apart' => Apart \/ Exposed = 0
  PROVE  Bounded'
<1>1. \A i \in Installments : Counted(i) <= Counted(i)'
  <2>1. \A i \in Installments : Counted(i)' = Counted(i)
    BY DEF Counted
  <2>2. \A i \in Installments : Counted(i) \in Int
    BY BoundIs DEF BoundTyped
  <2>3. QED BY <2>1, <2>2
<1>2. Ahead => Ahead' /\ Shrunk <= Shrunk'
  BY NotIdleAhead DEF Ahead, EverPaid, Shrunk, Part
<1>3. booking.early <= booking.early'
  BY BoundIs DEF BoundTyped
<1>4. SumFunction(Nets(sent')) = SumFunction(Nets(sent))
  OBVIOUS
<1>5. QED BY <1>1, <1>2, <1>3, <1>4, StepKept

LEMMA ClaimEarlyBound ==
  ASSUME SettlementInv, SettlementInv', Bounded, ClaimEarly
  PROVE  Bounded'
<1>1. At("claim") /\ job.op = "early" /\ Goto("send") /\ "send" \in Places
      /\ booking' = [booking EXCEPT !.early = job.share]
      /\ UNCHANGED <<inst, charge, sent, vendor>>
  BY DEF ClaimEarly, Places
<1>2. /\ ~ Settled /\ Deposit # None /\ inst[Deposit].status = "PAID" /\ booking.early = 0
      /\ job.share = Portion(inst[Deposit]) /\ job.share > 0
  BY <1>1, Known0 DEF EarlyFits
<1>3. Ahead
  <2>1. Deposit \in Installments
    BY <1>2, KindsAssumption
  <2>2. RowFits(Deposit)
    BY <2>1, Known0 DEF RowsFit
  <2>3. ~ inst[Deposit].out
    BY <1>2, <2>2 DEF RowFits, Settled
  <2>4. inst[Deposit].out \in BOOLEAN
    BY <2>1, Known0 DEF Rows
  <2>5. QED BY <1>2, <2>1, <2>3 DEF Ahead, EverPaid
<1>4. booking'.early = job.share /\ booking'.released = booking.released
      /\ booking'.status = booking.status
  BY <1>1, Known0 DEF BookingRows
<1>5. job'.at = "send" /\ job'.op = "early" /\ job'.share = job.share
  BY <1>1, Known0, GotoIs
<1>6. ToCome = 0 /\ ToCome' = job.share /\ ~ Apart'
  BY <1>1, <1>5 DEF ToCome, Apart, At
<1>7. VendorHas' = VendorHas
  BY <1>1 DEF VendorHas
<1>8. Covers <= Covers' /\ Exposed' = Exposed /\ Slack' = Slack
  BY <1>1, RowsStay
<1>9. BoundTyped /\ BoundTyped'
  BY BoundIs, BoundNext
<1>10. Gained <= Covers + Slack
  BY <1>2, <1>9 DEF Bounded, BoundTyped
<1>11. Slack = Shrunk /\ Exposed = Part(Deposit)
  BY <1>3 DEF Slack, Exposed
<1>12. Part(Deposit) = Shrunk + job.share
  BY <1>2, <1>3, NotIdleAhead
<1>13. Gained' = Gained + job.share
  BY <1>6, <1>7, <1>9 DEF BoundTyped
<1>14. job.share \in Nat
  BY <1>6, <1>9 DEF BoundTyped
<1>15. Gained' <= Covers' + Exposed'
  BY <1>8, <1>9, <1>10, <1>11, <1>12, <1>13, <1>14 DEF BoundTyped
<1>16. Gained' <= Covers' + booking'.early + Slack'
  BY <1>4, <1>8, <1>9, <1>10, <1>13, <1>14 DEF BoundTyped
<1>17. ~ Settled'
  BY <1>2, <1>4 DEF Settled
<1>18. QED BY <1>6, <1>15, <1>16, <1>17 DEF Bounded

LEMMA UnsendEarlyBound ==
  ASSUME SettlementInv, SettlementInv', Bounded, UnsendEarly
  PROVE  Bounded'
<1>1. At("unsend") /\ job' = Idle /\ booking' = [booking EXCEPT !.early = 0]
      /\ UNCHANGED <<inst, charge, sent, vendor>>
  BY DEF UnsendEarly, Done
<1>2. job.op = "early" /\ ~ Settled /\ booking.early = job.share
  BY <1>1, Known0 DEF EarlyFits, RefundFits, At
<1>3. booking'.early = 0 /\ booking'.released = booking.released
      /\ booking'.status = booking.status
  BY <1>1, Known0 DEF BookingRows
<1>4. ToCome = job.share /\ ToCome' = 0 /\ ~ Apart'
  BY <1>1, <1>2, IdleApart DEF ToCome, At
<1>5. VendorHas' = VendorHas
  BY <1>1 DEF VendorHas
<1>6. Covers <= Covers' /\ Exposed' = Exposed /\ Slack' = Slack
  BY <1>1, RowsStay
<1>7. BoundTyped /\ BoundTyped'
  BY BoundIs, BoundNext
<1>8. Gained <= Covers + booking.early + Slack
  BY <1>2 DEF Bounded
<1>9. Gained' <= Covers' + Slack'
  BY <1>2, <1>4, <1>5, <1>6, <1>7, <1>8 DEF BoundTyped
<1>10. Gained' <= Covers' + Exposed' /\ Gained' <= Covers' + booking'.early + Slack'
  BY <1>3, <1>7, <1>9 DEF BoundTyped
<1>11. ~ Settled'
  BY <1>2, <1>3 DEF Settled
<1>12. QED BY <1>4, <1>10, <1>11 DEF Bounded

\* Taking back pays nothing.
LEMMA TakeBackPays ==
  ASSUME SettlementInv, NEW amount \in Int, TakeBack(amount), job.op # "early"
  PROVE  ToCome' = 0 /\ ~ Apart'
<1>1. job'.at \in {"reverse", "close", "idle"}
  BY TakeBackIs
<1>2. QED BY <1>1 DEF ToCome, Apart, At

LEMMA EndRefundedBound ==
  ASSUME SettlementInv, SettlementInv', Bounded, EndRefunded
  PROVE  Bounded'
<1>1. At("over") /\ job.op = "dispute" /\ booking.dispute = "refunded" /\ TakeBack(booking.early)
      /\ booking' = [booking EXCEPT !.released = TRUE]
      /\ UNCHANGED <<inst, charge, sent, vendor>>
  BY Known0 DEF EndRefunded, RefundFits
<1>2. BoundTyped /\ BoundTyped'
  BY BoundIs, BoundNext
<1>3. ToCome' = 0 /\ ~ Apart'
  <2>1. booking.early \in Int /\ job.op # "early"
    BY <1>1, <1>2 DEF BoundTyped
  <2>2. QED BY <1>1, <2>1, TakeBackPays
<1>4. booking'.early = booking.early /\ booking'.dispute = "refunded"
      /\ booking'.status = booking.status
  BY <1>1, Known0 DEF BookingRows
<1>5. VendorHas' = VendorHas
  BY <1>1 DEF VendorHas
<1>6. Covers <= Covers' /\ Exposed' = Exposed /\ Slack' = Slack
  BY <1>1, RowsStay
<1>7. Gained' <= Gained
  BY <1>2, <1>3, <1>5 DEF BoundTyped
<1>8. Gained' <= Covers' + Exposed'
  BY <1>2, <1>6, <1>7 DEF Bounded, BoundTyped
<1>9. ~ Settled' => ~ Settled
  BY <1>1, <1>4, Known0 DEF Settled, BookingRows
<1>10. ~ Settled' => Gained' <= Covers' + booking'.early + Slack'
  BY <1>2, <1>4, <1>6, <1>7, <1>9 DEF Bounded, BoundTyped
<1>11. QED BY <1>3, <1>4, <1>8, <1>10 DEF Bounded

LEMMA ForgetEarlyBound ==
  ASSUME SettlementInv, SettlementInv', Bounded, ForgetEarly
  PROVE  Bounded'
<1>1. At("forget") /\ TakeBack(booking.early) /\ UNCHANGED <<inst, charge, sent, vendor>>
  BY DEF ForgetEarly
<1>2. BoundTyped /\ BoundTyped'
  BY BoundIs, BoundNext
<1>3. job.op # "early"
  BY <1>1, Known0 DEF RefundFits
<1>4. ToCome' = 0
  <2>1. booking.early \in Int
    BY <1>2 DEF BoundTyped
  <2>2. QED BY <1>1, <1>3, <2>1, TakeBackPays
<1>5. VendorHas' = VendorHas
  BY <1>1 DEF VendorHas
<1>6. Covers <= Covers'
  BY <1>1, RowsStay
<1>7. Gained <= Covers
  BY <1>1 DEF Bounded, Apart
<1>8. Gained' <= Covers'
  BY <1>2, <1>4, <1>5, <1>6, <1>7 DEF BoundTyped
<1>9. QED BY <1>8, BoundReached

LEMMA CloseReturnBound ==
  ASSUME SettlementInv, SettlementInv', Bounded, CloseReturn
  PROVE  Bounded'
<1>1. job' = Idle /\ booking' \in {booking, [booking EXCEPT !.paid = FALSE]}
      /\ UNCHANGED <<inst, charge, sent, vendor>>
  BY DEF CloseReturn, Done
<1>2. booking'.released = booking.released /\ booking'.status = booking.status
      /\ booking'.early = booking.early /\ booking'.dispute = booking.dispute
  BY <1>1, Known0 DEF BookingRows
<1>3. Settled' <=> Settled
  BY <1>2 DEF Settled
<1>4. ToCome' = 0 /\ ~ Apart'
  BY <1>1, IdleApart
<1>5. QED BY <1>1, <1>2, <1>3, <1>4, BookingKept

LEMMA ResolveBound ==
  ASSUME SettlementInv, SettlementInv', Bounded, Resolve
  PROVE  Bounded'
<1>1. At("resolve") /\ DisputeOpen /\ ~ booking.released
      /\ UNCHANGED <<inst, charge, sent, vendor>> /\ (job' = Idle \/ Goto("over"))
  BY Known0 DEF Resolve, RefundFits, At, Done
<1>2. booking'.released = booking.released /\ booking'.early = booking.early
  BY Known0 DEF Resolve, BookingRows
<1>3. ~ Settled' /\ ~ Settled
  BY <1>1, <1>2 DEF Settled
<1>4. ToCome' = 0 /\ ~ Apart'
  <2>1. CASE job' = Idle
    BY <2>1, IdleApart
  <2>2. CASE Goto("over")
    <3>1. job'.at = "over"
      BY <2>2, Known0, GotoIs DEF Places
    <3>2. QED BY <3>1 DEF ToCome, Apart, At
  <2>3. QED BY <1>1, <2>1, <2>2
<1>5. QED BY <1>1, <1>2, <1>3, <1>4, BookingKept

\* What takes no lock and leaves the rows, charges and money.
LEMMA ColumnsBound ==
  ASSUME SettlementInv, SettlementInv', Bounded,
         CheckReport \/ OpenReport \/ Work \/ ReleaseTimeComes
  PROVE  Bounded'
<1>1. UNCHANGED <<inst, charge, sent, vendor, job>>
  BY DEF CheckReport, OpenReport, Work, ReleaseTimeComes
<1>2. ToCome' = ToCome
  BY <1>1 DEF ToCome, ToPay, Offset
<1>3. Apart' => Apart
  BY <1>1 DEF Apart, At, Visited
<1>4. booking'.early = booking.early /\ booking'.released = booking.released
  BY Known0 DEF CheckReport, OpenReport, Work, ReleaseTimeComes, BookingRows
<1>5. booking.dispute # "none" => booking'.dispute = booking.dispute
  BY Known0 DEF CheckReport, OpenReport, Work, ReleaseTimeComes, BookingRows
<1>6. booking'.status = booking.status \/ ~ booking.released
  <2>1. CASE Work
    BY <2>1, Known0 DEF Work, Ended, BookFits
  <2>2. CASE CheckReport \/ OpenReport \/ ReleaseTimeComes
    BY <2>2, Known0 DEF CheckReport, OpenReport, ReleaseTimeComes, BookingRows
  <2>3. QED BY <2>1, <2>2
<1>7. Settled' <=> Settled
  BY <1>4, <1>6 DEF Settled
<1>8. QED BY <1>1, <1>2, <1>3, <1>4, <1>5, <1>7, BookingKept

\* One row and its charge move: no row collected stops being so, nor does its part grow.
LEMMA RowKept ==
  ASSUME SettlementInv, SettlementInv', Bounded, UNCHANGED vendor,
         SumFunction(Nets(sent')) = SumFunction(Nets(sent)),
         ToCome' = 0 \/ ToCome' = ToCome,
         booking'.early = booking.early, booking'.released = booking.released,
         booking'.status = booking.status, booking'.dispute = booking.dispute,
         NEW x \in Installments, NEW row \in Rows, inst' = [inst EXCEPT ![x] = row],
         \A i \in Installments \ {x} : /\ charge'[i].taken = charge[i].taken
                                       /\ charge'[i].returned = charge[i].returned,
         Counted(x) <= Counted(x)', row.out = inst[x].out,
         x \in EverPaid => /\ row.status \in {"PAID", "REFUNDED"}
                           /\ Portion(row) <= Portion(inst[x]),
         Apart' => Apart \/ Exposed = 0
  PROVE  Bounded'
<1>1. inst'[x] = row /\ \A i \in Installments \ {x} : inst'[i] = inst[i]
  BY Known0
<1>2. \A i \in Installments : Counted(i) <= Counted(i)'
  <2> SUFFICES ASSUME NEW i \in Installments PROVE Counted(i) <= Counted(i)'
    OBVIOUS
  <2>1. CASE i = x
    BY <2>1
  <2>2. CASE i # x
    <3>1. Counted(i)' = Counted(i)
      BY <1>1, <2>2 DEF Counted
    <3>2. Counted(i) \in Int
      BY BoundIs DEF BoundTyped
    <3>3. QED BY <3>1, <3>2
  <2>3. QED BY <2>1, <2>2
<1>3. Ahead => Ahead' /\ Shrunk <= Shrunk'
  <2> SUFFICES ASSUME Ahead PROVE Ahead' /\ Shrunk <= Shrunk'
    OBVIOUS
  <2>1. /\ Deposit \in Installments /\ Part(Deposit) \in Nat /\ Portion(inst[Deposit]) \in Nat
        /\ Shrunk = Part(Deposit) - Portion(inst[Deposit])
    BY NotIdleAhead
  <2>2. Deposit # None /\ Deposit \in EverPaid /\ ~ inst[Deposit].out
    BY DEF Ahead
  <2>3. CASE Deposit = x
    <3>1. inst'[Deposit] = row
      BY <1>1, <2>3
    <3>2. Deposit \in EverPaid'
      BY <2>1, <2>2, <2>3, <3>1 DEF EverPaid
    <3>3. Ahead'
      BY <2>2, <2>3, <3>1, <3>2 DEF Ahead
    <3>4. Portion(row) \in Nat /\ Portion(row) <= Portion(inst[Deposit])
      BY <2>2, <2>3, PortionIs
    <3>5. Shrunk' = Part(Deposit) - Portion(row)
      BY <3>1 DEF Shrunk, Part
    <3>6. QED BY <2>1, <3>3, <3>4, <3>5
  <2>4. CASE Deposit # x
    <3>1. inst'[Deposit] = inst[Deposit]
      BY <1>1, <2>1, <2>4
    <3>2. Ahead'
      BY <2>1, <2>2, <3>1 DEF Ahead, EverPaid
    <3>3. Shrunk' = Shrunk
      BY <3>1 DEF Shrunk, Part
    <3>4. QED BY <2>1, <3>2, <3>3
  <2>5. QED BY <2>3, <2>4
<1>4. Settled' <=> Settled
  BY DEF Settled
<1>5. booking.early <= booking'.early
  BY BoundIs DEF BoundTyped
<1>6. QED BY <1>2, <1>3, <1>4, <1>5, StepKept

\* A row counts as often, or oftener, where only its amounts or its end move.
LEMMA CountKept ==
  ASSUME SettlementInv, NEW x \in Installments, inst'[x].out = inst[x].out,
         charge'[x].returned = charge[x].returned,
         inst'[x].status = "PAID" /\ charge'[x].taken = 0 =>
           inst[x].status = "PAID" /\ charge[x].taken = 0
  PROVE  Counted(x) <= Counted(x)'
<1>1. charge[x].returned \in Nat
  BY Known0, MoneyAssumption DEF Charges
<1>2. QED BY <1>1 DEF Counted

LEMMA CloseRefundedBound ==
  ASSUME SettlementInv, SettlementInv', Bounded, CloseRefunded
  PROVE  Bounded'
<1>1. job' = Idle /\ UNCHANGED <<charge, sent, vendor>>
  BY DEF CloseRefunded, Done
<1>2. ToCome' = 0 /\ ~ Apart'
  BY <1>1, IdleApart
<1>3. CASE UNCHANGED <<booking, inst>>
  BY <1>1, <1>2, <1>3, BookingKept DEF Settled
<1>4. CASE /\ booking.status = "CONFIRMED" /\ booking' = [booking EXCEPT !.status = "CANCELLED"]
           /\ inst' = [i \in Installments |->
                IF i \in Unpaid THEN [inst[i] EXCEPT !.status = "CANCELLED"] ELSE inst[i]]
  <2>1. booking'.early = booking.early /\ booking'.status = "CANCELLED"
    BY <1>4, Known0 DEF BookingRows
  <2>2. ~ Settled /\ ~ Settled'
    BY <1>4, <2>1 DEF Settled
  <2>3. \A i \in Installments :
          /\ inst'[i].out = inst[i].out
          /\ inst'[i].status \in {"PAID", "REFUNDED"} <=> inst[i].status \in {"PAID", "REFUNDED"}
          /\ inst'[i].status = "PAID" => inst[i].status = "PAID"
          /\ Portion(inst'[i]) = Portion(inst[i])
    <3> SUFFICES ASSUME NEW i \in Installments
        PROVE
          /\ inst'[i].out = inst[i].out
          /\ inst'[i].status \in {"PAID", "REFUNDED"} <=> inst[i].status \in {"PAID", "REFUNDED"}
          /\ inst'[i].status = "PAID" => inst[i].status = "PAID"
          /\ Portion(inst'[i]) = Portion(inst[i])
      OBVIOUS
    <3>1. inst[i] \in Rows
      BY Known0
    <3>2. CASE i \in Unpaid
      <4>1. inst'[i] = [inst[i] EXCEPT !.status = "CANCELLED"]
        BY <1>4, <3>2
      <4>2. inst'[i].out = inst[i].out /\ inst'[i].status = "CANCELLED"
            /\ inst'[i].amount = inst[i].amount /\ inst'[i].fee = inst[i].fee
            /\ inst'[i].refunded = inst[i].refunded
        BY <3>1, <4>1 DEF Rows
      <4>3. QED BY <3>2, <4>2 DEF Unpaid, Portion
    <3>3. CASE i \notin Unpaid
      <4>1. inst'[i] = inst[i]
        BY <1>4, <3>3
      <4>2. QED BY <4>1
    <3>4. QED BY <3>2, <3>3
  <2>4. \A i \in Installments : Counted(i) <= Counted(i)'
    BY <1>1, <2>3, CountKept
  <2>5. Ahead => Ahead' /\ Shrunk <= Shrunk'
    <3> SUFFICES ASSUME Ahead PROVE Ahead' /\ Shrunk <= Shrunk'
      OBVIOUS
    <3>1. Deposit \in Installments /\ Shrunk \in Int
      BY NotIdleAhead
    <3>2. Ahead'
      BY <2>3, <3>1 DEF Ahead, EverPaid
    <3>3. Shrunk' = Shrunk
      BY <2>3, <3>1 DEF Shrunk, Part
    <3>4. QED BY <3>1, <3>2, <3>3
  <2>6. booking.early <= booking'.early
    BY <2>1, BoundIs DEF BoundTyped
  <2>7. QED BY <1>1, <1>2, <2>2, <2>4, <2>5, <2>6, StepKept
<1>5. QED BY <1>3, <1>4 DEF CloseRefunded

LEMMA CallOffPartBound ==
  ASSUME SettlementInv, SettlementInv', Bounded, CallOffPart
  PROVE  Bounded'
<1>1. PICK x \in Installments : x = This
  BY ThisIs DEF CallOffPart
<1>2. /\ At("refund") /\ job.todo # {} /\ Current.was # "PAID"
      /\ inst' = [inst EXCEPT ![x].status = "CANCELLED"]
      /\ job' = [job EXCEPT !.todo = @ \ {Current}]
      /\ UNCHANGED <<booking, charge, sent, vendor>>
  BY <1>1 DEF CallOffPart
<1>3. Current \in job.todo /\ Current.i = x /\ inst[x] \in Rows
  BY <1>1, <1>2, ThisIs, Known0 DEF This
<1>4. job.op = "dispute"
  BY <1>2, <1>3, Known0 DEF RefundFits, At
<1>5. job'.at = "refund" /\ job'.op = job.op /\ job'.todo \in SUBSET job.todo
  BY <1>2, Known0 DEF Jobs, At
<1>6. ToCome' = 0
  BY <1>5 DEF ToCome
<1>7. Apart' => Apart
  BY <1>2, <1>5 DEF Apart, At
<1>8. PICK row : row = [inst[x] EXCEPT !.status = "CANCELLED"]
  OBVIOUS
<1>9. row \in Rows /\ row.out = inst[x].out /\ row.status = "CANCELLED"
  BY <1>3, <1>8 DEF Rows, Statuses
<1>10. inst' = [inst EXCEPT ![x] = row]
  BY <1>2, <1>8
<1>11. inst'[x] = row /\ \A i \in Installments \ {x} : inst'[i] = inst[i]
  BY <1>10, Known0
<1>12. Counted(x) <= Counted(x)'
  BY <1>2, <1>9, <1>11, CountKept
<1>13. CASE x \notin EverPaid
  <2>1. \A i \in Installments \ {x} : /\ charge'[i].taken = charge[i].taken
                                       /\ charge'[i].returned = charge[i].returned
    BY <1>2
  <2>2. UNCHANGED <<booking, vendor>> /\ SumFunction(Nets(sent')) = SumFunction(Nets(sent))
    BY <1>2
  <2>3. QED BY <1>6, <1>7, <1>9, <1>10, <1>12, <1>13, <2>1, <2>2, RowKept
<1>14. CASE x \in EverPaid /\ x # Deposit
  <2>1. \A i \in Installments : Counted(i) <= Counted(i)'
    <3> SUFFICES ASSUME NEW i \in Installments PROVE Counted(i) <= Counted(i)'
      OBVIOUS
    <3>1. CASE i = x
      BY <1>12, <3>1
    <3>2. CASE i # x
      <4>1. Counted(i)' = Counted(i) /\ Counted(i) \in Int
        BY <1>2, <1>11, <3>2, BoundIs DEF Counted, BoundTyped
      <4>2. QED BY <4>1
    <3>3. QED BY <3>1, <3>2
  <2>2. Ahead => Ahead' /\ Shrunk <= Shrunk'
    <3> SUFFICES ASSUME Ahead PROVE Ahead' /\ Shrunk <= Shrunk'
      OBVIOUS
    <3>1. Deposit \in Installments /\ Shrunk \in Int
      BY NotIdleAhead
    <3>2. inst'[Deposit] = inst[Deposit]
      BY <1>11, <1>14, <3>1
    <3>3. Ahead' /\ Shrunk' = Shrunk
      BY <3>1, <3>2 DEF Ahead, EverPaid, Shrunk, Part
    <3>4. QED BY <3>1, <3>3
  <2>3. booking.early <= booking'.early /\ (Settled' <=> Settled)
    BY <1>2, BoundIs DEF BoundTyped, Settled
  <2>4. SumFunction(Nets(sent')) = SumFunction(Nets(sent)) /\ UNCHANGED <<booking, vendor>>
    BY <1>2
  <2>5. QED BY <1>6, <1>7, <2>1, <2>2, <2>3, <2>4, StepKept
<1>15. CASE x = Deposit
  <2>1. Apart
    BY <1>2, <1>3, <1>4, <1>15 DEF Apart, At
  <2>2. Gained <= Covers
    BY <2>1, NotExposed
  <2>3. \A i \in Installments : Counted(i) <= Counted(i)'
    <3> SUFFICES ASSUME NEW i \in Installments PROVE Counted(i) <= Counted(i)'
      OBVIOUS
    <3>1. CASE i = x
      BY <1>12, <3>1
    <3>2. CASE i # x
      <4>1. Counted(i)' = Counted(i) /\ Counted(i) \in Int
        BY <1>2, <1>11, <3>2, BoundIs DEF Counted, BoundTyped
      <4>2. QED BY <4>1
    <3>3. QED BY <3>1, <3>2
  <2>4. Covers <= Covers'
    BY <2>3, CoversOrder
  <2>5. VendorHas' = VendorHas
    BY <1>2 DEF VendorHas
  <2>6. BoundTyped /\ BoundTyped'
    BY BoundIs, BoundNext
  <2>7. Gained' <= Covers'
    BY <1>6, <2>2, <2>4, <2>5, <2>6 DEF BoundTyped
  <2>8. QED BY <2>7, BoundReached
<1>16. QED BY <1>13, <1>14, <1>15

LEMMA RecordPartBound ==
  ASSUME SettlementInv, SettlementInv', Bounded, RecordPart
  PROVE  Bounded'
<1>1. At("recordRefund") /\ job.todo # {} /\ Current.was = "PAID" /\ Take > 0
      /\ UNCHANGED <<booking, charge, sent, vendor>>
  BY Known0 DEF RecordPart, RefundFits
<1>2. PICK x \in Installments : x = This
  BY <1>1, ThisIs
<1>3. Current \in job.todo /\ inst[x] \in Rows /\ inst[x].status = "PAID"
  BY <1>1, <1>2, ThisIs, Known0 DEF RefundFits, At, This
<1>4. PICK take \in Nat : take = Take
  BY <1>1, TakeIs
<1>5. PICK end \in {"PAID", "REFUNDED"} :
      end = IF Take >= inst[x].amount - inst[x].refunded THEN "REFUNDED" ELSE "PAID"
  OBVIOUS
<1>6. PICK n \in Nat : n = inst[x].refunded + take
  BY <1>3 DEF Rows
<1>7. PICK row : row = [inst[x] EXCEPT !.refunded = n, !.status = end]
  OBVIOUS
<1>8. inst' = [inst EXCEPT ![x] = row]
  BY <1>2, <1>4, <1>5, <1>6, <1>7 DEF RecordPart
<1>9. row \in Rows /\ row.amount = inst[x].amount /\ row.fee = inst[x].fee
      /\ row.refunded = n /\ row.out = inst[x].out /\ row.status = end
  <2>1. end \in Statuses
    BY DEF Statuses
  <2>2. QED BY <1>3, <1>7, <2>1 DEF Rows
<1>10. inst'[x] = row
  BY <1>8, Known0
<1>11. Counted(x) <= Counted(x)'
  BY <1>1, <1>3, <1>9, <1>10, CountKept
<1>12. Portion(row) <= Portion(inst[x])
  BY <1>3, <1>6, <1>9 DEF Portion, AtLeast0, Rows
<1>13. job'.at = "refund" /\ job'.op = job.op /\ job'.todo \in SUBSET job.todo
  <2>1. PICK left : left = job.left - Take
    OBVIOUS
  <2>2. PICK paidOut : paidOut = IF inst[This].out THEN job.paidOut + Take ELSE job.paidOut
    OBVIOUS
  <2>3. job' = [job EXCEPT !.at = "refund", !.todo = @ \ {Current}, !.left = left,
                           !.paidOut = paidOut]
    BY <2>1, <2>2 DEF RecordPart
  <2>4. QED BY <2>3, Known0 DEF Jobs
<1>14. ToCome' = 0 /\ (Apart' => Apart)
  BY <1>1, <1>13 DEF ToCome, Apart, At
<1>15. \A i \in Installments \ {x} : /\ charge'[i].taken = charge[i].taken
                                       /\ charge'[i].returned = charge[i].returned
  BY <1>1
<1>16. SumFunction(Nets(sent')) = SumFunction(Nets(sent)) /\ UNCHANGED <<booking, vendor>>
  BY <1>1
<1>17. QED BY <1>8, <1>9, <1>11, <1>12, <1>14, <1>15, <1>16, RowKept

LEMMA LowerUnpaidBound ==
  ASSUME SettlementInv, SettlementInv', Bounded, LowerUnpaid
  PROVE  Bounded'
<1>1. At("lower") /\ job.todo # {} /\ job.left > 0 /\ UNCHANGED <<booking, charge, sent, vendor>>
  BY DEF LowerUnpaid
<1>2. PICK x \in Installments : x = This
  BY <1>1, ThisIs
<1>3. Current \in job.todo /\ Current.was \in {"SCHEDULED", "FAILED"} /\ inst[x] \in Rows
  BY <1>1, ThisIs, Known0 DEF RefundFits
<1>4. PICK low \in Nat : low = Lowered(x)
  BY <1>1, <1>2, <1>3, Known0, LoweredIs
<1>5. job'.at = "lower"
  <2>1. PICK left : left = job.left - (inst[x].amount - low)
    OBVIOUS
  <2>2. \/ job' = [job EXCEPT !.todo = @ \ {Current}]
        \/ job' = [job EXCEPT !.todo = @ \ {Current}, !.left = left]
    BY <1>2, <1>4, <2>1 DEF LowerUnpaid
  <2>3. QED BY <1>1, <2>2, Known0 DEF Jobs, At
<1>6. ToCome' = 0 /\ ~ Apart'
  BY <1>5 DEF ToCome, Apart, At
<1>7. CASE UNCHANGED inst
  BY <1>1, <1>6, <1>7, BookingKept DEF Settled
<1>8. CASE /\ inst[x].status = Current.was
           /\ inst' = [inst EXCEPT ![x].amount = low,
                                   ![x].status = IF low > 0 THEN @ ELSE "CANCELLED"]
  <2>1. PICK row : row = [inst[x] EXCEPT !.amount = low,
                                         !.status = IF low > 0 THEN @ ELSE "CANCELLED"]
    OBVIOUS
  <2>2. inst' = [inst EXCEPT ![x] = row]
    BY <1>8, <2>1
  <2>3. row \in Rows /\ row.out = inst[x].out /\ row.status \in {inst[x].status, "CANCELLED"}
    BY <1>3, <1>4, <2>1 DEF Rows, Statuses
  <2>4. inst'[x] = row
    BY <2>2, Known0
  <2>5. inst[x].status \notin {"PAID", "REFUNDED"} /\ x \notin EverPaid
    BY <1>3, <1>8 DEF EverPaid
  <2>6. Counted(x) <= Counted(x)'
    BY <1>1, <2>3, <2>4, <2>5, CountKept
  <2>7. \A i \in Installments \ {x} : /\ charge'[i].taken = charge[i].taken
                                        /\ charge'[i].returned = charge[i].returned
    BY <1>1
  <2>8. SumFunction(Nets(sent')) = SumFunction(Nets(sent)) /\ UNCHANGED <<booking, vendor>>
    BY <1>1
  <2>9. QED BY <1>6, <2>2, <2>3, <2>5, <2>6, <2>7, <2>8, RowKept
<1>9. QED BY <1>2, <1>4, <1>7, <1>8 DEF LowerUnpaid

\* Only charges move, and the keys Stripe forgets.
LEMMA ChargesKept ==
  ASSUME SettlementInv, SettlementInv', Bounded, UNCHANGED <<booking, inst, vendor>>,
         SumFunction(Nets(sent')) = SumFunction(Nets(sent)),
         ToCome' = 0 \/ ToCome' = ToCome,
         \A i \in Installments : Counted(i)' = Counted(i),
         Apart' => Apart \/ Exposed = 0
  PROVE  Bounded'
<1>1. \A i \in Installments : Counted(i) <= Counted(i)'
  <2>1. \A i \in Installments : Counted(i) \in Int
    BY BoundIs DEF BoundTyped
  <2>2. QED BY <2>1
<1>2. Ahead => Ahead' /\ Shrunk <= Shrunk'
  BY NotIdleAhead DEF Ahead, EverPaid, Shrunk, Part
<1>3. booking.early <= booking'.early
  BY BoundIs DEF BoundTyped
<1>4. Settled' <=> Settled
  BY DEF Settled
<1>5. QED BY <1>1, <1>2, <1>3, <1>4, StepKept

LEMMA JobKept ==
  ASSUME UNCHANGED job
  PROVE  ToCome' = ToCome /\ (Apart' => Apart)
<1>1. ToCome' = ToCome
  BY DEF ToCome, ToPay, Offset
<1>2. Apart' => Apart
  BY DEF Apart, At, Visited
<1>3. QED BY <1>1, <1>2

LEMMA RefundPartBound ==
  ASSUME SettlementInv, SettlementInv', Bounded, RefundPart
  PROVE  Bounded'
<1>1. At("refund") /\ job.todo # {} /\ UNCHANGED <<booking, inst, sent, vendor>>
  BY DEF RefundPart, ToRefund
<1>2. This \in Installments
  BY <1>1, ThisIs
<1>3. \A i \in Installments : /\ charge'[i].taken = charge[i].taken
                              /\ charge'[i].returned = charge[i].returned
  <2>1. CASE UNCHANGED charge
    BY <2>1
  <2>2. CASE charge' = [charge EXCEPT ![This].back = @ + Take]
    <3>1. PICK n : n = charge[This].back + Take
      OBVIOUS
    <3>2. PICK c : c = [charge[This] EXCEPT !.back = n]
      OBVIOUS
    <3>3. charge' = [charge EXCEPT ![This] = c]
      BY <2>2, <3>1, <3>2
    <3>4. charge[This] \in Charges
      BY <1>2, Known0
    <3>5. c.taken = charge[This].taken /\ c.returned = charge[This].returned
      BY <3>2, <3>4 DEF Charges
    <3>6. QED BY <3>3, <3>5, Known0
  <2>3. QED BY <2>1, <2>2 DEF RefundPart
<1>4. \A i \in Installments : Counted(i)' = Counted(i)
  BY <1>1, <1>3 DEF Counted
<1>5. ToCome' = 0 /\ (Apart' => Apart)
  <2>1. CASE job' = Idle
    BY <2>1, IdleApart
  <2>2. CASE Goto("recordRefund")
    <3>1. job'.at = "recordRefund" /\ job'.op = job.op /\ job'.todo = job.todo
      BY <2>2, Known0, GotoIs DEF Places
    <3>2. QED BY <1>1, <3>1 DEF ToCome, Apart, At
  <2>3. QED BY <2>1, <2>2 DEF RefundPart, Done
<1>6. SumFunction(Nets(sent')) = SumFunction(Nets(sent))
  BY <1>1
<1>7. QED BY <1>1, <1>4, <1>5, <1>6, ChargesKept

LEMMA ChargebackMovesBound ==
  ASSUME SettlementInv, SettlementInv', Bounded, NEW i \in Installments,
         ChargebackOpened(i) \/ ChargebackWon(i)
  PROVE  Bounded'
<1>1. PICK bank : charge' = [charge EXCEPT ![i].bank = bank]
  BY DEF ChargebackOpened, ChargebackWon
<1>2. UNCHANGED <<booking, inst, sent, vendor, job>>
  BY DEF ChargebackOpened, ChargebackWon
<1>3. \A j \in Installments : /\ charge'[j].taken = charge[j].taken
                              /\ charge'[j].returned = charge[j].returned
  <2>1. PICK c : c = [charge[i] EXCEPT !.bank = bank]
    OBVIOUS
  <2>2. charge' = [charge EXCEPT ![i] = c]
    BY <1>1, <2>1
  <2>3. charge[i] \in Charges
    BY Known0
  <2>4. c.taken = charge[i].taken /\ c.returned = charge[i].returned
    BY <2>1, <2>3 DEF Charges
  <2>5. QED BY <2>2, <2>4, Known0
<1>4. \A j \in Installments : Counted(j)' = Counted(j)
  BY <1>2, <1>3 DEF Counted
<1>5. ToCome' = ToCome /\ (Apart' => Apart)
  BY <1>2, JobKept
<1>6. SumFunction(Nets(sent')) = SumFunction(Nets(sent))
  BY <1>2
<1>7. QED BY <1>2, <1>4, <1>5, <1>6, ChargesKept

LEMMA ChargebackLostBound ==
  ASSUME SettlementInv, SettlementInv', Bounded, ChargebackLost
  PROVE  Bounded'
<1>1. PICK i \in Installments, c \in Charges :
        /\ c.taken = charge[i].taken /\ c.returned = charge[i].returned
        /\ charge' = [charge EXCEPT ![i] = c]
        /\ job'.op = "lost" /\ job'.at = "apply"
        /\ UNCHANGED <<booking, inst, sent, vendor>>
  BY ChargebackLostIs
<1>2. \A j \in Installments : /\ charge'[j].taken = charge[j].taken
                              /\ charge'[j].returned = charge[j].returned
  BY <1>1, Known0
<1>3. \A j \in Installments : Counted(j)' = Counted(j)
  BY <1>1, <1>2 DEF Counted
<1>4. ToCome' = 0 /\ ~ Apart'
  BY <1>1 DEF ToCome, Apart, At
<1>5. SumFunction(Nets(sent')) = SumFunction(Nets(sent))
  BY <1>1
<1>6. QED BY <1>1, <1>3, <1>4, <1>5, ChargesKept

\* A payment that comes back has not been dealt with yet.
LEMMA BankReturnsBound ==
  ASSUME SettlementInv, SettlementInv', Bounded, NEW i \in Installments, BankReturns(i)
  PROVE  Bounded'
<1>1. /\ inst[i].status = "PAID" /\ charge[i].taken > charge[i].back /\ KeysExpire
      /\ charge' = [charge EXCEPT ![i].taken = 0, ![i].back = 0, ![i].returned = @ + 1]
      /\ UNCHANGED <<booking, inst, vendor, job>>
  BY DEF BankReturns
<1>2. charge[i] \in Charges /\ charge[i].taken # 0 /\ charge[i].returned \in Nat
  <2>1. charge[i] \in Charges
    BY Known0
  <2>2. QED BY <1>1, <2>1, MoneyAssumption DEF Charges
<1>3. PICK n : n = charge[i].returned + 1
  OBVIOUS
<1>4. PICK c : c = [charge[i] EXCEPT !.taken = 0, !.back = 0, !.returned = n]
  OBVIOUS
<1>5. c.taken = 0 /\ c.returned = n
  BY <1>2, <1>4 DEF Charges
<1>6. charge'[i] = c /\ \A j \in Installments \ {i} : charge'[j] = charge[j]
  BY <1>1, <1>3, <1>4, Known0
<1>7. \A j \in Installments : Counted(j)' = Counted(j)
  <2> SUFFICES ASSUME NEW j \in Installments PROVE Counted(j)' = Counted(j)
    OBVIOUS
  <2>1. CASE j = i
    <3>1. inst[i].out \in BOOLEAN
      BY Known0 DEF Rows
    <3>2. PICK o \in {0, 1} : o = IF inst[i].out THEN 1 ELSE 0
      OBVIOUS
    <3>3. Counted(i) = charge[i].returned + o
      BY <1>1, <1>2, <3>2 DEF Counted
    <3>4. Counted(i)' = n - 1 + o
      BY <1>1, <1>5, <1>6, <3>2 DEF Counted
    <3>5. QED BY <1>2, <1>3, <2>1, <3>3, <3>4
  <2>2. CASE j # i
    BY <1>1, <1>6, <2>2 DEF Counted
  <2>3. QED BY <2>1, <2>2
<1>8. ToCome' = ToCome /\ (Apart' => Apart)
  BY <1>1, JobKept
<1>9. SumFunction(Nets(sent')) = SumFunction(Nets(sent))
  BY <1>1, KeysExpireIs
<1>10. QED BY <1>1, <1>7, <1>8, <1>9, ChargesKept

\* A row not paid moves, with its charge.
LEMMA UnpaidMovesBound ==
  ASSUME SettlementInv, SettlementInv', Bounded, UNCHANGED <<vendor, job>>,
         SumFunction(Nets(sent')) = SumFunction(Nets(sent)),
         booking'.early = booking.early, booking'.released = booking.released,
         booking'.status = booking.status, booking'.dispute = booking.dispute,
         NEW i \in Installments, inst[i].status \in {"SCHEDULED", "FAILED", "CLEARING"},
         NEW row \in Rows, inst' = [inst EXCEPT ![i] = row], row.out = inst[i].out,
         NEW c, charge' = [charge EXCEPT ![i] = c], c.returned = charge[i].returned,
         row.status = "PAID" => c.taken # 0
  PROVE  Bounded'
<1>1. i \notin EverPaid
  BY DEF EverPaid
<1>2. inst'[i] = row /\ charge'[i] = c /\ \A j \in Installments \ {i} : charge'[j] = charge[j]
  BY Known0
<1>3. Counted(i) <= Counted(i)'
  BY <1>2, CountKept
<1>4. ToCome' = ToCome /\ (Apart' => Apart)
  BY JobKept
<1>5. \A j \in Installments \ {i} : /\ charge'[j].taken = charge[j].taken
                                      /\ charge'[j].returned = charge[j].returned
  BY <1>2
<1>6. QED BY <1>1, <1>3, <1>4, <1>5, RowKept

LEMMA LandBound ==
  ASSUME SettlementInv, SettlementInv', Bounded, UNCHANGED <<vendor, job>>,
         SumFunction(Nets(sent')) = SumFunction(Nets(sent)),
         NEW i \in Installments, inst[i].status \in {"SCHEDULED", "FAILED", "CLEARING"},
         inst[i].amount > 0, Land(i)
  PROVE  Bounded'
<1>1. inst[i] \in Rows /\ charge[i] \in Charges
  BY Known0
<1>2. PICK row : row = [inst[i] EXCEPT !.status = "PAID"]
  OBVIOUS
<1>3. row \in Rows /\ row.out = inst[i].out
  BY <1>1, <1>2 DEF Rows, Statuses
<1>4. PICK c : c = [charge[i] EXCEPT !.taken = inst[i].amount, !.back = 0]
  OBVIOUS
<1>5. c.taken # 0 /\ c.returned = charge[i].returned
  BY <1>1, <1>4 DEF Charges, Rows
<1>6. inst' = [inst EXCEPT ![i] = row] /\ charge' = [charge EXCEPT ![i] = c]
  BY <1>2, <1>4 DEF Land
<1>7. /\ booking'.early = booking.early /\ booking'.released = booking.released
      /\ booking'.status = booking.status /\ booking'.dispute = booking.dispute
  BY Known0 DEF Land, BookingRows
<1>8. QED BY <1>3, <1>5, <1>6, <1>7, UnpaidMovesBound

LEMMA CardPaysBound ==
  ASSUME SettlementInv, SettlementInv', Bounded, NEW i \in Installments, CardPays(i)
  PROVE  Bounded'
<1>1. /\ inst[i].status \in {"SCHEDULED", "FAILED", "CLEARING"} /\ inst[i].amount > 0 /\ Land(i)
      /\ UNCHANGED <<sent, vendor, job>>
  BY DEF CardPays, Chargeable
<1>2. SumFunction(Nets(sent')) = SumFunction(Nets(sent))
  BY <1>1
<1>3. QED BY <1>1, <1>2, LandBound

LEMMA ClearingBound ==
  ASSUME SettlementInv, SettlementInv', Bounded, NEW i \in Installments,
         BankPays(i) \/ ClearingFails(i)
  PROVE  Bounded'
<1>1. PICK status \in {"CLEARING", "CANCELLED", "FAILED"} : inst' = [inst EXCEPT ![i].status = status]
  BY DEF BankPays, ClearingFails
<1>2. inst[i].status \in {"SCHEDULED", "FAILED", "CLEARING"}
      /\ UNCHANGED <<booking, charge, sent, vendor, job>>
  BY DEF BankPays, ClearingFails, Chargeable
<1>3. PICK row : row = [inst[i] EXCEPT !.status = status]
  OBVIOUS
<1>4. row \in Rows /\ row.out = inst[i].out /\ row.status # "PAID"
  <2>1. inst[i] \in Rows /\ status \in Statuses
    BY Known0 DEF Statuses
  <2>2. QED BY <1>3, <2>1 DEF Rows
<1>5. inst' = [inst EXCEPT ![i] = row] /\ charge' = [charge EXCEPT ![i] = charge[i]]
  BY <1>1, <1>2, <1>3, SameRow
<1>6. SumFunction(Nets(sent')) = SumFunction(Nets(sent)) /\ UNCHANGED <<booking, vendor, job>>
  BY <1>2
<1>7. QED BY <1>2, <1>4, <1>5, <1>6, UnpaidMovesBound

LEMMA ClearsBound ==
  ASSUME SettlementInv, SettlementInv', Bounded, NEW i \in Installments, Clears(i)
  PROVE  Bounded'
<1>1. inst[i].status = "CLEARING" /\ KeysExpire /\ UNCHANGED <<vendor, job>>
  BY DEF Clears
<1>2. SumFunction(Nets(sent')) = SumFunction(Nets(sent))
  BY <1>1, KeysExpireIs
<1>3. inst[i] \in Rows /\ charge[i] \in Charges /\ inst[i].amount > 0
  BY <1>1, Known0 DEF RowsFit, RowFits
<1>4. CASE ~ Ended
  <2>1. Land(i)
    BY <1>4 DEF Clears
  <2>2. QED BY <1>1, <1>2, <1>3, <2>1, LandBound
<1>5. CASE Ended
  <2>1. PICK amount \in Nat : amount = inst[i].amount
    BY <1>3 DEF Rows
  <2>2. PICK row : row = [inst[i] EXCEPT !.status = "REFUNDED", !.refunded = amount]
    OBVIOUS
  <2>3. row \in Rows /\ row.out = inst[i].out /\ row.status = "REFUNDED"
    BY <1>3, <2>2 DEF Rows, Statuses
  <2>4. PICK c : c = [charge[i] EXCEPT !.taken = amount, !.back = amount]
    OBVIOUS
  <2>5. c.returned = charge[i].returned
    BY <1>3, <2>4 DEF Charges
  <2>6. charge' = [charge EXCEPT ![i] = c] /\ inst' = [inst EXCEPT ![i] = row]
        /\ booking' = [booking EXCEPT !.paid = TRUE]
    BY <1>5, <2>1, <2>2, <2>4 DEF Clears
  <2>7. /\ booking'.released = booking.released /\ booking'.status = booking.status
        /\ booking'.early = booking.early /\ booking'.dispute = booking.dispute
    BY <2>6, Known0 DEF BookingRows
  <2>8. QED BY <1>1, <1>2, <2>3, <2>5, <2>6, <2>7, UnpaidMovesBound
<1>6. QED BY <1>4, <1>5

\* A lost dispute takes down the deposit's early release no further than its part.
LEMMA ApplyLossBound ==
  ASSUME SettlementInv, SettlementInv', Bounded, ApplyLoss
  PROVE  Bounded'
<1>1. At("apply") /\ UNCHANGED <<charge, sent, vendor>>
  BY ApplyLossIs
<1>2. PICK early \in Nat, amount \in Int :
        /\ TakeBack(amount) /\ early <= PartLost /\ (early > 0 => PaidEarly(job.i))
        /\ booking'.released = booking.released /\ booking'.status = booking.status
        /\ booking'.early = booking.early - early /\ booking'.dispute = booking.dispute
  BY ApplyLossIs
<1>3. PICK x \in Installments : x = job.i
  BY <1>1, AfterLossIs
<1>4. PICK row \in Rows : row = AfterLoss
  BY <1>1, AfterLossIs
<1>5. PICK lost \in Nat : lost = PartLost
  BY <1>1, AfterLossIs
<1>6. /\ job.op = "lost" /\ row.status = inst[x].status /\ row.out = inst[x].out
      /\ Portion(row) = Portion(inst[x]) - lost
  BY <1>1, <1>3, <1>4, <1>5, AfterLossIs
<1>7. inst' = [inst EXCEPT ![x] = row]
  BY <1>3, <1>4, ApplyLossIs
<1>8. inst'[x] = row /\ \A j \in Installments \ {x} : inst'[j] = inst[j]
  BY <1>7, Known0
<1>9. ToCome' = 0 /\ ~ Apart'
  BY <1>2, <1>6, TakeBackPays
<1>10. VendorHas' = VendorHas
  BY <1>1 DEF VendorHas
<1>11. BoundTyped /\ BoundTyped'
  BY BoundIs, BoundNext
<1>12. Covers <= Covers'
  <2>1. \A j \in Installments : Counted(j)' = Counted(j)
    BY <1>1, <1>6, <1>8 DEF Counted
  <2>2. \A j \in Installments : Counted(j) <= Counted(j)'
    BY <1>11, <2>1 DEF BoundTyped
  <2>3. QED BY <2>2, CoversOrder
<1>13. Gained' <= Gained
  BY <1>9, <1>10, <1>11 DEF BoundTyped
<1>14. CASE ~ Ahead
  <2>1. Gained <= Covers
    BY <1>14, DepositOut, NotExposed
  <2>2. Gained' <= Covers'
    BY <1>11, <1>12, <1>13, <2>1 DEF BoundTyped
  <2>3. QED BY <2>2, BoundReached
<1>15. CASE Ahead
  <2>1. /\ Deposit \in Installments /\ Part(Deposit) \in Nat /\ Portion(inst[Deposit]) \in Nat
        /\ Shrunk = Part(Deposit) - Portion(inst[Deposit])
    BY <1>15, NotIdleAhead
  <2>2. Ahead'
    <3>1. inst'[Deposit].status = inst[Deposit].status /\ inst'[Deposit].out = inst[Deposit].out
      BY <1>6, <1>8, <2>1
    <3>2. QED BY <1>15, <2>1, <3>1 DEF Ahead, EverPaid
  <2>3. Slack = Shrunk /\ Slack' = Shrunk' /\ Exposed' = Exposed
    BY <1>15, <2>2 DEF Slack, Exposed, Part
  <2>4. Shrunk + early <= Shrunk'
    <3>1. CASE x = Deposit
      <4>1. inst'[Deposit] = row
        BY <1>8, <3>1
      <4>2. Shrunk' = Part(Deposit) - Portion(row)
        BY <4>1 DEF Shrunk, Part
      <4>3. QED BY <1>2, <1>5, <1>6, <2>1, <3>1, <4>2
    <3>2. CASE x # Deposit
      <4>1. early = 0
        BY <1>2, <1>3, <3>2 DEF PaidEarly
      <4>2. inst'[Deposit] = inst[Deposit]
        BY <1>8, <2>1, <3>2
      <4>3. Shrunk' = Shrunk
        BY <4>2 DEF Shrunk, Part
      <4>4. QED BY <2>1, <4>1, <4>3
    <3>3. QED BY <3>1, <3>2
  <2>5. Settled' <=> Settled
    BY <1>2 DEF Settled
  <2>6. Gained' <= Covers' + Exposed'
    BY <1>11, <1>12, <1>13, <2>3 DEF Bounded, BoundTyped
  <2>7. ~ Settled' => Gained' <= Covers' + booking'.early + Slack'
    BY <1>2, <1>11, <1>12, <1>13, <2>3, <2>4, <2>5 DEF Bounded, BoundTyped
  <2>8. Settled' /\ booking'.dispute # "refunded" => Gained' <= Covers' + Slack'
    BY <1>2, <1>11, <1>12, <1>13, <2>3, <2>4, <2>5 DEF Bounded, BoundTyped
  <2>9. QED BY <1>9, <2>6, <2>7, <2>8 DEF Bounded
<1>16. QED BY <1>14, <1>15

\* A payment that came back covers what the vendor had of it.
LEMMA ReturnBeginsBound ==
  ASSUME SettlementInv, SettlementInv', Bounded, ReturnBegins
  PROVE  Bounded'
<1>1. PICK i \in ByBank, place \in {"reverse", "forget", "close"} :
        /\ inst[i].status = "PAID" /\ charge[i].taken = 0 /\ i \in Installments
        /\ inst' = [inst EXCEPT ![i] = Returned(@)]
        /\ job'.op = "return" /\ job'.at = place
        /\ place = "forget" => i = Deposit
        /\ UNCHANGED <<booking, charge, sent, vendor>>
  BY ReturnBeginsIs
<1>2. PICK row : row = Returned(inst[i])
  OBVIOUS
<1>3. ~ row.out /\ row.status \in {"FAILED", "CANCELLED"}
  BY <1>1, <1>2, ReturnedIs
<1>4. inst'[i] = row /\ \A j \in Installments \ {i} : inst'[j] = inst[j]
  BY <1>1, <1>2, Known0
<1>5. BoundTyped /\ BoundTyped'
  BY BoundIs, BoundNext
<1>6. ToCome' = 0 /\ VendorHas' = VendorHas
  BY <1>1 DEF ToCome, VendorHas
<1>7. Gained' <= Gained
  BY <1>5, <1>6 DEF BoundTyped
<1>8. charge[i].returned \in Nat
  BY <1>1, Known0, MoneyAssumption DEF Charges
<1>9. Counted(i)' = charge[i].returned
  BY <1>1, <1>3, <1>4, <1>8 DEF Counted
<1>10. \A j \in Installments \ {i} : Counted(j)' = Counted(j)
  BY <1>1, <1>4 DEF Counted
<1>11. inst[i].out => Counted(i)' = Counted(i)
  BY <1>1, <1>8, <1>9 DEF Counted
<1>12. ~ inst[i].out => Counted(i)' = Counted(i) + 1
  BY <1>1, <1>8, <1>9 DEF Counted
<1>13. \A j \in Installments : Counted(j) <= Counted(j)'
  <2> SUFFICES ASSUME NEW j \in Installments PROVE Counted(j) <= Counted(j)'
    OBVIOUS
  <2>1. Counted(j) \in Int
    BY <1>5 DEF BoundTyped
  <2>2. Counted(j)' = Counted(j) \/ Counted(j)' = Counted(j) + 1
    BY <1>10, <1>11, <1>12
  <2>3. QED BY <2>1, <2>2
<1>14. Covers <= Covers'
  BY <1>13, CoversOrder
<1>15. CASE i = Deposit /\ Ahead
  <2>1. ~ inst[i].out /\ Exposed = Part(i)
    BY <1>15 DEF Ahead, Exposed
  <2>2. PICK X \in SUBSET Installments : X = {i}
    BY <1>1
  <2>3. \A j \in X : Counted(j)' = Counted(j) + 1
    BY <1>12, <2>1, <2>2
  <2>4. \A j \in Installments \ X : Counted(j)' = Counted(j)
    BY <1>10, <2>2
  <2>5. Covers' = Covers + PartsOf(X) /\ PartsOf(X) \in Nat
    BY <2>3, <2>4, CoversAdd
  <2>6. Part(i) <= PartsOf(X) /\ Part(i) \in Nat
    BY <2>2, PartWithin
  <2>7. Gained' <= Covers'
    BY <1>5, <1>7, <2>1, <2>5, <2>6 DEF Bounded, BoundTyped
  <2>8. QED BY <2>7, BoundReached
<1>16. CASE ~ Ahead
  <2>1. Gained <= Covers
    BY <1>16, DepositOut, NotExposed
  <2>2. Gained' <= Covers'
    BY <1>5, <1>7, <1>14, <2>1 DEF BoundTyped
  <2>3. QED BY <2>2, BoundReached
<1>17. CASE i # Deposit
  <2>1. ~ Apart'
    BY <1>1, <1>17 DEF Apart, At
  <2>2. Ahead => Ahead' /\ Shrunk <= Shrunk'
    <3> SUFFICES ASSUME Ahead PROVE Ahead' /\ Shrunk <= Shrunk'
      OBVIOUS
    <3>1. Deposit \in Installments /\ Shrunk \in Int
      BY NotIdleAhead
    <3>2. inst'[Deposit] = inst[Deposit]
      BY <1>4, <1>17, <3>1
    <3>3. Ahead' /\ Shrunk' = Shrunk
      BY <3>1, <3>2 DEF Ahead, EverPaid, Shrunk, Part
    <3>4. QED BY <3>1, <3>3
  <2>3. booking.early <= booking'.early /\ (Settled' <=> Settled)
    BY <1>1, <1>5 DEF BoundTyped, Settled
  <2>4. SumFunction(Nets(sent')) = SumFunction(Nets(sent)) /\ UNCHANGED <<booking, vendor>>
    BY <1>1
  <2>5. QED BY <1>6, <1>13, <2>1, <2>2, <2>3, <2>4, StepKept
<1>18. QED BY <1>15, <1>16, <1>17

\* A payout marks its installments out as it sets out to pay them.
LEMMA ClaimIs ==
  ASSUME SettlementInv, SettlementInv', Bounded, At("claim"), job.op \in {"release", "late"},
         MarkOut, AfterClaim, UNCHANGED <<charge, sent, vendor>>
  PROVE  /\ Visited \in SUBSET Installments /\ Visited \subseteq NotOut(EverPaid)
         /\ Covers' = Covers + PartsOf(Visited) /\ PartsOf(Visited) \in Nat
         /\ job.share \in Int /\ (Gained' <= Gained \/ Gained' <= Gained + job.share)
         /\ ~ Apart'
<1>1. PICK V : V = Visited
  OBVIOUS
<1>2. V \subseteq NotOut(EverPaid) /\ V \in SUBSET Installments /\ job.share \in Int
  BY <1>1, Known0 DEF PayoutFits, NotOut, EverPaid, Jobs
<1>3. \A i \in Installments :
        /\ inst'[i].status = inst[i].status
        /\ i \in V => inst'[i].out
        /\ i \notin V => inst'[i].out = inst[i].out
  BY <1>1, Known0, MarkOutIs
<1>4. \A i \in Installments : charge[i].returned \in Nat
  BY Known0, MoneyAssumption DEF Charges
<1>5. \A i \in V : Counted(i)' = Counted(i) + 1
  <2> SUFFICES ASSUME NEW i \in V PROVE Counted(i)' = Counted(i) + 1
    OBVIOUS
  <2>1. i \in Installments /\ ~ inst[i].out /\ inst'[i].out
    BY <1>2, <1>3 DEF NotOut
  <2>2. QED BY <1>3, <1>4, <2>1 DEF Counted
<1>6. \A i \in Installments \ V : Counted(i)' = Counted(i)
  BY <1>3 DEF Counted
<1>7. Covers' = Covers + PartsOf(V) /\ PartsOf(V) \in Nat
  BY <1>2, <1>5, <1>6, CoversAdd
<1>8. BoundTyped /\ BoundTyped'
  BY BoundIs, BoundNext
<1>9. VendorHas' = VendorHas
  BY DEF VendorHas
<1>10. (ToCome' = 0 \/ ToCome' <= job.share) /\ ~ Apart'
  <2>1. CASE job.share < 0
    <3>1. PICK n : n = - job.share
      OBVIOUS
    <3>2. job' = [job EXCEPT !.at = "owe", !.left = n]
      BY <1>2, <2>1, <3>1 DEF AfterClaim
    <3>3. job'.at = "owe"
      BY <3>2, Known0 DEF Jobs
    <3>4. QED BY <3>3 DEF ToCome, Apart, At
  <2>2. CASE job.share = 0
    <3>1. job' = Idle
      BY <1>2, <2>2 DEF AfterClaim, Done
    <3>2. QED BY <3>1, IdleApart
  <2>3. CASE job.share > 0
    <3>1. PICK p \in {"offset", "send"} : Goto(p)
      BY <1>2, <2>3 DEF AfterClaim
    <3>2. p \in Places
      BY DEF Places
    <3>3. job'.at = p /\ job'.op = job.op /\ job'.share = job.share /\ job'.owed = job.owed
      BY <3>1, <3>2, Known0, GotoIs
    <3>4. ToPay' = ToPay
      BY <3>3 DEF ToPay, Offset
    <3>5. ToPay <= job.share
      BY <1>2, <2>3, OffsetIs
    <3>6. ToCome' \in {job.share, ToPay}
      BY <3>3, <3>4 DEF ToCome
    <3>7. QED BY <1>2, <3>3, <3>5, <3>6 DEF Apart, At
  <2>4. QED BY <1>2, <2>1, <2>2, <2>3
<1>11. Gained' <= Gained \/ Gained' <= Gained + job.share
  BY <1>2, <1>8, <1>9, <1>10 DEF BoundTyped
<1>12. QED BY <1>1, <1>2, <1>7, <1>10, <1>11

LEMMA VisitedAhead ==
  ASSUME SettlementInv, Visited \in SUBSET Installments, Visited \subseteq NotOut(EverPaid),
         Deposit \in Visited
  PROVE  Slack = Shrunk /\ Exposed = Part(Deposit)
<1>1. Deposit \in Installments /\ Deposit \in EverPaid /\ ~ inst[Deposit].out
  BY DEF NotOut
<1>2. Ahead
  BY <1>1, KindsAssumption DEF Ahead
<1>3. QED BY <1>2 DEF Slack, Exposed

LEMMA ClaimReleaseBound ==
  ASSUME SettlementInv, SettlementInv', Bounded, ClaimRelease
  PROVE  Bounded'
<1>1. /\ At("claim") /\ job.op = "release" /\ MarkOut /\ AfterClaim
      /\ UNCHANGED <<charge, sent, vendor>>
  BY DEF ClaimRelease
<1>2. PICK V : V = Visited
  OBVIOUS
<1>3. PICK p \in Nat : p = PartsOf(V)
  BY <1>1, <1>2, ClaimIs
<1>4. /\ V \in SUBSET Installments /\ V \subseteq NotOut(EverPaid)
      /\ Covers' = Covers + p /\ job.share \in Int
      /\ Gained' <= Gained \/ Gained' <= Gained + job.share
  BY <1>1, <1>2, <1>3, ClaimIs
<1>5. /\ job.gross + (IF Deposit \in V THEN Shrunk ELSE 0) <= p
      /\ ~ booking.released /\ job.share <= job.gross - booking.early
  BY <1>1, <1>2, <1>3, Known0 DEF PayoutFits
<1>6. job.gross \in Nat
  BY Known0 DEF Jobs
<1>7. BoundTyped /\ BoundTyped'
  BY BoundIs, BoundNext
<1>8. CASE Deposit \notin V
  <2>1. Apart
    BY <1>1, <1>2, <1>8 DEF Apart
  <2>2. Gained <= Covers
    BY <2>1, NotExposed
  <2>3. job.share <= p
    BY <1>4, <1>5, <1>6, <1>7, <1>8 DEF BoundTyped
  <2>4. Gained' <= Covers'
    BY <1>3, <1>4, <1>7, <2>2, <2>3 DEF BoundTyped
  <2>5. QED BY <2>4, BoundReached
<1>9. CASE Deposit \in V
  <2>1. Slack = Shrunk /\ Exposed = Part(Deposit)
    BY <1>2, <1>4, <1>9, VisitedAhead
  <2>2. Part(Deposit) <= p
    BY <1>3, <1>4, <1>9, PartWithin
  <2>3. Gained <= Covers + booking.early + Slack
    BY <1>5 DEF Bounded, Settled
  <2>4. Gained <= Covers + Exposed
    BY DEF Bounded
  <2>5. job.gross + Slack <= p
    BY <1>5, <1>9, <2>1
  <2>6. Gained + job.share <= Covers + p
    BY <1>3, <1>4, <1>5, <1>6, <1>7, <2>3, <2>5 DEF BoundTyped
  <2>7. Gained <= Covers + p
    BY <1>3, <1>7, <2>1, <2>2, <2>4 DEF BoundTyped
  <2>8. Gained' <= Covers'
    BY <1>3, <1>4, <1>7, <2>6, <2>7 DEF BoundTyped
  <2>9. QED BY <2>8, BoundReached
<1>10. QED BY <1>8, <1>9

LEMMA ClaimLateBound ==
  ASSUME SettlementInv, SettlementInv', Bounded, ClaimLate
  PROVE  Bounded'
<1>1. /\ At("claim") /\ job.op = "late" /\ MarkOut /\ AfterClaim
      /\ UNCHANGED <<booking, charge, sent, vendor>>
  BY DEF ClaimLate
<1>2. PICK V : V = Visited
  OBVIOUS
<1>3. PICK p \in Nat : p = PartsOf(V)
  BY <1>1, <1>2, ClaimIs
<1>4. /\ V \in SUBSET Installments /\ V \subseteq NotOut(EverPaid)
      /\ Covers' = Covers + p /\ job.share \in Int /\ ~ Apart'
      /\ Gained' <= Gained \/ Gained' <= Gained + job.share
  BY <1>1, <1>2, <1>3, ClaimIs
<1>5. /\ job.gross + (IF Deposit \in V THEN Shrunk ELSE 0) <= p
      /\ booking.status = "COMPLETED" /\ booking.released /\ booking.dispute # "refunded"
      /\ job.share <= job.gross
  BY <1>1, <1>2, <1>3, Known0 DEF PayoutFits
<1>6. job.gross \in Nat
  BY Known0 DEF Jobs
<1>7. BoundTyped /\ BoundTyped'
  BY BoundIs, BoundNext
<1>8. Settled /\ Gained <= Covers + Slack
  BY <1>5 DEF Bounded, Settled
<1>9. CASE Deposit \in V
  <2>1. Slack = Shrunk /\ Exposed = Part(Deposit)
    BY <1>2, <1>4, <1>9, VisitedAhead
  <2>2. Part(Deposit) <= p
    BY <1>3, <1>4, <1>9, PartWithin
  <2>3. job.gross + Slack <= p
    BY <1>5, <1>9, <2>1
  <2>4. Gained + job.share <= Covers + p
    BY <1>3, <1>4, <1>5, <1>6, <1>7, <1>8, <2>3 DEF BoundTyped
  <2>5. Gained <= Covers + p
    BY <1>3, <1>7, <1>8, <2>1, <2>2 DEF BoundTyped
  <2>6. Gained' <= Covers'
    BY <1>3, <1>4, <1>7, <2>4, <2>5 DEF BoundTyped
  <2>7. QED BY <2>6, BoundReached
<1>10. CASE Deposit \notin V
  <2>1. Exposed' = Exposed /\ Slack' = Slack
    <3>1. CASE Deposit \in Installments
      <4>1. /\ inst'[Deposit].status = inst[Deposit].status /\ inst'[Deposit].out = inst[Deposit].out
            /\ Portion(inst'[Deposit]) = Portion(inst[Deposit])
        BY <1>1, <1>2, <1>10, <3>1, Known0, MarkOutIs DEF Portion
      <4>2. Ahead' <=> Ahead
        BY <3>1, <4>1 DEF Ahead, EverPaid
      <4>3. Shrunk' = Shrunk
        BY <4>1 DEF Shrunk, Part
      <4>4. QED BY <4>2, <4>3 DEF Exposed, Slack, Part
    <3>2. CASE Deposit \notin Installments
      <4>1. ~ Ahead /\ ~ Ahead'
        BY <3>2 DEF Ahead, EverPaid
      <4>2. QED BY <4>1 DEF Exposed, Slack
    <3>3. QED BY <3>1, <3>2
  <2>2. job.share <= p
    BY <1>4, <1>5, <1>6, <1>10
  <2>3. Gained' <= Covers' + Slack'
    BY <1>3, <1>4, <1>7, <1>8, <2>1, <2>2 DEF BoundTyped
  <2>4. Gained' <= Covers' + Exposed'
    BY <1>7, <2>3 DEF BoundTyped
  <2>5. Settled'
    BY <1>1, <1>8 DEF Settled
  <2>6. QED BY <1>4, <2>3, <2>4, <2>5 DEF Bounded
<1>11. QED BY <1>9, <1>10

----------------------------------------------------------------------------
(* No payment is paid out twice.                                           *)

LEMMA BoundInit == ASSUME Init, SettlementInv PROVE Bounded
<1>1. BoundTyped
  BY BoundIs
<1>2. job = Idle /\ sent = <<>> /\ vendor.balance = vendor.opened /\ vendor.withdrawn = 0
      /\ vendor.opened \in Int
  <2>1. PICK b \in Balances, connected \in BOOLEAN :
          vendor = [balance |-> b, opened |-> b, withdrawn |-> 0, connected |-> connected]
    BY DEF Init
  <2>2. b \in Int
    BY MoneyAssumption
  <2>3. QED BY <2>1, <2>2 DEF Init
<1>3. SumFunction(Nets(sent)) = 0
  <2>1. DOMAIN sent = {}
    BY <1>2
  <2>2. SumFunction(Nets(sent)) = SumFunctionOnSet(Nets(sent), DOMAIN sent)
    BY Known0, NetsAre
  <2>3. QED BY <2>1, <2>2, SumOfNone
<1>4. ToCome = 0 /\ ~ Apart
  <2>1. job.at = "idle" /\ job.op = "idle"
    BY <1>2 DEF Idle
  <2>2. QED BY <2>1 DEF ToCome, Apart, At
<1>5. Gained = 0
  BY <1>1, <1>2, <1>3, <1>4 DEF BoundTyped
<1>6. \A i \in Installments : Counted(i) = 0
  <2> SUFFICES ASSUME NEW i \in Installments PROVE Counted(i) = 0
    OBVIOUS
  <2>1. Price[i] \in Nat /\ Price[i] > 0
    BY MoneyAssumption
  <2>2. charge[i].returned = 0 /\ ~ inst[i].out
        /\ ~ (inst[i].status = "PAID" /\ charge[i].taken = 0)
    BY <2>1 DEF Init
  <2>3. QED BY <2>2 DEF Counted
<1>7. Covers = 0
  <2>1. \A i \in Installments : Cover[i] = 0
    <3> SUFFICES ASSUME NEW i \in Installments PROVE Cover[i] = 0
      OBVIOUS
    <3>1. Cover[i] = Part(i) * 0 /\ Part(i) \in Nat
      BY <1>1, <1>6, PartIs DEF BoundTyped
    <3>2. QED BY <3>1
  <2>2. QED BY <1>1, <2>1, OrderAssumption, SumZero DEF BoundTyped
<1>8. Gained <= Covers + Exposed /\ Gained <= Covers + booking.early + Slack
      /\ Gained <= Covers + Slack
  BY <1>1, <1>5, <1>7 DEF BoundTyped
<1>9. QED BY <1>4, <1>8 DEF Bounded

LEMMA BoundStutter ==
  ASSUME SettlementInv, SettlementInv', Bounded, UNCHANGED vars PROVE Bounded'
<1>1. UNCHANGED <<booking, inst, charge, sent, vendor, job>>
  BY DEF vars
<1>2. ToCome' = ToCome /\ (Apart' => Apart)
  BY <1>1, JobKept
<1>3. QED BY <1>1, <1>2, JobAlone

LEMMA BoundStep ==
  ASSUME AnswersLost = FALSE, SettlementInv, SettlementInv', Bounded, [Next]_vars
  PROVE  Bounded'
<1>1. CASE UNCHANGED vars
  BY <1>1, BoundStutter
<1>2. CASE Payout
  BY <1>2, ClaimReleaseBound, ClaimLateBound, OffsetDebtBound, SendPayoutBound,
     RecordPayoutBound, CreditBalanceBound, ClaimEarlyBound, SendEarlyBound, UnsendEarlyBound
     DEF Payout
<1>3. CASE Recovery
  BY <1>3, JobTurnsBound, ReverseTransferBound, OweRestBound DEF Recovery
<1>4. CASE Refunding
  BY <1>4, ReadPartsBound, CallOffPartBound, SkipPartBound, RefundPartBound, RecordPartBound,
     LowerUnpaidBound, JobTurnsBound, RecoverGivenBackBound DEF Refunding
<1>5. CASE Settling
  BY <1>5, ResolveBound, EndRefundedBound, CloseRefundedBound, ForgetEarlyBound,
     CloseReturnBound, ApplyLossBound DEF Settling
<1>6. CASE Unlocked
  BY <1>6, ColumnsBound, ChargebackMovesBound, BankReturnsBound, CardPaysBound,
     ClearingBound, ClearsBound, WithdrawBound DEF Unlocked
<1>7. CASE JobBegins
  BY <1>7, ReleaseBeginsBound, LateBeginsBound, EarlyBeginsBound, GiveBackBeginsBound,
     DisputeBeginsBound, ReturnBeginsBound, ChargebackLostBound DEF JobBegins
<1>8. CASE Crash
  BY <1>8, JobTurnsBound
<1>9. QED BY <1>1, <1>2, <1>3, <1>4, <1>5, <1>6, <1>7, <1>8 DEF Next, JobStep

\* An installment counts no oftener than it was collected, and once less while a
\* collected one is not paid out.
LEMMA CollectedIs ==
  ASSUME SettlementInv, NEW i \in Installments
  PROVE  /\ Collected(i) \in Int /\ Counted(i) \in Int /\ Counted(i) <= Collected(i)
         /\ i \in EverPaid /\ ~ inst[i].out => Counted(i) + 1 <= Collected(i)
<1>1. charge[i].returned \in Nat /\ inst[i] \in Rows /\ RowFits(i)
  BY Known0, MoneyAssumption DEF Charges, RowsFit
<1>2. CASE i \in EverPaid
  BY <1>1, <1>2 DEF EverPaid, Collected, Counted
<1>3. CASE i \notin EverPaid
  <2>1. inst[i].status \notin {"PAID", "REFUNDED"} /\ ~ inst[i].out
    BY <1>1, <1>3 DEF EverPaid, RowFits
  <2>2. QED BY <1>1, <1>3, <2>1 DEF Collected, Counted
<1>4. QED BY <1>2, <1>3

\* What is covered, and the deposit that may be out early, are what was collected at most.
LEMMA BoundedEnough ==
  ASSUME SettlementInv, Bounded
  PROVE  NeverPaidTwice
<1>1. BoundTyped
  BY BoundIs
<1>2. PICK f : f = Cover
  OBVIOUS
<1>3. PICK g : g = [i \in Installments |-> (Price[i] - Fee[i]) * Collected(i)]
  OBVIOUS
<1>4. PICK h : h = [i \in Installments |->
                      IF Ahead /\ i = Deposit THEN f[i] + Part(i) ELSE f[i]]
  OBVIOUS
<1>5. \A i \in Installments : f[i] \in Int /\ h[i] \in Int /\ g[i] \in Int /\ h[i] <= g[i]
  <2> SUFFICES ASSUME NEW i \in Installments
               PROVE  f[i] \in Int /\ h[i] \in Int /\ g[i] \in Int /\ h[i] <= g[i]
    OBVIOUS
  <2>1. PICK p \in Nat : p = Part(i)
    BY PartIs
  <2>2. PICK m \in Int : m = Counted(i)
    BY CollectedIs
  <2>3. PICK n \in Int : n = Collected(i)
    BY CollectedIs
  <2>4. m <= n /\ (i \in EverPaid /\ ~ inst[i].out => m + 1 <= n)
    BY <2>2, <2>3, CollectedIs
  <2>5. f[i] = p * m /\ f[i] \in Int
    BY <1>1, <1>2, <2>1, <2>2 DEF BoundTyped
  <2>6. g[i] = p * n
    BY <1>3, <2>1, <2>3 DEF Part
  <2>7. p * n \in Int /\ p * m <= p * n
    BY <2>4, PartTimes
  <2>8. CASE Ahead /\ i = Deposit
    <3>1. h[i] = p * m + p
      BY <1>4, <2>1, <2>5, <2>8
    <3>2. m + 1 \in Int /\ m + 1 <= n
      BY <2>4, <2>8 DEF Ahead
    <3>3. p * (m + 1) <= p * n /\ p * (m + 1) = p * m + p /\ p * m \in Int
      BY <3>2, PartTimes
    <3>4. QED BY <2>5, <2>6, <2>7, <3>1, <3>3
  <2>9. CASE ~ (Ahead /\ i = Deposit)
    <3>1. h[i] = f[i]
      BY <1>4, <2>9
    <3>2. QED BY <2>5, <2>6, <2>7, <3>1
  <2>10. QED BY <2>8, <2>9
<1>6. IsFiniteSet(Installments)
  BY OrderAssumption
<1>7. PICK F \in Int : F = SumFunctionOnSet(f, Installments)
  BY <1>1, <1>2 DEF BoundTyped
<1>8. PICK H \in Int : H = SumFunctionOnSet(h, Installments)
  BY <1>5, <1>6, SumType
<1>9. PICK G \in Int : G = SumFunctionOnSet(g, Installments)
  BY <1>5, <1>6, SumType
<1>10. H <= G
  BY <1>5, <1>6, <1>8, <1>9, SumOrder
<1>11. H = F + Exposed
  <2>1. CASE Ahead
    <3>1. Deposit \in Installments /\ Exposed = Part(Deposit) /\ Part(Deposit) \in Nat
      BY <2>1, NotIdleAhead DEF Exposed
    <3>2. h[Deposit] = f[Deposit] + Part(Deposit)
      BY <1>4, <2>1, <3>1
    <3>3. \A y \in Installments \ {Deposit} : h[y] = f[y]
      BY <1>4
    <3>4. \A y \in Installments : f[y] \in Int /\ h[y] \in Int
      BY <1>5
    <3>5. H = F + h[Deposit] - f[Deposit]
      BY <1>6, <1>7, <1>8, <3>1, <3>3, <3>4, SumChanges
    <3>6. QED BY <3>1, <3>2, <3>4, <3>5
  <2>2. CASE ~ Ahead
    <3>1. \A y \in Installments : f[y] \in Int /\ f[y] = h[y]
      BY <1>4, <1>5, <2>2
    <3>2. F = H
      BY <1>6, <1>7, <1>8, <3>1, SumSame
    <3>3. Exposed = 0
      BY <2>2, DepositOut
    <3>4. QED BY <3>2, <3>3
  <2>3. QED BY <2>1, <2>2
<1>12. VendorHas <= F + Exposed
  BY <1>1, <1>2, <1>7 DEF Bounded, BoundTyped
<1>13. VendorHas <= G
  BY <1>1, <1>10, <1>11, <1>12 DEF BoundTyped
<1>14. G = SumFunction([i \in Installments |-> (Price[i] - Fee[i]) * Collected(i)])
  <2>1. DOMAIN g = Installments
    BY <1>3
  <2>2. QED BY <1>3, <1>9, <2>1, SumFunctionIs
<1>15. QED BY <1>13, <1>14 DEF NeverPaidTwice

\* Where a transfer that is answered with an error was not made, the vendor of a
\* booking never has more than their part of all that was ever collected for it:
\* whatever the plan, the prices, fees and debts, and in whatever order payouts, the
\* early release, refunds, give-backs, returns, bank disputes, withdrawals and
\* servers that stop between two statements follow each other.
THEOREM PaidOnce == ASSUME AnswersLost = FALSE PROVE Spec => []NeverPaidTwice
<1>1. Init => SettlementInv /\ Bounded
  BY SettlementInit, BoundInit
<1>2. SettlementInv /\ Bounded /\ [Next]_vars => (SettlementInv /\ Bounded)'
  BY SettlementStep, BoundStep
<1>3. SettlementInv /\ Bounded => NeverPaidTwice
  BY BoundedEnough
<1>4. QED BY <1>1, <1>2, <1>3, PTL DEF Spec

----------------------------------------------------------------------------
(* The rows and Stripe's side of them.                                     *)

\* What the job has moved at Stripe and not yet written to the row.
Pending(i) ==
  IF At("recordRefund") /\ This = i THEN Take
  ELSE IF At("apply") /\ job.i = i THEN job.left ELSE 0
Off(i) == inst[i].refunded + Pending(i) - charge[i].back
\* over: by how much a row may count more as refunded than Stripe has refunded.
Slacks == {{0}, Nat}
Agree(i, over) == inst[i].amount = charge[i].taken /\ Off(i) \in over
Booked(i) == inst[i].status \in {"PAID", "REFUNDED"} /\ charge[i].returned = 0

\* A lost chargeback leaves nothing of the payment.
LossWhole == At("apply") => charge[job.i].back = charge[job.i].taken
BooksAgree(over) == LossWhole /\ \A i \in Installments : Booked(i) => Agree(i, over)

HalfDone == At("recordRefund") \/ At("apply")
AnsweredAgain ==
  /\ ToRefund /\ Take > 0 /\ charge[This].returned = 0
  /\ [key |-> RefundKey(This), i |-> This, amount |-> Take] \in refunds

\* No server stops between Stripe's answer and the row's update.
NoneStopsHalfway == Crash => ~ HalfDone
\* No refund is answered as one Stripe made before under its key.
NoneAnsweredAgain == RefundPart => ~ AnsweredAgain

LEMMA NonePending ==
  ASSUME ~ HalfDone PROVE \A i \in Installments : Pending(i) = 0
  BY DEF HalfDone, Pending

LEMMA NonePendingNext ==
  ASSUME job'.at \notin {"recordRefund", "apply"}
  PROVE  ~ HalfDone' /\ \A i \in Installments : Pending(i)' = 0
  BY DEF HalfDone, Pending, At

LEMMA FreeNotHalf ==
  ASSUME SettlementInv, job.op \notin {"giveBack", "dispute", "lost"} PROVE ~ HalfDone
<1>1. RefundFits
  BY Known0
<1>2. QED BY <1>1 DEF HalfDone, RefundFits, At

LEMMA SlackIs == ASSUME NEW over \in Slacks PROVE over \subseteq Nat /\ 0 \in over
  BY DEF Slacks

\* Each row that counts agrees as it did, or anew.
LEMMA AgreeStep ==
  ASSUME NEW over \in Slacks, SettlementInv, BooksAgree(over),
         At("apply")' => charge[job.i]'.back = charge[job.i]'.taken,
         \A i \in Installments : Booked(i)' =>
           \/ Agree(i, over)'
           \/ /\ Booked(i) /\ inst'[i].amount = inst[i].amount
              /\ charge'[i].taken = charge[i].taken
              /\ inst'[i].refunded = inst[i].refunded /\ charge'[i].back = charge[i].back
              /\ Pending(i)' = Pending(i)
  PROVE  BooksAgree(over)'
<1>1. LossWhole'
  BY DEF LossWhole
<1>2. \A i \in Installments : Booked(i)' => Agree(i, over)'
  BY DEF BooksAgree, Agree, Off
<1>3. QED BY <1>1, <1>2 DEF BooksAgree

\* The job is elsewhere before and after, and no row or charge moves.
LEMMA AgreeAlone ==
  ASSUME NEW over \in Slacks, SettlementInv, BooksAgree(over), ~ HalfDone, job'.at \notin {"recordRefund", "apply"},
         \A i \in Installments : /\ inst'[i].amount = inst[i].amount
                                 /\ inst'[i].refunded = inst[i].refunded
                                 /\ Booked(i)' => Booked(i),
         charge' = charge
  PROVE  BooksAgree(over)'
<1>1. \A i \in Installments : Pending(i)' = Pending(i)
  BY NonePending, NonePendingNext
<1>2. ~ At("apply")'
  BY DEF At
<1>3. QED BY <1>1, <1>2, AgreeStep

\* The job stays, and with it the row it works on.
LEMMA PendingKept ==
  ASSUME SettlementInv, job' = job, HalfDone => \A i \in EverPaid : inst'[i] = inst[i]
  PROVE  \A i \in Installments : Pending(i)' = Pending(i)
<1>1. CASE At("recordRefund")
  <2>1. job.todo # {} /\ Current.was = "PAID"
    BY <1>1, Known0 DEF RefundFits
  <2>2. Current \in job.todo /\ This \in Installments
    BY <2>1, ThisIs
  <2>3. inst[This].status = "PAID"
    BY <1>1, <2>1, <2>2, Known0 DEF RefundFits, At, This
  <2>4. inst'[This] = inst[This]
    BY <1>1, <2>2, <2>3 DEF HalfDone, EverPaid
  <2>5. Current' = Current
    BY DEF Current
  <2>6. This' = This
    BY <2>5 DEF This
  <2>7. Take' = Take
    BY <2>4, <2>6 DEF Take, Refundable, Portion, AtLeast0, Smaller
  <2>8. QED BY <1>1, <2>6, <2>7 DEF Pending, At
<1>2. CASE ~ At("recordRefund")
  BY <1>2 DEF Pending, At
<1>3. QED BY <1>1, <1>2

\* The steps that move no row and no charge, far from a refund or a loss.
LEMMA ElsewhereAgree ==
  ASSUME NEW over \in Slacks, SettlementInv, BooksAgree(over),
         UNCHANGED <<inst, charge>>, ~ HalfDone, job'.at \notin {"recordRefund", "apply"}
  PROVE  BooksAgree(over)'
<1>1. \A i \in Installments : Booked(i)' => Booked(i)
  BY DEF Booked
<1>2. QED BY <1>1, AgreeAlone

LEMMA GoesTo ==
  ASSUME SettlementInv, NEW p \in Places \ {"recordRefund", "apply"}, Goto(p)
  PROVE  job'.at \notin {"recordRefund", "apply"}
  BY Known0, GotoIs

LEMMA IsDone == ASSUME Done PROVE job'.at \notin {"recordRefund", "apply"}
  BY DEF Done, Idle

LEMMA BeginsAgree ==
  ASSUME NEW over \in Slacks, SettlementInv, BooksAgree(over),
         ReleaseBegins \/ LateBegins \/ EarlyBegins \/ GiveBackBegins \/ DisputeBegins
  PROVE  BooksAgree(over)'
<1>1. ~ HalfDone /\ UNCHANGED <<inst, charge>>
  BY FreeNotHalf DEF Free, ReleaseBegins, LateBegins, EarlyBegins, GiveBackBegins, DisputeBegins
<1>2. job'.at \in {"claim", "lower", "parts", "resolve"}
  <2>1. CASE ReleaseBegins
    BY <2>1 DEF ReleaseBegins, Begin, Idle
  <2>2. CASE LateBegins
    BY <2>2 DEF LateBegins, Begin, Idle
  <2>3. CASE EarlyBegins
    BY <2>3 DEF EarlyBegins, Begin, Idle
  <2>4. CASE GiveBackBegins
    BY <2>4 DEF GiveBackBegins, Begin, Idle
  <2>5. CASE DisputeBegins
    BY <2>5 DEF DisputeBegins, Begin, Idle
  <2>6. QED BY <2>1, <2>2, <2>3, <2>4, <2>5
<1>3. QED BY <1>1, <1>2, ElsewhereAgree

LEMMA ClaimAgree ==
  ASSUME NEW over \in Slacks, SettlementInv, BooksAgree(over), ClaimRelease \/ ClaimLate
  PROVE  BooksAgree(over)'
<1>1. At("claim") /\ MarkOut /\ AfterClaim /\ UNCHANGED charge
  BY DEF ClaimRelease, ClaimLate
<1>2. \A i \in Installments : /\ inst'[i].amount = inst[i].amount
                              /\ inst'[i].refunded = inst[i].refunded
                              /\ Booked(i)' => Booked(i)
  BY <1>1, Known0, MarkOutIs DEF Booked
<1>3. job'.at \notin {"recordRefund", "apply"}
  <2>1. CASE job.share < 0
    <3>1. PICK n : job' = [job EXCEPT !.at = "owe", !.left = n]
      <4>1. job.share \in Int
        BY Known0 DEF Jobs
      <4>2. PICK n : n = - job.share
        OBVIOUS
      <4>3. job' = [job EXCEPT !.at = "owe", !.left = n]
        BY <1>1, <2>1, <4>1, <4>2 DEF AfterClaim
      <4>4. QED BY <4>3
    <3>2. job'.at = "owe"
      BY <3>1, Known0 DEF Jobs
    <3>3. QED BY <3>2
  <2>2. CASE job.share = 0
    BY <1>1, <2>2, IsDone DEF AfterClaim
  <2>3. CASE job.share > 0
    <3>1. PICK p \in {"offset", "send"} : Goto(p)
      BY <1>1, <2>3, Known0 DEF AfterClaim, Jobs
    <3>2. p \in Places \ {"recordRefund", "apply"}
      BY DEF Places
    <3>3. QED BY <3>1, <3>2, GoesTo
  <2>4. job.share \in Int
    BY Known0 DEF Jobs
  <2>5. QED BY <2>1, <2>2, <2>3, <2>4
<1>4. ~ HalfDone
  BY <1>1 DEF HalfDone, At
<1>5. QED BY <1>1, <1>2, <1>3, <1>4, AgreeAlone

LEMMA PayoutAgree ==
  ASSUME NEW over \in Slacks, SettlementInv, BooksAgree(over), Payout
  PROVE  BooksAgree(over)'
<1>1. CASE ClaimRelease \/ ClaimLate
  BY <1>1, ClaimAgree
<1>2. CASE OffsetDebt \/ SendPayout \/ RecordPayout \/ CreditBalance \/ ClaimEarly \/ SendEarly
           \/ UnsendEarly
  <2>1. ~ HalfDone /\ UNCHANGED <<inst, charge>>
    BY <1>2 DEF OffsetDebt, SendPayout, RecordPayout, CreditBalance, ClaimEarly, SendEarly,
       UnsendEarly, HalfDone, At
  <2>2. Done \/ \E p \in {"send", "record", "credit", "unsend"} : Goto(p)
    BY <1>2 DEF OffsetDebt, SendPayout, RecordPayout, CreditBalance, ClaimEarly, SendEarly,
       UnsendEarly, Transfer
  <2>3. \A p \in {"send", "record", "credit", "unsend"} : p \in Places \ {"recordRefund", "apply"}
    BY DEF Places
  <2>4. QED BY <2>1, <2>2, <2>3, GoesTo, IsDone, ElsewhereAgree
<1>3. QED BY <1>1, <1>2 DEF Payout

LEMMA TakesBack ==
  ASSUME SettlementInv, AfterTakeBack \/ \E amount \in Int : TakeBack(amount)
  PROVE  job'.at \notin {"recordRefund", "apply"}
<1>1. CASE AfterTakeBack
  <2>1. Done \/ Goto("close")
    BY <1>1 DEF AfterTakeBack
  <2>2. "close" \in Places \ {"recordRefund", "apply"}
    BY DEF Places
  <2>3. QED BY <2>1, <2>2, GoesTo, IsDone
<1>2. ASSUME NEW amount \in Int, TakeBack(amount) PROVE job'.at \notin {"recordRefund", "apply"}
  <2>1. CASE amount > 0
    <3>1. job' = [job EXCEPT !.at = "reverse", !.left = amount]
      BY <1>2, <2>1 DEF TakeBack
    <3>2. QED BY <3>1, Known0 DEF Jobs
  <2>2. CASE ~ (amount > 0)
    <3>1. Done \/ Goto("close")
      BY <1>2, <2>2 DEF TakeBack, AfterTakeBack
    <3>2. "close" \in Places \ {"recordRefund", "apply"}
      BY DEF Places
    <3>3. QED BY <3>1, <3>2, GoesTo, IsDone
  <2>3. QED BY <2>1, <2>2
<1>3. QED BY <1>1, <1>2

LEMMA RecoveryAgree ==
  ASSUME NEW over \in Slacks, SettlementInv, BooksAgree(over), Recovery
  PROVE  BooksAgree(over)'
<1>1. ~ HalfDone /\ UNCHANGED <<inst, charge>>
  BY DEF Recovery, TakeBackDone, ReverseTransfer, OweRest, HalfDone, At
<1>2. job'.at \notin {"recordRefund", "apply"}
  <2>1. CASE TakeBackDone \/ OweRest
    BY <2>1, TakesBack DEF TakeBackDone, OweRest
  <2>2. CASE ReverseTransfer
    <3>1. "owe" \in Places \ {"recordRefund", "apply"}
      BY DEF Places
    <3>2. CASE Goto("owe")
      BY <3>1, <3>2, GoesTo
    <3>3. CASE \E take : job' = [job EXCEPT !.left = @ - take]
      BY <2>2, <3>3, Known0 DEF ReverseTransfer, At, Jobs
    <3>4. QED BY <2>2, <3>2, <3>3 DEF ReverseTransfer
  <2>3. QED BY <2>1, <2>2 DEF Recovery
<1>3. QED BY <1>1, <1>2, ElsewhereAgree

\* A refund Stripe makes is counted at Stripe, and still to be written to the row.
LEMMA RefundPartAgree ==
  ASSUME NEW over \in Slacks, SettlementInv, BooksAgree(over), RefundPart,
         over = Nat \/ ~ AnsweredAgain
  PROVE  BooksAgree(over)'
<1>1. /\ At("refund") /\ job.todo # {} /\ ToRefund /\ Take > 0
      /\ UNCHANGED <<booking, inst, sent, vendor, report>>
  BY DEF RefundPart, ToRefund
<1>2. ~ HalfDone
  BY <1>1 DEF HalfDone, At
<1>3. CASE UNCHANGED charge /\ Done
  BY <1>1, <1>2, <1>3, IsDone, ElsewhereAgree
<1>4. CASE charge' = [charge EXCEPT ![This].back = @ + Take] /\ Goto("recordRefund")
  <2>1. This \in Installments
    BY <1>1, ThisIs
  <2>2. PICK take \in Nat : take = Take
    BY <1>1, TakeIs
  <2>3. PICK x \in Installments : x = This
    BY <2>1
  <2>4. charge[x] \in Charges
    BY Known0
  <2>5. PICK c : c = [charge[x] EXCEPT !.back = @ + take]
    OBVIOUS
  <2>6. charge' = [charge EXCEPT ![x] = c]
    BY <1>4, <2>2, <2>3, <2>5
  <2>7. c.back = charge[x].back + take /\ c.taken = charge[x].taken /\ c.returned = charge[x].returned
    BY <2>4, <2>5 DEF Charges
  <2>8. job'.at = "recordRefund" /\ job'.todo = job.todo /\ job'.left = job.left
        /\ job'.deed = job.deed
    BY <1>4, Known0, GotoIs DEF Places
  <2>9. This' = This
    BY <2>8 DEF This, Current
  <2>10. Take' = Take
    BY <1>1, <2>8, <2>9 DEF Take, Refundable, Portion, AtLeast0, Smaller
  <2>11. \A i \in Installments : Pending(i)' = IF i = x THEN take ELSE 0
    BY <2>2, <2>3, <2>8, <2>9, <2>10 DEF Pending, At
  <2>12. \A i \in Installments : Pending(i) = 0
    BY <1>2, NonePending
  <2>13. Booked(x)' => Agree(x, over)'
    <3>1. Booked(x)' => Booked(x)
      BY <1>1, <2>4, <2>6, <2>7, Known0 DEF Booked
    <3>2. Booked(x) => Agree(x, over)
      BY DEF BooksAgree
    <3>3. inst[x].refunded \in Nat /\ charge[x].back \in Nat /\ inst' = inst
      BY <1>1, <2>4, Known0 DEF Rows, Charges
    <3>4. charge'[x] = c
      BY <2>6, Known0
    <3>5. Off(x)' = Off(x) /\ charge'[x].taken = charge[x].taken
      BY <2>7, <2>11, <2>12, <3>3, <3>4 DEF Off
    <3>6. QED BY <3>1, <3>2, <3>3, <3>5 DEF Agree
  <2>14. \A i \in Installments \ {x} : charge'[i] = charge[i]
    BY <2>6, Known0
  <2>15. \A i \in Installments \ {x} : Booked(i)' => Booked(i)
    BY <1>1, <2>14 DEF Booked
  <2>16. ~ At("apply")'
    BY <2>8 DEF At
  <2>17. QED BY <1>1, <2>11, <2>12, <2>13, <2>14, <2>15, <2>16, AgreeStep
<1>5. CASE UNCHANGED charge /\ Goto("recordRefund") /\ charge[This].returned # 0
  <2>1. PICK x \in Installments : x = This
    BY <1>1, ThisIs
  <2>2. job'.at = "recordRefund" /\ job'.todo = job.todo
    BY <1>5, Known0, GotoIs DEF Places
  <2>3. This' = This
    BY <2>2 DEF This, Current
  <2>4. \A i \in Installments : i # x => Pending(i)' = 0 /\ Pending(i) = 0
    BY <1>2, <2>1, <2>2, <2>3, NonePending DEF Pending, At
  <2>5. \A i \in Installments : Booked(i)' => Booked(i) /\ i # x
    BY <1>1, <1>5, <2>1 DEF Booked
  <2>6. ~ At("apply")'
    BY <2>2 DEF At
  <2>7. QED BY <1>1, <1>5, <2>4, <2>5, <2>6, AgreeStep
<1>6. CASE UNCHANGED charge /\ Goto("recordRefund") /\ over = Nat
  <2>1. PICK x \in Installments : x = This
    BY <1>1, ThisIs
  <2>2. PICK take \in Nat : take = Take
    BY <1>1, TakeIs
  <2>3. job'.at = "recordRefund" /\ job'.todo = job.todo /\ job'.left = job.left
        /\ job'.deed = job.deed
    BY <1>6, Known0, GotoIs DEF Places
  <2>4. This' = This
    BY <2>3 DEF This, Current
  <2>5. Take' = Take
    BY <1>1, <2>3, <2>4 DEF Take, Refundable, Portion, AtLeast0, Smaller
  <2>6. \A i \in Installments : Pending(i)' = (IF i = x THEN take ELSE 0) /\ Pending(i) = 0
    BY <1>2, <2>1, <2>2, <2>3, <2>4, <2>5, NonePending DEF Pending, At
  <2>7. \A i \in Installments : Booked(i)' => Booked(i)
    BY <1>1, <1>6 DEF Booked
  <2>8. Booked(x)' => Agree(x, over)'
    <3>1. Booked(x) => Agree(x, over)
      BY DEF BooksAgree
    <3>2. inst[x].refunded \in Nat /\ charge[x].back \in Nat /\ inst' = inst /\ charge' = charge
      BY <1>1, <1>6, Known0 DEF Rows, Charges
    <3>3. Off(x)' = Off(x) + take
      BY <2>6, <3>2 DEF Off
    <3>4. Off(x) \in Nat => Off(x)' \in Nat
      BY <3>3
    <3>5. QED BY <1>6, <2>7, <3>1, <3>2, <3>4 DEF Agree
  <2>9. ~ At("apply")'
    BY <2>3 DEF At
  <2>10. QED BY <1>1, <1>6, <2>6, <2>7, <2>8, <2>9, AgreeStep
<1>7. QED BY <1>1, <1>3, <1>4, <1>5, <1>6 DEF RefundPart, AnsweredAgain

\* Writing it to the row.
LEMMA RecordPartAgree ==
  ASSUME NEW over \in Slacks, SettlementInv, BooksAgree(over), RecordPart
  PROVE  BooksAgree(over)'
<1>1. /\ At("recordRefund") /\ job.todo # {}
      /\ UNCHANGED <<booking, charge, refunds, sent, vendor, report>>
  BY Known0 DEF RecordPart, RefundFits
<1>2. PICK x \in Installments : x = This
  BY <1>1, ThisIs
<1>3. PICK take \in Int : take = Take
  BY <1>1, TakeIs
<1>4. inst[x] \in Rows /\ charge[x] \in Charges
  BY Known0
<1>5. PICK n : n = inst[x].refunded + take
  OBVIOUS
<1>6. PICK end : end = IF Take >= inst[This].amount - inst[This].refunded THEN "REFUNDED" ELSE "PAID"
  OBVIOUS
<1>7. PICK row : row = [inst[x] EXCEPT !.refunded = n, !.status = end]
  OBVIOUS
<1>8. inst' = [inst EXCEPT ![x] = row]
  BY <1>2, <1>3, <1>5, <1>6, <1>7 DEF RecordPart
<1>9. row.refunded = n /\ row.amount = inst[x].amount
  BY <1>4, <1>7 DEF Rows
<1>10. job'.at = "refund"
  <2>1. PICK todo, left, paidOut :
          job' = [job EXCEPT !.at = "refund", !.todo = todo, !.left = left, !.paidOut = paidOut]
    BY DEF RecordPart
  <2>2. QED BY <2>1, Known0 DEF Jobs
<1>11. \A i \in Installments : Pending(i) = IF i = x THEN take ELSE 0
  BY <1>1, <1>2, <1>3 DEF Pending, At
<1>12. \A i \in Installments : Pending(i)' = 0
  BY <1>10, NonePendingNext
<1>13. inst[x].status = "PAID"
  <2>1. Current.was = "PAID" /\ Current \in job.todo
    BY <1>1, ThisIs, Known0 DEF RefundFits
  <2>2. QED BY <1>1, <1>2, <2>1, Known0 DEF RefundFits, At, This
<1>14. Booked(x)' => Agree(x, over)'
  <2>1. Booked(x)' => Booked(x)
    BY <1>1, <1>13 DEF Booked
  <2>2. Booked(x) => Agree(x, over)
    BY DEF BooksAgree
  <2>3. inst[x].refunded \in Nat /\ charge[x].back \in Nat
    BY <1>4 DEF Rows, Charges
  <2>4. inst'[x] = row
    BY <1>8, Known0
  <2>5. Off(x)' = Off(x)
    BY <1>1, <1>5, <1>9, <1>11, <1>12, <2>3, <2>4 DEF Off
  <2>6. QED BY <1>1, <1>9, <2>1, <2>2, <2>4, <2>5 DEF Agree
<1>15. \A i \in Installments \ {x} : inst'[i] = inst[i]
  BY <1>8, Known0
<1>16. \A i \in Installments \ {x} : Booked(i)' => Booked(i)
  BY <1>1, <1>15 DEF Booked
<1>17. ~ At("apply")'
  BY <1>10 DEF At
<1>18. QED BY <1>1, <1>11, <1>12, <1>14, <1>15, <1>16, <1>17, AgreeStep

\* A row that is called off, lowered or returned is none the books count.
LEMMA RowLeavesAgree ==
  ASSUME NEW over \in Slacks, SettlementInv, BooksAgree(over), UNCHANGED charge, ~ HalfDone,
         job'.at \notin {"recordRefund", "apply"},
         \A i \in Installments : inst'[i] = inst[i] \/ inst'[i].status \notin {"PAID", "REFUNDED"}
  PROVE  BooksAgree(over)'
<1>1. \A i \in Installments : Pending(i)' = Pending(i)
  BY NonePending, NonePendingNext
<1>2. ~ At("apply")'
  BY DEF At
<1>3. \A i \in Installments : Booked(i)' => Booked(i) /\ inst'[i] = inst[i]
  BY DEF Booked
<1>4. QED BY <1>1, <1>2, <1>3, AgreeStep

LEMMA LowerUnpaidAgree ==
  ASSUME NEW over \in Slacks, SettlementInv, BooksAgree(over), LowerUnpaid
  PROVE  BooksAgree(over)'
<1>1. At("lower") /\ job.todo # {} /\ UNCHANGED charge
  BY DEF LowerUnpaid
<1>2. ~ HalfDone
  BY <1>1 DEF HalfDone, At
<1>3. Current \in job.todo /\ This \in Installments /\ Current.was \in {"SCHEDULED", "FAILED"}
      /\ inst[This] \in Rows
  BY <1>1, ThisIs, Known0 DEF RefundFits
<1>4. PICK low : low = Lowered(This)
  OBVIOUS
<1>5. \A i \in Installments : inst'[i] = inst[i] \/ inst'[i].status \notin {"PAID", "REFUNDED"}
  <2>1. CASE UNCHANGED inst
    BY <2>1
  <2>2. CASE /\ inst[This].status = Current.was
             /\ inst' = [inst EXCEPT ![This].amount = low,
                                     ![This].status = IF low > 0 THEN @ ELSE "CANCELLED"]
    <3>1. PICK end : end = IF low > 0 THEN inst[This].status ELSE "CANCELLED"
      OBVIOUS
    <3>2. PICK row : row = [inst[This] EXCEPT !.amount = low, !.status = end]
      OBVIOUS
    <3>3. inst' = [inst EXCEPT ![This] = row]
      BY <2>2, <3>1, <3>2
    <3>4. row.status = end
      BY <1>3, <3>2 DEF Rows
    <3>5. row.status \notin {"PAID", "REFUNDED"}
      BY <1>3, <2>2, <3>1, <3>4
    <3>6. QED BY <1>3, <3>3, <3>5, Known0
  <2>3. QED BY <1>4, <2>1, <2>2 DEF LowerUnpaid
<1>6. job'.at = "lower"
  <2>1. CASE \E left, todo : job' = [job EXCEPT !.todo = todo, !.left = left]
    BY <1>1, <2>1, Known0 DEF At, Jobs
  <2>2. CASE \E todo : job' = [job EXCEPT !.todo = todo]
    BY <1>1, <2>2, Known0 DEF At, Jobs
  <2>3. QED BY <2>1, <2>2 DEF LowerUnpaid
<1>7. QED BY <1>1, <1>2, <1>5, <1>6, RowLeavesAgree

LEMMA CallOffPartAgree ==
  ASSUME NEW over \in Slacks, SettlementInv, BooksAgree(over), CallOffPart
  PROVE  BooksAgree(over)'
<1>1. /\ At("refund") /\ job.todo # {} /\ UNCHANGED charge
      /\ inst' = [inst EXCEPT ![This].status = "CANCELLED"]
      /\ job' = [job EXCEPT !.todo = @ \ {Current}]
  BY DEF CallOffPart
<1>2. PICK x \in Installments : x = This
  BY <1>1, ThisIs
<1>3. inst[x] \in Rows
  BY Known0
<1>4. PICK row : row = [inst[x] EXCEPT !.status = "CANCELLED"]
  OBVIOUS
<1>5. inst' = [inst EXCEPT ![x] = row] /\ row.status = "CANCELLED"
  BY <1>1, <1>2, <1>3, <1>4 DEF Rows
<1>6. \A i \in Installments : inst'[i] = inst[i] \/ inst'[i].status \notin {"PAID", "REFUNDED"}
  BY <1>5, Known0
<1>7. job'.at = "refund"
  BY <1>1, Known0 DEF At, Jobs
<1>8. ~ HalfDone
  BY <1>1 DEF HalfDone, At
<1>9. QED BY <1>1, <1>6, <1>7, <1>8, RowLeavesAgree

LEMMA RefundingAgree ==
  ASSUME NEW over \in Slacks, SettlementInv, BooksAgree(over), Refunding,
         RefundPart => over = Nat \/ ~ AnsweredAgain
  PROVE  BooksAgree(over)'
<1>1. CASE RefundPart
  BY <1>1, RefundPartAgree
<1>2. CASE RecordPart
  BY <1>2, RecordPartAgree
<1>3. CASE LowerUnpaid
  BY <1>3, LowerUnpaidAgree
<1>4. CASE CallOffPart
  BY <1>4, CallOffPartAgree
<1>5. CASE ReadParts \/ SkipPart \/ RefundsDone \/ LoweringDone \/ RecoverGivenBack
  <2>1. ~ HalfDone /\ UNCHANGED <<inst, charge>>
    BY <1>5 DEF ReadParts, SkipPart, RefundsDone, LoweringDone, RecoverGivenBack, ToRefund,
       HalfDone, At
  <2>2. job'.at \notin {"recordRefund", "apply"}
    <3>1. CASE ReadParts
      BY <3>1, Known0 DEF ReadParts, Jobs
    <3>2. CASE SkipPart
      BY <3>2, Known0 DEF SkipPart, ToRefund, At, Jobs
    <3>3. CASE RefundsDone \/ LoweringDone \/ RecoverGivenBack
      <4>1. Done \/ \E p \in {"recover", "resolve", "parts"} : Goto(p)
        BY <3>3 DEF RefundsDone, LoweringDone, RecoverGivenBack
      <4>2. \A p \in {"recover", "resolve", "parts"} : p \in Places \ {"recordRefund", "apply"}
        BY DEF Places
      <4>3. QED BY <4>1, <4>2, GoesTo, IsDone
    <3>4. QED BY <1>5, <3>1, <3>2, <3>3
  <2>3. QED BY <2>1, <2>2, ElsewhereAgree
<1>6. QED BY <1>1, <1>2, <1>3, <1>4, <1>5 DEF Refunding

\* A lost chargeback takes all of the payment, and what it takes is then written
\* to the row.
LEMMA ChargebackLostAgree ==
  ASSUME NEW over \in Slacks, SettlementInv, BooksAgree(over), ChargebackLost
  PROVE  BooksAgree(over)'
<1>1. PICK x \in Installments :
       /\ charge' = [charge EXCEPT ![x].bank = "lost", ![x].back = charge[x].taken]
       /\ job' = [Begin("lost", "apply") EXCEPT
                    !.i = x, !.left = charge[x].taken - charge[x].back]
  BY DEF ChargebackLost
<1>2. Free /\ UNCHANGED inst
  BY DEF ChargebackLost
<1>3. ~ HalfDone
  BY <1>2, FreeNotHalf DEF Free
<1>4. charge[x] \in Charges /\ inst[x] \in Rows
  BY Known0
<1>5. PICK c : c = [charge[x] EXCEPT !.bank = "lost", !.back = charge[x].taken]
  OBVIOUS
<1>6. charge' = [charge EXCEPT ![x] = c]
  BY <1>1, <1>5
<1>7. c.back = charge[x].taken /\ c.taken = charge[x].taken /\ c.returned = charge[x].returned
  BY <1>4, <1>5 DEF Charges
<1>8. PICK left : left = charge[x].taken - charge[x].back
  OBVIOUS
<1>9. job'.at = "apply" /\ job'.i = x /\ job'.left = left
  BY <1>1, <1>8 DEF Begin, Idle
<1>10. \A i \in Installments : Pending(i) = 0 /\ Pending(i)' = IF i = x THEN left ELSE 0
  BY <1>3, <1>9, NonePending DEF Pending, At
<1>11. charge'[x] = c /\ \A i \in Installments \ {x} : charge'[i] = charge[i]
  BY <1>6, Known0
<1>12. \A i \in Installments : Booked(i)' => Booked(i)
  BY <1>2, <1>7, <1>11 DEF Booked
<1>13. Booked(x)' => Agree(x, over)'
  <2>1. Booked(x) => Agree(x, over)
    BY DEF BooksAgree
  <2>2. /\ inst[x].refunded \in Nat /\ charge[x].back \in Nat /\ charge[x].taken \in Nat
    BY <1>4 DEF Rows, Charges
  <2>3. Off(x)' = Off(x)
    BY <1>2, <1>7, <1>8, <1>10, <1>11, <2>2 DEF Off
  <2>4. QED BY <1>2, <1>7, <1>11, <1>12, <2>1, <2>3 DEF Agree
<1>14. charge[job.i]'.back = charge[job.i]'.taken
  BY <1>7, <1>9, <1>11
<1>15. QED BY <1>2, <1>10, <1>11, <1>12, <1>13, <1>14, AgreeStep

LEMMA ApplyLossAgree ==
  ASSUME NEW over \in Slacks, SettlementInv, BooksAgree(over), ApplyLoss
  PROVE  BooksAgree(over)'
<1>1. At("apply") /\ inst' = [inst EXCEPT ![job.i] = AfterLoss] /\ UNCHANGED charge
  BY DEF ApplyLoss
<1>2. PICK x \in Installments : x = job.i
  BY <1>1, AfterLossIs
<1>3. /\ inst[x] \in Rows /\ charge[x] \in Charges /\ job.left \in Int /\ job.left >= 0
      /\ inst[x].refunded <= inst[x].amount
  BY Known0 DEF RowsFit, RowFits
<1>4. charge[x].back = charge[x].taken
  BY <1>1, <1>2 DEF BooksAgree, LossWhole
<1>5. PICK take \in Nat : take = LostTake
  BY <1>1, AfterLossIs
<1>6. PICK row : row = AfterLoss
  OBVIOUS
<1>7. /\ row.refunded = inst[x].refunded + take /\ row.amount = inst[x].amount
      /\ row.status = inst[x].status
  BY <1>1, <1>2, <1>5, <1>6, AfterLossIs
<1>8. inst'[x] = row /\ \A i \in Installments \ {x} : inst'[i] = inst[i]
  BY <1>1, <1>2, <1>6, Known0
<1>9. job'.at \notin {"recordRefund", "apply"}
  <2>1. \E amount \in Int : TakeBack(amount)
    BY ApplyLossIs
  <2>2. QED BY <2>1, TakesBack
<1>10. \A i \in Installments : Pending(i)' = 0 /\ Pending(i) = IF i = x THEN job.left ELSE 0
  BY <1>1, <1>2, <1>9, NonePendingNext DEF Pending, At
<1>11. \A i \in Installments : Booked(i)' => Booked(i)
  BY <1>1, <1>7, <1>8 DEF Booked
<1>12. Booked(x)' => Agree(x, over)'
  <2>1. Booked(x) => Agree(x, over)
    BY DEF BooksAgree
  <2>2. /\ inst[x].refunded \in Nat /\ charge[x].back \in Nat /\ inst[x].amount \in Nat
    BY <1>3 DEF Rows, Charges
  <2>3. take = IF job.left < inst[x].amount - inst[x].refunded THEN job.left
               ELSE inst[x].amount - inst[x].refunded
    BY <1>2, <1>5 DEF LostTake, Smaller, Kept
  <2>4. ASSUME Booked(x)' PROVE Agree(x, over)'
    <3>1. /\ inst[x].amount = charge[x].taken /\ Off(x) \in over
          /\ Off(x) = inst[x].refunded + job.left - charge[x].back
      BY <1>10, <1>11, <2>1, <2>4 DEF Agree, Off
    <3>2. /\ inst'[x].amount = charge'[x].taken
          /\ Off(x)' = inst[x].refunded + take - charge[x].back
      BY <1>1, <1>7, <1>8, <1>10, <2>2, <3>1 DEF Off
    <3>3. PICK r \in Nat, b \in Nat, l \in Nat : r = inst[x].refunded /\ b = charge[x].back /\ l = job.left
      BY <1>3, <2>2
    <3>4. inst[x].amount = b /\ r <= b /\ Off(x) = r + l - b /\ Off(x)' = r + take - b
      BY <1>3, <1>4, <3>1, <3>2, <3>3
    <3>5. take = IF l < b - r THEN l ELSE b - r
      BY <2>3, <3>3, <3>4
    <3>6. Off(x) \in Nat
      BY <3>1, SlackIs
    <3>7. Off(x)' = 0
      BY <3>4, <3>5, <3>6
    <3>8. QED BY <3>2, <3>7, SlackIs DEF Agree
  <2>5. QED BY <2>4
<1>13. ~ At("apply")'
  BY <1>9 DEF At
<1>14. QED BY <1>1, <1>8, <1>10, <1>11, <1>12, <1>13, AgreeStep

LEMMA ReturnBeginsAgree ==
  ASSUME NEW over \in Slacks, SettlementInv, BooksAgree(over), ReturnBegins
  PROVE  BooksAgree(over)'
<1>1. PICK x \in ByBank, place \in {"reverse", "forget", "close"} :
        /\ x \in Installments /\ inst' = [inst EXCEPT ![x] = Returned(@)]
        /\ job'.at = place /\ job.op = "idle" /\ UNCHANGED charge
  BY ReturnBeginsIs
<1>2. PICK row : row = Returned(inst[x])
  OBVIOUS
<1>3. row.status \in {"FAILED", "CANCELLED"}
  BY <1>1, <1>2, ReturnedIs
<1>4. inst' = [inst EXCEPT ![x] = row]
  BY <1>1, <1>2
<1>5. \A i \in Installments : inst'[i] = inst[i] \/ inst'[i].status \notin {"PAID", "REFUNDED"}
  BY <1>1, <1>3, <1>4, Known0
<1>6. ~ HalfDone
  BY <1>1, FreeNotHalf
<1>7. QED BY <1>1, <1>5, <1>6, RowLeavesAgree

LEMMA CloseRefundedAgree ==
  ASSUME NEW over \in Slacks, SettlementInv, BooksAgree(over), CloseRefunded
  PROVE  BooksAgree(over)'
<1>1. ~ HalfDone /\ UNCHANGED charge /\ job'.at \notin {"recordRefund", "apply"}
  BY IsDone DEF CloseRefunded, HalfDone, At
<1>2. \A i \in Installments : inst'[i] = inst[i] \/ inst'[i].status \notin {"PAID", "REFUNDED"}
  <2>1. CASE UNCHANGED inst
    BY <2>1
  <2>2. CASE inst' = [i \in Installments |->
               IF i \in Unpaid THEN [inst[i] EXCEPT !.status = "CANCELLED"] ELSE inst[i]]
    <3>1. \A i \in Installments : inst[i] \in Rows
      BY Known0
    <3>2. QED BY <2>2, <3>1 DEF Rows
  <2>3. QED BY <2>1, <2>2 DEF CloseRefunded
<1>3. QED BY <1>1, <1>2, RowLeavesAgree

LEMMA SettlingAgree ==
  ASSUME NEW over \in Slacks, SettlementInv, BooksAgree(over), Settling
  PROVE  BooksAgree(over)'
<1>1. CASE CloseRefunded
  BY <1>1, CloseRefundedAgree
<1>2. CASE ApplyLoss
  BY <1>2, ApplyLossAgree
<1>3. CASE Resolve \/ EndRefunded \/ ForgetEarly \/ CloseReturn
  <2>1. ~ HalfDone /\ UNCHANGED <<inst, charge>>
    BY <1>3 DEF Resolve, EndRefunded, ForgetEarly, CloseReturn, HalfDone, At
  <2>2. booking.early \in Int
    BY Known0 DEF BookingRows
  <2>3. Done \/ Goto("over") \/ \E amount \in Int : TakeBack(amount)
    BY <1>3, <2>2 DEF Resolve, EndRefunded, ForgetEarly, CloseReturn
  <2>4. "over" \in Places \ {"recordRefund", "apply"}
    BY DEF Places
  <2>5. QED BY <2>1, <2>3, <2>4, GoesTo, IsDone, TakesBack, ElsewhereAgree
<1>4. QED BY <1>1, <1>2, <1>3 DEF Settling

----------------------------------------------------------------------------
(* What takes no lock, and the books.                                      *)

\* One charge or unpaid row moves while a job may be at any place.
LEMMA UnlockedRowAgree ==
  ASSUME NEW over \in Slacks, SettlementInv, BooksAgree(over), job' = job, NEW x \in Installments,
         \A i \in Installments \ {x} : inst'[i] = inst[i] /\ charge'[i] = charge[i],
         inst'[x] = inst[x] \/ x \notin EverPaid,
         charge[x].bank = "lost" => charge'[x] = charge[x],
         Booked(x)' =>
           \/ /\ Booked(x) /\ inst'[x] = inst[x]
              /\ charge'[x].taken = charge[x].taken /\ charge'[x].back = charge[x].back
           \/ /\ x \notin EverPaid /\ inst'[x].amount = charge'[x].taken
              /\ inst'[x].refunded = charge'[x].back /\ charge'[x].back \in Nat
              /\ charge[x].bank = "none"
  PROVE  BooksAgree(over)'
<1>1. HalfDone => \A i \in EverPaid : inst'[i] = inst[i]
  BY DEF EverPaid
<1>2. \A i \in Installments : Pending(i)' = Pending(i)
  BY <1>1, PendingKept
<1>3. At("apply")' => charge[job.i]'.back = charge[job.i]'.taken
  <2>1. At("apply") => /\ job.i \in Installments /\ charge[job.i].bank = "lost"
                       /\ charge[job.i].back = charge[job.i].taken
    BY Known0 DEF RefundFits, BooksAgree, LossWhole
  <2>2. QED BY <2>1 DEF At
<1>4. ASSUME x \notin EverPaid, charge[x].bank = "none" PROVE Pending(x) = 0
  <2>1. ~ (At("apply") /\ job.i = x)
    BY <1>4, Known0 DEF RefundFits
  <2>2. ~ (At("recordRefund") /\ This = x)
    <3>1. SUFFICES ASSUME At("recordRefund"), This = x PROVE FALSE
      OBVIOUS
    <3>2. Current.was = "PAID" /\ job.todo # {}
      BY <3>1, Known0 DEF RefundFits
    <3>3. inst[This].status = "PAID" /\ This \in Installments
      BY <3>1, <3>2, ThisIs, Known0 DEF RefundFits, At, This
    <3>4. QED BY <1>4, <3>1, <3>3 DEF EverPaid
  <2>3. QED BY <2>1, <2>2 DEF Pending
<1>5. \A i \in Installments \ {x} : Booked(i)' => Booked(i)
  BY DEF Booked
<1>6. Booked(x)' => \/ Agree(x, over)'
                    \/ /\ Booked(x) /\ inst'[x] = inst[x]
                       /\ charge'[x].taken = charge[x].taken /\ charge'[x].back = charge[x].back
  <2>1. ASSUME x \notin EverPaid, inst'[x].amount = charge'[x].taken,
               inst'[x].refunded = charge'[x].back, charge'[x].back \in Nat,
               charge[x].bank = "none"
        PROVE  Agree(x, over)'
    <3>1. Pending(x)' = 0
      BY <1>2, <1>4, <2>1
    <3>2. Off(x)' = 0
      BY <2>1, <3>1 DEF Off
    <3>3. QED BY <2>1, <3>2, SlackIs DEF Agree
  <2>2. QED BY <2>1
<1>7. QED BY <1>2, <1>3, <1>5, <1>6, AgreeStep

LEMMA ChargebackMovesAgree ==
  ASSUME NEW over \in Slacks, SettlementInv, BooksAgree(over), NEW x \in Installments,
         ChargebackOpened(x) \/ ChargebackWon(x)
  PROVE  BooksAgree(over)'
<1>1. PICK bank \in {"open", "won"} : charge' = [charge EXCEPT ![x].bank = bank]
  BY DEF ChargebackOpened, ChargebackWon
<1>2. UNCHANGED <<inst, job>> /\ charge[x].bank \in {"none", "open"} /\ charge[x] \in Charges
  BY Known0 DEF ChargebackOpened, ChargebackWon
<1>3. PICK c : c = [charge[x] EXCEPT !.bank = bank]
  OBVIOUS
<1>4. c.taken = charge[x].taken /\ c.back = charge[x].back /\ c.returned = charge[x].returned
  BY <1>2, <1>3 DEF Charges
<1>5. charge' = [charge EXCEPT ![x] = c]
  BY <1>1, <1>3
<1>6. charge'[x] = c /\ \A i \in Installments \ {x} : charge'[i] = charge[i]
  BY <1>5, Known0
<1>7. Booked(x)' => Booked(x)
  BY <1>2, <1>4, <1>6 DEF Booked
<1>8. QED BY <1>2, <1>4, <1>6, <1>7, UnlockedRowAgree

LEMMA BankReturnsAgree ==
  ASSUME NEW over \in Slacks, SettlementInv, BooksAgree(over), NEW x \in Installments, BankReturns(x)
  PROVE  BooksAgree(over)'
<1>1. /\ x \in ByBank /\ UNCHANGED <<inst, job>>
      /\ charge' = [charge EXCEPT ![x].taken = 0, ![x].back = 0, ![x].returned = @ + 1]
  BY DEF BankReturns
<1>2. charge[x] \in Charges /\ ChargeFits(x) /\ MaxReturns \in Nat
  BY Known0, MoneyAssumption DEF RowsFit
<1>3. charge[x].bank = "none" /\ charge[x].returned \in Nat
  BY <1>1, <1>2 DEF ChargeFits, Charges
<1>4. PICK n : n = charge[x].returned + 1
  OBVIOUS
<1>5. PICK c : c = [charge[x] EXCEPT !.taken = 0, !.back = 0, !.returned = n]
  OBVIOUS
<1>6. c.returned = n /\ n # 0
  BY <1>2, <1>3, <1>4, <1>5 DEF Charges
<1>7. charge' = [charge EXCEPT ![x] = c]
  BY <1>1, <1>4, <1>5
<1>8. charge'[x] = c /\ \A i \in Installments \ {x} : charge'[i] = charge[i]
  BY <1>7, Known0
<1>9. ~ Booked(x)'
  BY <1>6, <1>8 DEF Booked
<1>10. QED BY <1>1, <1>3, <1>8, <1>9, UnlockedRowAgree

\* What lands is written to the row as it was taken.
LEMMA LandAgree ==
  ASSUME NEW over \in Slacks, SettlementInv, BooksAgree(over), UNCHANGED job, NEW x \in Installments,
         inst[x].status \in {"SCHEDULED", "FAILED", "CLEARING"},
         NEW status, NEW back, back \in {0, inst[x].amount},
         inst' = [inst EXCEPT ![x].status = status, ![x].refunded = back],
         charge' = [charge EXCEPT ![x].taken = inst[x].amount, ![x].back = back]
  PROVE  BooksAgree(over)'
<1>1. /\ charge[x].bank = "none" /\ charge[x] \in Charges /\ inst[x] \in Rows
      /\ inst[x].refunded = 0 /\ x \notin EverPaid
  BY NotTaken
<1>2. PICK amount \in Nat : amount = inst[x].amount
  BY <1>1 DEF Rows
<1>3. back \in Nat
  BY <1>2
<1>4. PICK c : c = [charge[x] EXCEPT !.taken = amount, !.back = back]
  OBVIOUS
<1>5. PICK row : row = [inst[x] EXCEPT !.status = status, !.refunded = back]
  OBVIOUS
<1>6. c.taken = amount /\ c.back = back
  BY <1>1, <1>4 DEF Charges
<1>7. row.amount = amount /\ row.refunded = back
  BY <1>1, <1>2, <1>5 DEF Rows
<1>8. charge' = [charge EXCEPT ![x] = c] /\ inst' = [inst EXCEPT ![x] = row]
  BY <1>2, <1>4, <1>5
<1>9. charge'[x] = c /\ inst'[x] = row
      /\ \A i \in Installments \ {x} : inst'[i] = inst[i] /\ charge'[i] = charge[i]
  BY <1>8, Known0
<1>10. QED BY <1>1, <1>3, <1>6, <1>7, <1>9, UnlockedRowAgree

LEMMA LandIsWhole ==
  ASSUME SettlementInv, NEW x \in Installments, Land(x),
         inst[x].status \in {"SCHEDULED", "FAILED", "CLEARING"}
  PROVE  /\ inst' = [inst EXCEPT ![x].status = "PAID", ![x].refunded = 0]
         /\ charge' = [charge EXCEPT ![x].taken = inst[x].amount, ![x].back = 0]
<1>1. inst[x].refunded = 0 /\ inst[x] \in Rows
  BY NotTaken
<1>2. PICK row : row = [inst[x] EXCEPT !.status = "PAID"]
  OBVIOUS
<1>3. row = [inst[x] EXCEPT !.status = "PAID", !.refunded = 0]
  BY <1>1, <1>2 DEF Rows
<1>4. inst' = [inst EXCEPT ![x] = row]
  BY <1>2 DEF Land
<1>5. QED BY <1>3, <1>4 DEF Land

LEMMA ArrivesAgree ==
  ASSUME NEW over \in Slacks, SettlementInv, BooksAgree(over), NEW x \in Installments, CardPays(x) \/ Clears(x)
  PROVE  BooksAgree(over)'
<1>1. UNCHANGED job /\ inst[x].status \in {"SCHEDULED", "FAILED", "CLEARING"}
  BY DEF CardPays, Chargeable, Clears
<1>2. CASE Land(x)
  <2>1. /\ inst' = [inst EXCEPT ![x].status = "PAID", ![x].refunded = 0]
        /\ charge' = [charge EXCEPT ![x].taken = inst[x].amount, ![x].back = 0]
    BY <1>1, <1>2, LandIsWhole
  <2>2. QED BY <1>1, <2>1, LandAgree
<1>3. CASE /\ inst' = [inst EXCEPT ![x].status = "REFUNDED", ![x].refunded = inst[x].amount]
           /\ charge' = [charge EXCEPT ![x].taken = inst[x].amount, ![x].back = inst[x].amount]
  <2>1. PICK back : back = inst[x].amount
    OBVIOUS
  <2>2. QED BY <1>1, <1>3, <2>1, LandAgree
<1>4. QED BY <1>2, <1>3 DEF CardPays, Clears

LEMMA ClearingAgree ==
  ASSUME NEW over \in Slacks, SettlementInv, BooksAgree(over), NEW x \in Installments, BankPays(x) \/ ClearingFails(x)
  PROVE  BooksAgree(over)'
<1>1. UNCHANGED <<charge, job>> /\ inst[x].status \in {"SCHEDULED", "FAILED", "CLEARING"}
  BY DEF BankPays, Chargeable, ClearingFails
<1>2. PICK status \in {"CLEARING", "CANCELLED", "FAILED"} : inst' = [inst EXCEPT ![x].status = status]
  BY DEF BankPays, ClearingFails
<1>3. inst[x] \in Rows /\ x \notin EverPaid
  BY <1>1, NotTaken
<1>4. PICK row : row = [inst[x] EXCEPT !.status = status]
  OBVIOUS
<1>5. row.status = status /\ inst' = [inst EXCEPT ![x] = row]
  BY <1>2, <1>3, <1>4 DEF Rows
<1>6. inst'[x] = row /\ \A i \in Installments \ {x} : inst'[i] = inst[i]
  BY <1>5, Known0
<1>7. ~ Booked(x)'
  BY <1>5, <1>6 DEF Booked
<1>8. QED BY <1>1, <1>3, <1>6, <1>7, UnlockedRowAgree

LEMMA UnlockedAgree ==
  ASSUME NEW over \in Slacks, SettlementInv, BooksAgree(over), Unlocked
  PROVE  BooksAgree(over)'
<1>1. CASE UNCHANGED <<inst, charge, job>>
  <2>1. \A i \in Installments : Pending(i)' = Pending(i) /\ (Booked(i)' => Booked(i))
    BY <1>1, PendingKept DEF Booked
  <2>2. LossWhole' /\ LossWhole
    BY <1>1 DEF BooksAgree, LossWhole, At
  <2>3. QED BY <1>1, <2>1, <2>2, AgreeStep DEF LossWhole
<1>2. CASE CheckReport \/ OpenReport \/ Work \/ ReleaseTimeComes \/ Withdraw
  BY <1>1, <1>2 DEF CheckReport, OpenReport, Work, ReleaseTimeComes, Withdraw
<1>3. QED BY <1>2, ChargebackMovesAgree, BankReturnsAgree, ArrivesAgree, ClearingAgree DEF Unlocked

LEMMA BooksStep ==
  ASSUME NEW over \in Slacks, SettlementInv, BooksAgree(over), [Next]_vars,
         [NoneStopsHalfway]_vars, over = Nat \/ [NoneAnsweredAgain]_vars
  PROVE  BooksAgree(over)'
<1>1. CASE UNCHANGED vars
  <2>1. UNCHANGED <<inst, charge, job>>
    BY <1>1 DEF vars
  <2>2. \A i \in Installments : Pending(i)' = Pending(i) /\ (Booked(i)' => Booked(i))
    BY <2>1, PendingKept DEF Booked
  <2>3. LossWhole' /\ LossWhole
    BY <2>1 DEF BooksAgree, LossWhole, At
  <2>4. QED BY <2>1, <2>2, <2>3, AgreeStep DEF LossWhole
<1>2. CASE Payout
  BY <1>2, PayoutAgree
<1>3. CASE Recovery
  BY <1>3, RecoveryAgree
<1>4. CASE Refunding
  <2>1. CASE UNCHANGED vars
    BY <1>1, <2>1
  <2>2. CASE over = Nat \/ NoneAnsweredAgain
    BY <1>4, <2>2, RefundingAgree DEF NoneAnsweredAgain
  <2>3. QED BY <2>1, <2>2
<1>5. CASE Settling
  BY <1>5, SettlingAgree
<1>6. CASE Unlocked
  BY <1>6, UnlockedAgree
<1>7. CASE JobBegins
  BY <1>7, BeginsAgree, ReturnBeginsAgree, ChargebackLostAgree DEF JobBegins
<1>8. CASE Crash
  <2>1. CASE UNCHANGED vars
    BY <1>1, <2>1
  <2>2. CASE NoneStopsHalfway
    <3>1. ~ HalfDone /\ Done /\ UNCHANGED <<inst, charge>>
      BY <1>8, <2>2 DEF NoneStopsHalfway, Crash
    <3>2. QED BY <3>1, IsDone, ElsewhereAgree
  <2>3. QED BY <2>1, <2>2
<1>9. QED BY <1>1, <1>2, <1>3, <1>4, <1>5, <1>6, <1>7, <1>8 DEF Next, JobStep

LEMMA BooksInit == ASSUME NEW over \in Slacks, Init, SettlementInv PROVE BooksAgree(over)
<1>1. ~ HalfDone
  BY DEF Init, Idle, HalfDone, At
<1>2. \A i \in Installments : Pending(i) = 0
  BY <1>1, NonePending
<1>3. ASSUME NEW i \in Installments, Booked(i) PROVE Agree(i, over)
  <2>1. inst[i] = [status |-> IF i \in PaidAtFirst THEN "PAID" ELSE "SCHEDULED",
                   amount |-> Price[i], fee |-> Fee[i], refunded |-> 0, out |-> FALSE]
    BY DEF Init
  <2>2. charge[i] = [taken |-> IF i \in PaidAtFirst THEN Price[i] ELSE 0, back |-> 0,
                     bank |-> "none", returned |-> 0]
    BY DEF Init
  <2>3. i \in PaidAtFirst
    BY <1>3, <2>1 DEF Booked
  <2>4. Off(i) = 0
    BY <1>2, <2>1, <2>2 DEF Off
  <2>5. QED BY <2>1, <2>2, <2>3, <2>4, SlackIs DEF Agree
<1>4. ~ At("apply")
  BY <1>1 DEF HalfDone
<1>5. QED BY <1>3, <1>4 DEF BooksAgree, LossWhole

LEMMA BooksThen == ASSUME SettlementInv, BooksAgree({0}) PROVE BooksMatchStripe
<1>1. SUFFICES ASSUME Free, NEW i \in EverPaid, charge[i].returned = 0
               PROVE  inst[i].amount = charge[i].taken /\ inst[i].refunded = charge[i].back
  BY DEF BooksMatchStripe
<1>2. i \in Installments /\ Booked(i)
  BY <1>1 DEF EverPaid, Booked
<1>3. Pending(i) = 0
  BY <1>1, <1>2, FreeNotHalf, NonePending DEF Free
<1>4. inst[i].refunded \in Nat /\ charge[i].back \in Nat
  <2>1. inst[i] \in Rows /\ charge[i] \in Charges
    BY <1>1, <1>2, Known0
  <2>2. QED BY <2>1 DEF Rows, Charges
<1>5. QED BY <1>1, <1>2, <1>3, <1>4 DEF BooksAgree, Agree, Off

\* What the rows say the customer paid and got back is what Stripe holds, for any
\* plan, amounts, bank disputes, returned payments and servers that stop.  The books
\* come apart in only two ways, which the hypotheses exclude: a server that stops
\* between Stripe's refund (or closed bank dispute) and the update of the row, and a
\* refund that is answered as an earlier one under its key (refundParts,
\* applyLostChargeback, markPaid, bankPaymentReturned).
THEOREM BooksMatch ==
  Spec /\ [][NoneStopsHalfway]_vars /\ [][NoneAnsweredAgain]_vars => []BooksMatchStripe
<1>1. Init => SettlementInv /\ BooksAgree({0})
  BY SettlementInit, BooksInit DEF Slacks
<1>2. SettlementInv /\ BooksAgree({0}) /\ [Next]_vars /\ [NoneStopsHalfway]_vars
        /\ [NoneAnsweredAgain]_vars => (SettlementInv /\ BooksAgree({0}))'
  BY SettlementStep, BooksStep DEF Slacks
<1>3. SettlementInv /\ BooksAgree({0}) => BooksMatchStripe
  BY BooksThen
<1>4. QED BY <1>1, <1>2, <1>3, PTL DEF Spec

----------------------------------------------------------------------------
(* The keys of the refunds made.                                           *)

Unresolved == booking.dispute \in {"none", "open"}
Spending == job.op = "dispute" /\ job.at \in {"refund", "recordRefund", "resolve"}
\* The refund under way is this one.
Under(r) == At("recordRefund") /\ This = r.i

\* A give-back's key names fewer cents than the row counts since, and a settlement's
\* keys are of rows it is through with, until the problem is resolved.
RefundSpent(r) ==
  /\ r.key.op = "giveBack" =>
       /\ r.key.state \in Nat /\ r.key.state <= inst[r.i].refunded
       /\ r.key.state = inst[r.i].refunded => Under(r)
  /\ r.key.op = "dispute" /\ Unresolved =>
       Spending /\ \A v \in job.todo : v.i = r.i => Under(r)
KeysSpent == \A r \in refunds : charge[r.i].returned = 0 => RefundSpent(r)

\* Stripe refuses no refund.
NoneRefused == RefundPart => job' # Idle

LEMMA NotAgain ==
  ASSUME SettlementInv, KeysSpent, RefundPart PROVE ~ AnsweredAgain
<1>1. /\ At("refund") /\ job.todo # {}
  BY DEF RefundPart, ToRefund
<1>2. Current \in job.todo /\ This \in Installments /\ This = Current.i
  BY <1>1, ThisIs DEF This
<1>3. job.op \in {"giveBack", "dispute"} /\ (job.op = "dispute" => Unresolved)
  BY <1>1, Known0 DEF RefundFits, At, DisputeOpen, Unresolved
<1>4. PICK r : r = [key |-> RefundKey(This), i |-> This, amount |-> Take]
  OBVIOUS
<1>5. r.i = This /\ r.key = RefundKey(This)
  BY <1>4
<1>6. r.key.op = job.op /\ (job.op = "giveBack" => r.key.state = inst[This].refunded)
  BY <1>5 DEF RefundKey
<1>7. ~ Under(r)
  BY <1>1 DEF Under, At
<1>8. ~ RefundSpent(r)
  BY <1>2, <1>3, <1>5, <1>6, <1>7 DEF RefundSpent
<1>9. QED BY <1>4, <1>5, <1>8 DEF KeysSpent, AnsweredAgain

\* Until a payment comes back, what is refunded of it never goes down.
Grows(i) ==
  charge'[i].returned = 0 =>
    charge[i].returned = 0 /\ inst[i].refunded <= inst'[i].refunded

LEMMA SpentStep ==
  ASSUME SettlementInv, SettlementInv', KeysSpent, UNCHANGED refunds,
         \A i \in Installments : Grows(i),
         Unresolved' => Unresolved /\ (Spending => Spending' /\ job'.todo \subseteq job.todo),
         At("recordRefund") =>
           \/ job' = job
           \/ /\ inst[This].refunded < inst'[This].refunded \/ charge'[This].returned # 0
              /\ \A v \in job'.todo : v.i # This
  PROVE  KeysSpent'
<1> SUFFICES ASSUME NEW r \in refunds, charge'[r.i].returned = 0 PROVE RefundSpent(r)'
  BY DEF KeysSpent
<1>1. r.i \in Installments
  BY Known0 DEF TypeOK
<1>2. charge[r.i].returned = 0 /\ inst[r.i].refunded <= inst'[r.i].refunded
  BY <1>1 DEF Grows
<1>3. RefundSpent(r)
  BY <1>2 DEF KeysSpent
<1>4. inst[r.i].refunded \in Nat /\ inst'[r.i].refunded \in Nat
  <2>1. inst[r.i] \in Rows /\ inst'[r.i] \in Rows
    BY <1>1, Known0 DEF SettlementInv, TypeOK
  <2>2. QED BY <2>1 DEF Rows
<1>5. CASE ~ Under(r)
  <2>1. r.key.op = "giveBack" =>
          r.key.state \in Nat /\ r.key.state < inst[r.i].refunded
    BY <1>3, <1>4, <1>5 DEF RefundSpent
  <2>2. r.key.op = "giveBack" =>
          r.key.state \in Nat /\ r.key.state <= inst'[r.i].refunded
          /\ r.key.state # inst'[r.i].refunded
    BY <1>2, <1>4, <2>1
  <2>3. r.key.op = "dispute" /\ Unresolved' => Spending' /\ \A v \in job'.todo : v.i # r.i
    BY <1>3, <1>5 DEF RefundSpent
  <2>4. QED BY <2>2, <2>3 DEF RefundSpent
<1>6. CASE Under(r) /\ job' = job
  <2>1. Under(r)'
    BY <1>6 DEF Under, At, This, Current
  <2>2. r.key.op = "giveBack" => r.key.state \in Nat /\ r.key.state <= inst'[r.i].refunded
    BY <1>2, <1>3, <1>4 DEF RefundSpent
  <2>3. r.key.op = "dispute" /\ Unresolved' => Spending'
    BY <1>3 DEF RefundSpent
  <2>4. QED BY <2>1, <2>2, <2>3 DEF RefundSpent
<1>7. CASE /\ Under(r) /\ inst[This].refunded < inst'[This].refunded
           /\ \A v \in job'.todo : v.i # This
  <2>1. This = r.i
    BY <1>7 DEF Under
  <2>2. r.key.op = "giveBack" =>
          r.key.state \in Nat /\ r.key.state <= inst'[r.i].refunded
          /\ r.key.state # inst'[r.i].refunded
    BY <1>2, <1>3, <1>4, <1>7, <2>1 DEF RefundSpent
  <2>3. r.key.op = "dispute" /\ Unresolved' => Spending' /\ \A v \in job'.todo : v.i # r.i
    BY <1>3, <1>7, <2>1 DEF RefundSpent
  <2>4. QED BY <2>2, <2>3 DEF RefundSpent
<1>8. QED BY <1>5, <1>6, <1>7 DEF Under

\* The steps after which the rows' refunds and the returns are as before.
LEMMA SameGrows ==
  ASSUME SettlementInv,
         \A i \in Installments : /\ inst'[i].refunded = inst[i].refunded
                                 /\ charge'[i].returned = charge[i].returned
  PROVE  \A i \in Installments : Grows(i)
<1>1. \A i \in Installments : inst[i].refunded \in Nat
  <2>1. \A i \in Installments : inst[i] \in Rows
    BY Known0
  <2>2. QED BY <2>1 DEF Rows
<1>2. QED BY <1>1 DEF Grows

LEMMA SpentAway ==
  ASSUME SettlementInv, SettlementInv', KeysSpent, UNCHANGED refunds,
         \A i \in Installments : Grows(i), booking'.dispute = booking.dispute,
         ~ Spending, ~ At("recordRefund")
  PROVE  KeysSpent'
<1>1. Unresolved' => Unresolved
  BY DEF Unresolved
<1>2. QED BY <1>1, SpentStep

LEMMA PayoutSpent ==
  ASSUME SettlementInv, SettlementInv', KeysSpent, Payout
  PROVE  KeysSpent'
<1>1. ~ Spending /\ ~ At("recordRefund") /\ UNCHANGED <<charge, refunds>>
  BY DEF Payout, ClaimRelease, ClaimLate, OffsetDebt, SendPayout, RecordPayout, CreditBalance,
     ClaimEarly, SendEarly, UnsendEarly, Spending, At
<1>2. booking'.dispute = booking.dispute
  <2>1. CASE UNCHANGED booking
    BY <2>1
  <2>2. CASE ClaimRelease
    BY <2>2, Known0 DEF ClaimRelease, BookingRows
  <2>3. CASE ClaimEarly
    BY <2>3, Known0 DEF ClaimEarly, BookingRows
  <2>4. CASE UnsendEarly
    BY <2>4, Known0 DEF UnsendEarly, BookingRows
  <2>5. QED BY <2>1, <2>2, <2>3, <2>4 DEF Payout, ClaimLate, OffsetDebt, SendPayout, RecordPayout,
               CreditBalance, SendEarly
<1>3. \A i \in Installments : inst'[i].refunded = inst[i].refunded
  <2>1. CASE UNCHANGED inst
    BY <2>1
  <2>2. CASE MarkOut
    BY <2>2, Known0, MarkOutIs
  <2>3. QED BY <2>1, <2>2 DEF Payout, ClaimRelease, ClaimLate, OffsetDebt, SendPayout,
               RecordPayout, CreditBalance, ClaimEarly, SendEarly, UnsendEarly
<1>4. QED BY <1>1, <1>2, <1>3, SameGrows, SpentAway

LEMMA RecoverySpent ==
  ASSUME SettlementInv, SettlementInv', KeysSpent, Recovery
  PROVE  KeysSpent'
<1>1. ~ Spending /\ ~ At("recordRefund") /\ UNCHANGED <<booking, inst, charge, refunds>>
  BY DEF Recovery, TakeBackDone, ReverseTransfer, OweRest, Spending, At
<1>2. QED BY <1>1, SameGrows, SpentAway

\* A row whose other columns move.
LEMMA RowRefunded ==
  ASSUME SettlementInv, NEW x \in Installments, NEW row, inst' = [inst EXCEPT ![x] = row],
         row.refunded = inst[x].refunded
  PROVE  \A i \in Installments : inst'[i].refunded = inst[i].refunded
  BY Known0

LEMMA PartsSpent ==
  ASSUME SettlementInv, SettlementInv', KeysSpent,
         ReadParts \/ SkipPart \/ CallOffPart \/ RefundsDone
  PROVE  KeysSpent'
<1>1. UNCHANGED <<booking, charge, refunds>> /\ ~ At("recordRefund")
  BY DEF ReadParts, SkipPart, CallOffPart, RefundsDone, ToRefund, At
<1>2. \A i \in Installments : inst'[i].refunded = inst[i].refunded
  <2>1. CASE UNCHANGED inst
    BY <2>1
  <2>2. CASE CallOffPart
    <3>1. job.todo # {} /\ inst' = [inst EXCEPT ![This].status = "CANCELLED"]
      BY <2>2 DEF CallOffPart
    <3>2. PICK x \in Installments : x = This
      BY <3>1, ThisIs
    <3>3. inst[x] \in Rows
      BY Known0
    <3>4. PICK row : row = [inst[x] EXCEPT !.status = "CANCELLED"]
      OBVIOUS
    <3>5. row.refunded = inst[x].refunded /\ inst' = [inst EXCEPT ![x] = row]
      BY <3>1, <3>2, <3>3, <3>4 DEF Rows
    <3>6. QED BY <3>5, RowRefunded
  <2>3. QED BY <2>1, <2>2 DEF ReadParts, SkipPart, RefundsDone
<1>3. Spending => Spending' /\ job'.todo \subseteq job.todo
  <2>1. CASE ReadParts
    BY <2>1 DEF ReadParts, Spending, At
  <2>2. CASE SkipPart \/ CallOffPart
    <3>1. PICK rest : rest = job.todo \ {Current}
      OBVIOUS
    <3>2. At("refund") /\ job' = [job EXCEPT !.todo = rest]
      BY <2>2, <3>1 DEF SkipPart, CallOffPart, ToRefund
    <3>3. job'.op = job.op /\ job'.at = job.at /\ job'.todo = rest
      BY <3>2, Known0 DEF Jobs
    <3>4. QED BY <3>1, <3>3 DEF Spending
  <2>3. CASE RefundsDone
    <3>1. Spending => Goto("resolve")
      BY <2>3 DEF RefundsDone, Spending
    <3>2. Spending => job'.at = "resolve" /\ job'.op = job.op /\ job'.todo = job.todo
      BY <3>1, Known0, GotoIs DEF Places
    <3>3. QED BY <3>2 DEF Spending
  <2>4. QED BY <2>1, <2>2, <2>3
<1>4. Unresolved' => Unresolved
  BY <1>1 DEF Unresolved
<1>5. QED BY <1>1, <1>2, <1>3, <1>4, SameGrows, SpentStep

LEMMA RecordPartSpent ==
  ASSUME SettlementInv, SettlementInv', KeysSpent, RecordPart
  PROVE  KeysSpent'
<1>1. /\ At("recordRefund") /\ job.todo # {} /\ Take > 0
      /\ UNCHANGED <<booking, charge, refunds, sent, vendor, report>>
  BY Known0 DEF RecordPart, RefundFits
<1>2. PICK x \in Installments : x = This
  BY <1>1, ThisIs
<1>3. PICK take \in Nat \ {0} : take = Take
  BY <1>1, TakeIs
<1>4. inst[x] \in Rows /\ inst[x].refunded \in Nat
  <2>1. inst[x] \in Rows
    BY Known0
  <2>2. QED BY <2>1 DEF Rows
<1>5. PICK n : n = inst[x].refunded + take
  OBVIOUS
<1>6. PICK end : end = IF Take >= inst[This].amount - inst[This].refunded THEN "REFUNDED" ELSE "PAID"
  OBVIOUS
<1>7. PICK row : row = [inst[x] EXCEPT !.refunded = n, !.status = end]
  OBVIOUS
<1>8. inst' = [inst EXCEPT ![x] = row]
  BY <1>2, <1>3, <1>5, <1>6, <1>7 DEF RecordPart
<1>9. row.refunded = n
  BY <1>4, <1>7 DEF Rows
<1>10. inst'[x].refunded = n /\ \A i \in Installments \ {x} : inst'[i] = inst[i]
  BY <1>8, <1>9, Known0
<1>11. \A i \in Installments : Grows(i)
  <2>1. \A i \in Installments : inst[i].refunded \in Nat
    <3>1. \A i \in Installments : inst[i] \in Rows
      BY Known0
    <3>2. QED BY <3>1 DEF Rows
  <2>2. QED BY <1>1, <1>4, <1>5, <1>10, <2>1 DEF Grows
<1>12. PICK rest : rest = job.todo \ {Current}
  OBVIOUS
<1>13. job'.at = "refund" /\ job'.op = job.op /\ job'.todo = rest
  <2>1. PICK left, paidOut :
          job' = [job EXCEPT !.at = "refund", !.todo = rest, !.left = left, !.paidOut = paidOut]
    BY <1>12 DEF RecordPart
  <2>2. QED BY <2>1, Known0 DEF Jobs
<1>14. \A v \in job'.todo : v.i # This
  BY <1>1, <1>12, <1>13, ThisIs
<1>15. inst[This].refunded < inst'[This].refunded
  BY <1>2, <1>4, <1>5, <1>10
<1>16. Unresolved' => Unresolved /\ (Spending => Spending' /\ job'.todo \subseteq job.todo)
  BY <1>1, <1>12, <1>13 DEF Unresolved, Spending
<1>17. QED BY <1>1, <1>11, <1>14, <1>15, <1>16, SpentStep

LEMMA RefundPartSpent ==
  ASSUME SettlementInv, SettlementInv', KeysSpent, RefundPart, job' # Idle
  PROVE  KeysSpent'
<1>1. /\ At("refund") /\ job.todo # {} /\ Goto("recordRefund")
      /\ UNCHANGED <<booking, inst>>
  BY DEF RefundPart, ToRefund, Done
<1>2. PICK x \in Installments : x = This
  BY <1>1, ThisIs
<1>3. job'.at = "recordRefund" /\ job'.op = job.op /\ job'.todo = job.todo
  BY <1>1, Known0, GotoIs DEF Places
<1>4. This' = This
  BY <1>3 DEF This, Current
<1>5. \A i \in Installments : charge'[i].returned = charge[i].returned
  <2>1. CASE UNCHANGED charge
    BY <2>1
  <2>2. CASE charge' = [charge EXCEPT ![This].back = @ + Take]
    <3>1. PICK n : n = charge[x].back + Take
      OBVIOUS
    <3>2. PICK c : c = [charge[x] EXCEPT !.back = n]
      OBVIOUS
    <3>3. charge' = [charge EXCEPT ![x] = c]
      BY <1>2, <2>2, <3>1, <3>2
    <3>4. charge[x] \in Charges
      BY Known0
    <3>5. c.returned = charge[x].returned
      BY <3>2, <3>4 DEF Charges
    <3>6. QED BY <3>3, <3>5, Known0
  <2>3. QED BY <2>1, <2>2 DEF RefundPart
<1>6. Unresolved' => Unresolved /\ (Spending => Spending' /\ job'.todo \subseteq job.todo)
  BY <1>1, <1>3 DEF Unresolved, Spending
<1>7. PICK refund : refund = [key |-> RefundKey(This), i |-> This, amount |-> Take]
  OBVIOUS
<1>8. refunds' \subseteq refunds \cup {refund}
  BY <1>7 DEF RefundPart
<1>9. ASSUME NEW r \in refunds, charge'[r.i].returned = 0 PROVE RefundSpent(r)'
  <2>1. r.i \in Installments
    BY Known0 DEF TypeOK
  <2>2. RefundSpent(r) /\ inst' = inst
    BY <1>1, <1>5, <1>9, <2>1 DEF KeysSpent
  <2>3. ~ Under(r)
    BY <1>1 DEF Under, At
  <2>4. QED BY <1>3, <1>6, <2>2, <2>3 DEF RefundSpent
<1>10. RefundSpent(refund)'
  <2>1. refund.i = x /\ refund.key = RefundKey(This)
    BY <1>2, <1>7
  <2>2. refund.key.op = job.op /\ (job.op = "giveBack" => refund.key.state = inst[x].refunded)
    BY <1>2, <2>1 DEF RefundKey
  <2>3. Under(refund)'
    BY <1>2, <1>3, <1>4, <2>1 DEF Under, At
  <2>4. inst[x].refunded \in Nat /\ inst' = inst
    <3>1. inst[x] \in Rows
      BY Known0
    <3>2. QED BY <1>1, <3>1 DEF Rows
  <2>5. job.op = "dispute" => Spending'
    BY <1>3 DEF Spending
  <2>6. QED BY <2>1, <2>2, <2>3, <2>4, <2>5 DEF RefundSpent
<1>11. QED BY <1>8, <1>9, <1>10 DEF KeysSpent

LEMMA RefundingSpent ==
  ASSUME SettlementInv, SettlementInv', KeysSpent, Refunding, RefundPart => job' # Idle
  PROVE  KeysSpent'
<1>1. CASE RefundPart
  BY <1>1, RefundPartSpent
<1>2. CASE RecordPart
  BY <1>2, RecordPartSpent
<1>3. CASE ReadParts \/ SkipPart \/ CallOffPart \/ RefundsDone
  BY <1>3, PartsSpent
<1>4. CASE LowerUnpaid \/ LoweringDone \/ RecoverGivenBack
  <2>1. UNCHANGED <<booking, charge, refunds>> /\ job.at \in {"lower", "recover"}
    BY <1>4 DEF LowerUnpaid, LoweringDone, RecoverGivenBack, At
  <2>2. ~ Spending /\ ~ At("recordRefund")
    BY <2>1 DEF Spending, At
  <2>3. \A i \in Installments : inst'[i].refunded = inst[i].refunded
    <3>1. CASE UNCHANGED inst
      BY <3>1
    <3>2. CASE LowerUnpaid /\ ~ UNCHANGED inst
      <4>1. At("lower") /\ job.todo # {}
        BY <3>2 DEF LowerUnpaid
      <4>2. PICK x \in Installments : x = This
        BY <4>1, ThisIs
      <4>3. PICK low : low = Lowered(This)
        OBVIOUS
      <4>4. PICK end : end = IF low > 0 THEN inst[x].status ELSE "CANCELLED"
        OBVIOUS
      <4>5. inst' = [inst EXCEPT ![This].amount = low,
                                 ![This].status = IF low > 0 THEN @ ELSE "CANCELLED"]
        BY <3>2, <4>3 DEF LowerUnpaid
      <4>6. PICK row : row = [inst[x] EXCEPT !.amount = low, !.status = end]
        OBVIOUS
      <4>7. inst' = [inst EXCEPT ![x] = row]
        BY <4>2, <4>4, <4>5, <4>6
      <4>8. inst[x] \in Rows
        BY Known0
      <4>9. row.refunded = inst[x].refunded
        BY <4>6, <4>8 DEF Rows
      <4>10. QED BY <4>7, <4>9, RowRefunded
    <3>3. QED BY <1>4, <3>1, <3>2 DEF LoweringDone, RecoverGivenBack
  <2>4. QED BY <2>1, <2>2, <2>3, SameGrows, SpentAway
<1>5. QED BY <1>1, <1>2, <1>3, <1>4 DEF Refunding

LEMMA SettlingSpent ==
  ASSUME SettlementInv, SettlementInv', KeysSpent, Settling
  PROVE  KeysSpent'
<1>1. UNCHANGED <<charge, refunds>> /\ ~ At("recordRefund")
  BY DEF Settling, Resolve, EndRefunded, CloseRefunded, ForgetEarly, CloseReturn, ApplyLoss, At
<1>2. CASE Resolve
  <2>1. booking'.dispute \in {"refunded", "resolved"} /\ UNCHANGED inst
    <3>1. PICK dispute \in {"refunded", "resolved"} :
            dispute = IF job.deed = "refund" THEN "refunded" ELSE "resolved"
      OBVIOUS
    <3>2. PICK due : due = (booking.due \/ (job.deed # "refund" /\ booking.status = "COMPLETED"))
      OBVIOUS
    <3>3. booking' = [booking EXCEPT !.dispute = dispute, !.due = due]
      BY <1>2, <3>1, <3>2 DEF Resolve
    <3>4. QED BY <1>2, <3>1, <3>3, Known0 DEF Resolve, BookingRows
  <2>2. ~ Unresolved'
    BY <2>1 DEF Unresolved
  <2>3. QED BY <1>1, <2>1, <2>2, SameGrows, SpentStep
<1>3. CASE EndRefunded \/ CloseRefunded \/ ForgetEarly \/ CloseReturn \/ ApplyLoss
  <2>1. ~ Spending
    BY <1>3 DEF EndRefunded, CloseRefunded, ForgetEarly, CloseReturn, ApplyLoss, Spending, At
  <2>2. booking'.dispute = booking.dispute
    <3>1. CASE ApplyLoss
      BY <3>1, ApplyLossIs
    <3>2. CASE EndRefunded \/ CloseRefunded \/ ForgetEarly \/ CloseReturn
      BY <3>2, Known0 DEF EndRefunded, CloseRefunded, ForgetEarly, CloseReturn, BookingRows
    <3>3. QED BY <1>3, <3>1, <3>2
  <2>3. \A i \in Installments : Grows(i)
    <3>1. CASE UNCHANGED inst
      BY <1>1, <3>1, SameGrows
    <3>2. CASE inst' = [i \in Installments |->
               IF i \in Unpaid THEN [inst[i] EXCEPT !.status = "CANCELLED"] ELSE inst[i]]
      <4>1. \A i \in Installments : inst[i] \in Rows
        BY Known0
      <4>2. \A i \in Installments : inst'[i].refunded = inst[i].refunded
        BY <3>2, <4>1 DEF Rows
      <4>3. QED BY <1>1, <4>2, SameGrows
    <3>3. CASE ApplyLoss
      <4>1. PICK x \in Installments : x = job.i
        BY <3>3, AfterLossIs DEF ApplyLoss
      <4>2. PICK row : row = AfterLoss
        OBVIOUS
      <4>3. PICK take \in Nat : take = LostTake
        BY <3>3, AfterLossIs DEF ApplyLoss
      <4>4. row.refunded = inst[x].refunded + take /\ inst' = [inst EXCEPT ![x] = row]
        BY <3>3, <4>1, <4>2, <4>3, AfterLossIs DEF ApplyLoss
      <4>5. \A i \in Installments : inst[i].refunded \in Nat
        <5>1. \A i \in Installments : inst[i] \in Rows
          BY Known0
        <5>2. QED BY <5>1 DEF Rows
      <4>6. inst'[x] = row /\ \A i \in Installments \ {x} : inst'[i] = inst[i]
        BY <4>4, Known0
      <4>7. QED BY <1>1, <4>4, <4>5, <4>6 DEF Grows
    <3>4. QED BY <1>3, <3>1, <3>2, <3>3 DEF EndRefunded, CloseRefunded, ForgetEarly, CloseReturn
  <2>4. QED BY <1>1, <2>1, <2>2, <2>3, SpentAway
<1>4. QED BY <1>2, <1>3 DEF Settling

LEMMA BeginsSpent ==
  ASSUME SettlementInv, SettlementInv', BooksAgree({0}), KeysSpent, JobBegins
  PROVE  KeysSpent'
<1>1. job.op = "idle" /\ UNCHANGED <<booking, refunds>>
  BY DEF JobBegins, ReleaseBegins, LateBegins, EarlyBegins, GiveBackBegins, DisputeBegins,
     ReturnBegins, ChargebackLost, Free
<1>2. ~ Spending /\ ~ HalfDone
  BY <1>1, FreeNotHalf DEF Spending
<1>3. \A i \in Installments : Grows(i)
  <2>1. CASE UNCHANGED <<inst, charge>>
    BY <2>1, SameGrows
  <2>2. CASE ChargebackLost
    <3>1. PICK x \in Installments, c \in Charges :
            /\ c.returned = charge[x].returned /\ charge' = [charge EXCEPT ![x] = c]
            /\ UNCHANGED inst
      BY <2>2, ChargebackLostIs
    <3>2. \A i \in Installments : charge'[i].returned = charge[i].returned
      BY <3>1, Known0
    <3>3. QED BY <3>1, <3>2, SameGrows
  <2>3. CASE ReturnBegins
    <3>1. PICK x \in ByBank :
            /\ inst[x].status = "PAID" /\ charge[x].taken = 0 /\ x \in Installments
            /\ inst' = [inst EXCEPT ![x] = Returned(@)] /\ UNCHANGED charge
      BY <2>3, ReturnBeginsIs
    <3>2. PICK row : row = Returned(inst[x])
      OBVIOUS
    <3>3. row.refunded = 0
      BY <3>1, <3>2, ReturnedIs
    <3>4. inst' = [inst EXCEPT ![x] = row]
      BY <3>1, <3>2
    <3>5. inst'[x] = row /\ \A i \in Installments \ {x} : inst'[i] = inst[i]
      BY <3>1, <3>4, Known0
    <3>6. \A i \in Installments : inst[i].refunded \in Nat /\ inst[i].amount \in Nat
                                  /\ inst[i].refunded <= inst[i].amount
      <4>1. \A i \in Installments : inst[i] \in Rows /\ inst[i].refunded <= inst[i].amount
        BY Known0 DEF RowsFit, RowFits
      <4>2. QED BY <4>1 DEF Rows
    <3>7. charge[x].returned = 0 => inst[x].amount = 0
      BY <3>1 DEF BooksAgree, Booked, Agree
    <3>8. charge[x].returned = 0 => inst[x].refunded = 0
      BY <3>1, <3>6, <3>7
    <3>9. QED BY <3>1, <3>3, <3>5, <3>6, <3>8 DEF Grows
  <2>4. QED BY <2>1, <2>2, <2>3 DEF JobBegins, ReleaseBegins, LateBegins, EarlyBegins,
                GiveBackBegins, DisputeBegins
<1>4. QED BY <1>1, <1>2, <1>3, SpentAway DEF HalfDone

\* One charge or unpaid row moves.
LEMMA UnlockedRowGrows ==
  ASSUME SettlementInv, NEW x \in Installments, NEW row, NEW c,
         inst' = [inst EXCEPT ![x] = row], charge' = [charge EXCEPT ![x] = c],
         row.refunded = inst[x].refunded \/ (row.refunded \in Nat /\ inst[x].refunded = 0),
         c.returned = charge[x].returned \/ c.returned # 0
  PROVE  \A i \in Installments : Grows(i)
<1>1. /\ inst'[x] = row /\ \A i \in Installments \ {x} : inst'[i] = inst[i]
      /\ charge'[x] = c /\ \A i \in Installments \ {x} : charge'[i] = charge[i]
  BY Known0
<1>2. \A i \in Installments : inst[i].refunded \in Nat
  <2>1. \A i \in Installments : inst[i] \in Rows
    BY Known0
  <2>2. QED BY <2>1 DEF Rows
<1>3. QED BY <1>1, <1>2 DEF Grows

LEMMA UnlockedGrows ==
  ASSUME SettlementInv, NEW x \in Installments,
         \/ ChargebackOpened(x) \/ ChargebackWon(x) \/ BankReturns(x)
         \/ CardPays(x) \/ BankPays(x) \/ Clears(x) \/ ClearingFails(x)
  PROVE  \A i \in Installments : Grows(i)
<1>1. inst[x] \in Rows /\ charge[x] \in Charges /\ inst = [inst EXCEPT ![x] = inst[x]]
      /\ charge = [charge EXCEPT ![x] = charge[x]]
  BY Known0, SameRow
<1>2. CASE ChargebackOpened(x) \/ ChargebackWon(x)
  <2>1. PICK bank \in {"open", "won"} : charge' = [charge EXCEPT ![x].bank = bank]
    BY <1>2 DEF ChargebackOpened, ChargebackWon
  <2>2. PICK c : c = [charge[x] EXCEPT !.bank = bank]
    OBVIOUS
  <2>3. c.returned = charge[x].returned /\ charge' = [charge EXCEPT ![x] = c] /\ UNCHANGED inst
    BY <1>1, <1>2, <2>1, <2>2 DEF ChargebackOpened, ChargebackWon, Charges
  <2>4. QED BY <1>1, <2>3, UnlockedRowGrows
<1>3. CASE BankReturns(x)
  <2>1. PICK n : n = charge[x].returned + 1
    OBVIOUS
  <2>2. PICK c : c = [charge[x] EXCEPT !.taken = 0, !.back = 0, !.returned = n]
    OBVIOUS
  <2>3. charge' = [charge EXCEPT ![x] = c] /\ UNCHANGED inst
    BY <1>3, <2>1, <2>2 DEF BankReturns
  <2>4. charge[x].returned \in Nat
    BY <1>1, MoneyAssumption DEF Charges
  <2>5. c.returned = n /\ n # 0
    BY <1>1, <2>1, <2>2, <2>4 DEF Charges
  <2>6. QED BY <1>1, <2>3, <2>5, UnlockedRowGrows
<1>4. CASE BankPays(x) \/ ClearingFails(x)
  <2>1. PICK status : inst' = [inst EXCEPT ![x].status = status]
    BY <1>4 DEF BankPays, ClearingFails
  <2>2. PICK row : row = [inst[x] EXCEPT !.status = status]
    OBVIOUS
  <2>3. row.refunded = inst[x].refunded /\ inst' = [inst EXCEPT ![x] = row] /\ UNCHANGED charge
    BY <1>1, <1>4, <2>1, <2>2 DEF BankPays, ClearingFails, Rows
  <2>4. QED BY <1>1, <2>3, UnlockedRowGrows
<1>5. CASE CardPays(x) \/ Clears(x)
  <2>1. inst[x].status \in {"SCHEDULED", "FAILED", "CLEARING"}
    BY <1>5 DEF CardPays, Chargeable, Clears
  <2>2. inst[x].refunded = 0
    BY <2>1, NotTaken
  <2>3. PICK amount \in Nat : amount = inst[x].amount
    BY <1>1 DEF Rows
  <2>4. CASE Land(x)
    <3>1. PICK row : row = [inst[x] EXCEPT !.status = "PAID"]
      OBVIOUS
    <3>2. PICK c : c = [charge[x] EXCEPT !.taken = amount, !.back = 0]
      OBVIOUS
    <3>3. inst' = [inst EXCEPT ![x] = row] /\ charge' = [charge EXCEPT ![x] = c]
      BY <2>3, <2>4, <3>1, <3>2 DEF Land
    <3>4. row.refunded = inst[x].refunded /\ c.returned = charge[x].returned
      BY <1>1, <3>1, <3>2 DEF Rows, Charges
    <3>5. QED BY <3>3, <3>4, UnlockedRowGrows
  <2>5. CASE /\ inst' = [inst EXCEPT ![x].status = "REFUNDED", ![x].refunded = inst[x].amount]
             /\ charge' = [charge EXCEPT ![x].taken = inst[x].amount, ![x].back = inst[x].amount]
    <3>1. PICK row : row = [inst[x] EXCEPT !.status = "REFUNDED", !.refunded = amount]
      OBVIOUS
    <3>2. PICK c : c = [charge[x] EXCEPT !.taken = amount, !.back = amount]
      OBVIOUS
    <3>3. inst' = [inst EXCEPT ![x] = row] /\ charge' = [charge EXCEPT ![x] = c]
      BY <2>3, <2>5, <3>1, <3>2
    <3>4. row.refunded = amount /\ c.returned = charge[x].returned
      BY <1>1, <3>1, <3>2 DEF Rows, Charges
    <3>5. QED BY <2>2, <3>3, <3>4, UnlockedRowGrows
  <2>6. QED BY <1>5, <2>4, <2>5 DEF CardPays, Clears
<1>6. QED BY <1>2, <1>3, <1>4, <1>5

LEMMA UnlockedSpent ==
  ASSUME SettlementInv, SettlementInv', KeysSpent, Unlocked
  PROVE  KeysSpent'
<1>1. UNCHANGED <<refunds, job>>
  BY DEF Unlocked, CheckReport, OpenReport, ChargebackOpened, ChargebackWon, BankReturns,
     CardPays, BankPays, Clears, ClearingFails, Work, ReleaseTimeComes, Withdraw
<1>2. \A i \in Installments : Grows(i)
  <2>1. CASE UNCHANGED <<inst, charge>>
    BY <2>1, SameGrows
  <2>2. CASE CheckReport \/ OpenReport \/ Work \/ ReleaseTimeComes \/ Withdraw
    BY <2>1, <2>2 DEF CheckReport, OpenReport, Work, ReleaseTimeComes, Withdraw
  <2>3. QED BY <2>2, UnlockedGrows DEF Unlocked
<1>3. Unresolved' => Unresolved
  <2>1. CASE booking'.dispute = booking.dispute
    BY <2>1 DEF Unresolved
  <2>2. CASE OpenReport
    BY <2>2, Known0 DEF OpenReport, Unresolved
  <2>3. CASE \E i \in Installments : Land(i) \/ booking' = [booking EXCEPT !.paid = TRUE]
    BY <2>1, <2>3, Known0 DEF Land, BookingRows
  <2>4. CASE Work \/ ReleaseTimeComes
    BY <2>1, <2>4, Known0 DEF Work, ReleaseTimeComes, BookingRows
  <2>5. QED BY <2>1, <2>2, <2>3, <2>4 DEF Unlocked, CheckReport, ChargebackOpened, ChargebackWon,
               BankReturns, CardPays, BankPays, Clears, ClearingFails, Withdraw
<1>4. Spending => Spending' /\ job'.todo \subseteq job.todo
  BY <1>1 DEF Spending
<1>5. QED BY <1>1, <1>2, <1>3, <1>4, SpentStep

LEMMA NoneStops == ASSUME MaxCrashes = 0, TypeOK PROVE ~ Crash
<1>1. crashes = 0
  BY DEF TypeOK
<1>2. QED BY <1>1 DEF Crash

LEMMA SpentKept ==
  ASSUME MaxCrashes = 0, SettlementInv, SettlementInv', BooksAgree({0}), KeysSpent, [Next]_vars,
         [NoneRefused]_vars
  PROVE  KeysSpent'
<1>1. CASE UNCHANGED vars
  <2>1. UNCHANGED <<booking, inst, charge, refunds, job>>
    BY <1>1 DEF vars
  <2>2. (Unresolved' => Unresolved) /\ (Spending => Spending' /\ job'.todo \subseteq job.todo)
    BY <2>1 DEF Unresolved, Spending
  <2>3. QED BY <2>1, <2>2, SameGrows, SpentStep
<1>2. CASE Payout
  BY <1>2, PayoutSpent
<1>3. CASE Recovery
  BY <1>3, RecoverySpent
<1>4. CASE Refunding
  <2>1. CASE UNCHANGED vars
    BY <1>1, <2>1
  <2>2. CASE NoneRefused
    BY <1>4, <2>2, RefundingSpent DEF NoneRefused
  <2>3. QED BY <2>1, <2>2
<1>5. CASE Settling
  BY <1>5, SettlingSpent
<1>6. CASE Unlocked
  BY <1>6, UnlockedSpent
<1>7. CASE JobBegins
  BY <1>7, BeginsSpent
<1>8. CASE Crash
  BY <1>8, Known0, NoneStops
<1>9. QED BY <1>1, <1>2, <1>3, <1>4, <1>5, <1>6, <1>7, <1>8 DEF Next, JobStep

\* No settlement or return repeats a refund by itself: where no server stops and Stripe
\* refuses nothing, the keys of refundParts never meet again and the books match.
THEOREM BooksMatchUnrefused ==
  ASSUME MaxCrashes = 0 PROVE Spec /\ [][NoneRefused]_vars => []BooksMatchStripe
<1>1. Init => SettlementInv /\ BooksAgree({0}) /\ KeysSpent
  <2>1. Init => refunds = {}
    BY DEF Init
  <2>2. QED BY <2>1, SettlementInit, BooksInit DEF KeysSpent, Slacks
<1>2. SettlementInv /\ BooksAgree({0}) /\ KeysSpent /\ [Next]_vars /\ [NoneRefused]_vars
        => (SettlementInv /\ BooksAgree({0}) /\ KeysSpent)'
  <2>1. SUFFICES ASSUME SettlementInv, BooksAgree({0}), KeysSpent, [Next]_vars, [NoneRefused]_vars
                 PROVE  (SettlementInv /\ BooksAgree({0}) /\ KeysSpent)'
    OBVIOUS
  <2>2. SettlementInv'
    BY <2>1, SettlementStep
  <2>3. KeysSpent'
    BY <2>1, <2>2, SpentKept
  <2>4. NoneStopsHalfway
    BY <2>1, Known0, NoneStops DEF NoneStopsHalfway
  <2>5. NoneAnsweredAgain
    BY <2>1, NotAgain DEF NoneAnsweredAgain
  <2>6. BooksAgree({0})'
    BY <2>1, <2>4, <2>5, BooksStep DEF Slacks
  <2>7. QED BY <2>2, <2>3, <2>6
<1>3. SettlementInv /\ BooksAgree({0}) => BooksMatchStripe
  BY BooksThen
<1>4. QED BY <1>1, <1>2, <1>3, PTL DEF Spec

----------------------------------------------------------------------------
(* What the vendor has, to the cent.                                       *)

\* What the job still takes back, and what the vendor has once it is done.
TakingBack == IF job.at \in {"reverse", "owe"} THEN job.left ELSE 0
Ends == VendorHas + ToCome - TakingBack

\* A deposit released early whose key Stripe still knows is not released again.
EarlyOnly == \A k \in DOMAIN sent : sent[k].key.op = "early"
EarlyKnown == \E k \in DOMAIN sent : sent[k].key.op = "early" /\ sent[k].fresh
DepositSpent == \/ Deposit = None \/ inst[Deposit].status # "PAID"
                \/ Portion(inst[Deposit]) = 0
CardTaken == Deposit \in ByBank \cup {None} \/ charge[Deposit].taken > 0
EarlyOnce ==
  /\ EarlyKnown => /\ booking.early = 0 \/ At("forget") => DepositSpent
                   /\ ~ (job.op = "early" /\ job.at \in {"claim", "send", "unsend"})
  /\ EarlyKnown \/ job.op = "early" => CardTaken

\* Until the release the vendor has the deposit released early, or nothing.
BeforeRelease ==
  /\ Ends = booking.early /\ job.paidOut = 0 /\ job.op # "late"
  /\ job.op = "release" =>
       At("claim") /\ job.share = job.gross - Rounded(job.gross * Percent, 100) - booking.early
  /\ booking.dispute = "refunded" => At("over")
  /\ EarlyOnly /\ EarlyOnce

\* From then on the job brings them what is due.
SinceRelease ==
  /\ job.op = "release" =>
       /\ job.at \in {"offset", "send", "record", "credit", "owe"}
       /\ Ends = booking.gross - booking.commission
       /\ job.at \in {"offset", "send"} => EarlyOnly
  /\ job.op = "dispute" =>
       job.at \in {"reverse", "owe", "close"} /\ booking.dispute = "refunded" /\ Ends = 0

\* Only a bank payment comes back after it cleared.
CardsStay == \A i \in Installments \ ByBank : charge[i].returned = 0
ToTheCent ==
  /\ Free => At("idle")
  /\ IF booking.released THEN SinceRelease ELSE BeforeRelease
CentInv == crashes = 0 => BooksAgree(Nat) /\ CardsStay /\ ToTheCent

\* The step of a job that ends it.
Exactly ==
  ~ Free /\ Free' =>
    /\ job.op = "release" => VendorHas' = booking'.gross - booking'.commission
    /\ job.op = "dispute" /\ booking'.dispute = "refunded" => VendorHas' = 0

LEMMA EndsIs ==
  ASSUME SettlementInv
  PROVE  /\ Ends \in Int /\ VendorHas \in Int /\ ToCome \in Nat /\ TakingBack \in Int
         /\ Ends = VendorHas + ToCome - TakingBack /\ TakingBack >= 0
<1>1. VendorHas \in Int /\ ToCome \in Nat
  BY BoundIs DEF BoundTyped
<1>2. TakingBack \in Int /\ TakingBack >= 0
  BY Known0 DEF TakingBack
<1>3. QED BY <1>1, <1>2 DEF Ends

LEMMA EndsNext ==
  ASSUME SettlementInv'
  PROVE  /\ Ends' \in Int /\ VendorHas' \in Int /\ ToCome' \in Nat /\ TakingBack' \in Int
         /\ Ends' = VendorHas' + ToCome' - TakingBack'
<1>1. BoundTyped'
  BY BoundNext
<1>2. VendorHas' \in Int /\ ToCome' \in Nat
  BY <1>1 DEF BoundTyped
<1>3. job' \in Jobs
  BY DEF SettlementInv, TypeOK
<1>4. TakingBack' \in Int
  BY <1>3 DEF TakingBack, Jobs
<1>5. QED BY <1>2, <1>4 DEF Ends

\* The same money, and a job that has none to move.
LEMMA IdleBrings ==
  ASSUME job' = Idle
  PROVE  /\ ToCome' = 0 /\ TakingBack' = 0 /\ job'.op = "idle" /\ job'.at = "idle"
         /\ job'.paidOut = 0
  BY DEF ToCome, TakingBack, Idle

LEMMA ElsewhereBrings ==
  ASSUME job.at \notin {"offset", "send", "credit", "unsend", "reverse", "owe"}
  PROVE  ToCome = 0 /\ TakingBack = 0
  BY DEF ToCome, TakingBack

LEMMA ElsewhereBringsNext ==
  ASSUME job'.at \notin {"offset", "send", "credit", "unsend", "reverse", "owe"}
  PROVE  ToCome' = 0 /\ TakingBack' = 0
  BY DEF ToCome, TakingBack

LEMMA HasStays ==
  ASSUME SettlementInv, SettlementInv', UNCHANGED <<sent, vendor>>
  PROVE  VendorHas' = VendorHas /\ VendorHas \in Int
<1>1. VendorHas' = VendorHas
  BY DEF VendorHas
<1>2. QED BY <1>1, EndsIs

\* The transfers keep their keys.
LEMMA KeysKept ==
  ASSUME DOMAIN sent' = DOMAIN sent,
         \A k \in DOMAIN sent : /\ sent'[k].key = sent[k].key
                                /\ sent'[k].fresh => sent[k].fresh
  PROVE  (EarlyOnly => EarlyOnly') /\ (EarlyKnown' => EarlyKnown)
  BY DEF EarlyOnly, EarlyKnown

LEMMA SentColumn ==
  ASSUME SettlementInv, NEW m, NEW t,
         sent' = [sent EXCEPT ![m] = t],
         m \in DOMAIN sent => t.key = sent[m].key /\ t.fresh = sent[m].fresh
  PROVE  (EarlyOnly => EarlyOnly') /\ (EarlyKnown' => EarlyKnown)
<1>1. sent \in Seq(Transfers)
  BY Known0
<1>2. DOMAIN sent' = DOMAIN sent
      /\ \A k \in DOMAIN sent : sent'[k] = IF k = m THEN t ELSE sent[k]
  OBVIOUS
<1>3. \A k \in DOMAIN sent : sent'[k].key = sent[k].key /\ (sent'[k].fresh => sent[k].fresh)
  BY <1>2
<1>4. QED BY <1>2, <1>3, KeysKept

LEMMA RecordedKeys ==
  ASSUME SettlementInv, RecordPayout
  PROVE  (EarlyOnly => EarlyOnly') /\ (EarlyKnown' => EarlyKnown)
<1>1. PICK m : m = Max({k \in DOMAIN sent : sent[k].key = Key})
  OBVIOUS
<1>2. PICK t : t = [sent[m] EXCEPT !.row = TRUE]
  OBVIOUS
<1>3. sent' = [sent EXCEPT ![m] = t]
  BY <1>1, <1>2 DEF RecordPayout
<1>4. m \in DOMAIN sent => t.key = sent[m].key /\ t.fresh = sent[m].fresh
  <2>1. m \in DOMAIN sent => sent[m] \in Transfers
    BY Known0 DEF TypeOK
  <2>2. QED BY <1>2, <2>1 DEF Transfers
<1>5. QED BY <1>3, <1>4, SentColumn

LEMMA ReversedKeys ==
  ASSUME SettlementInv, ReverseTransfer
  PROVE  (EarlyOnly => EarlyOnly') /\ (EarlyKnown' => EarlyKnown)
<1>1. CASE UNCHANGED sent
  BY <1>1 DEF EarlyOnly, EarlyKnown
<1>2. CASE \E m, take : sent' = [sent EXCEPT ![m].reversed = @ + take]
  <2>1. PICK m, take : sent' = [sent EXCEPT ![m].reversed = @ + take]
    BY <1>2
  <2>2. PICK n : n = sent[m].reversed + take
    OBVIOUS
  <2>3. PICK t : t = [sent[m] EXCEPT !.reversed = n]
    OBVIOUS
  <2>4. sent' = [sent EXCEPT ![m] = t]
    BY <2>1, <2>2, <2>3
  <2>5. m \in DOMAIN sent => t.key = sent[m].key /\ t.fresh = sent[m].fresh
    <3>1. m \in DOMAIN sent => sent[m] \in Transfers
      BY Known0 DEF TypeOK
    <3>2. QED BY <2>3, <3>1 DEF Transfers
  <2>6. QED BY <2>4, <2>5, SentColumn
<1>3. QED BY <1>1, <1>2 DEF ReverseTransfer

LEMMA ExpiredKeys ==
  ASSUME SettlementInv, KeysExpire
  PROVE  (EarlyOnly => EarlyOnly') /\ ~ EarlyKnown'
<1>1. DOMAIN sent' = DOMAIN sent
      /\ \A k \in DOMAIN sent : sent'[k] = [sent[k] EXCEPT !.fresh = FALSE]
  BY DEF KeysExpire
<1>2. \A k \in DOMAIN sent : sent[k] \in Transfers
  BY Known0 DEF TypeOK
<1>3. \A k \in DOMAIN sent : sent'[k].key = sent[k].key /\ sent'[k].fresh = FALSE
  BY <1>1, <1>2 DEF Transfers
<1>4. QED BY <1>1, <1>3 DEF EarlyOnly, EarlyKnown

----------------------------------------------------------------------------
(* The rows' side: a payment's part only gets smaller, but where it lands. *)

Fades(i) == inst'[i].status = "PAID" =>
              inst[i].status = "PAID" /\ Portion(inst'[i]) <= Portion(inst[i])

LEMMA SpentStays ==
  ASSUME SettlementInv, SettlementInv', Deposit \in Installments => Fades(Deposit), DepositSpent
  PROVE  DepositSpent'
<1>1. Deposit \in Installments \cup {None}
  BY KindsAssumption
<1>2. CASE Deposit \in Installments /\ Portion(inst[Deposit]) = 0 /\ inst'[Deposit].status = "PAID"
  <2>1. inst' \in [Installments -> Rows]
    BY DEF SettlementInv, TypeOK
  <2>2. Portion(inst'[Deposit]) \in Nat /\ Portion(inst'[Deposit]) <= 0
    BY <1>2, <2>1, PortionIs DEF Fades
  <2>3. QED BY <2>2 DEF DepositSpent
<1>3. QED BY <1>1, <1>2 DEF DepositSpent, Fades

LEMMA TakenStays ==
  ASSUME \A i \in Installments \ ByBank : charge[i].taken > 0 => charge'[i].taken > 0
  PROVE  CardTaken => CardTaken'
  BY KindsAssumption DEF CardTaken

LEMMA SameFades ==
  ASSUME SettlementInv, UNCHANGED inst PROVE \A i \in Installments : Fades(i)
<1>1. \A i \in Installments : Portion(inst[i]) \in Nat
  BY Known0, PortionIs
<1>2. QED BY <1>1 DEF Fades

LEMMA LeavesFades ==
  ASSUME SettlementInv,
         \A i \in Installments : inst'[i] = inst[i] \/ inst'[i].status \notin {"PAID", "REFUNDED"}
  PROVE  \A i \in Installments : Fades(i)
<1>1. \A i \in Installments : Portion(inst[i]) \in Nat
  BY Known0, PortionIs
<1>2. QED BY <1>1 DEF Fades

LEMMA MarkOutFades ==
  ASSUME SettlementInv, MarkOut PROVE \A i \in Installments : Fades(i)
<1>1. ASSUME NEW i \in Installments PROVE Fades(i)
  <2>1. /\ inst'[i].status = inst[i].status /\ inst'[i].amount = inst[i].amount
        /\ inst'[i].fee = inst[i].fee /\ inst'[i].refunded = inst[i].refunded
    BY Known0, MarkOutIs
  <2>2. Portion(inst'[i]) = Portion(inst[i])
    BY <2>1 DEF Portion
  <2>3. Portion(inst[i]) \in Nat
    BY Known0, PortionIs
  <2>4. QED BY <2>1, <2>2, <2>3 DEF Fades
<1>2. QED BY <1>1

LEMMA ApplyLossFades ==
  ASSUME SettlementInv, ApplyLoss PROVE \A i \in Installments : Fades(i)
<1>1. At("apply") /\ inst' = [inst EXCEPT ![job.i] = AfterLoss]
  BY DEF ApplyLoss
<1>2. PICK x \in Installments : x = job.i
  BY <1>1, AfterLossIs
<1>3. PICK row : row = AfterLoss
  OBVIOUS
<1>4. row.status = inst[x].status /\ Portion(row) <= Portion(inst[x])
  <2>1. PartLost \in Nat /\ Portion(AfterLoss) = Portion(inst[job.i]) - PartLost
    BY <1>1, AfterLossIs
  <2>2. Portion(inst[x]) \in Nat
    BY Known0, PortionIs
  <2>3. QED BY <1>1, <1>2, <1>3, <2>1, <2>2, AfterLossIs
<1>5. inst'[x] = row /\ \A i \in Installments \ {x} : inst'[i] = inst[i]
  BY <1>1, <1>2, <1>3, Known0
<1>6. \A i \in Installments : Portion(inst[i]) \in Nat
  BY Known0, PortionIs
<1>7. QED BY <1>4, <1>5, <1>6 DEF Fades

LEMMA RecordPartFades ==
  ASSUME SettlementInv, RecordPart PROVE \A i \in Installments : Fades(i)
<1>1. At("recordRefund") /\ job.todo # {} /\ Take > 0 /\ Current.was = "PAID"
  BY Known0 DEF RecordPart, RefundFits
<1>2. PICK x \in Installments : x = This
  BY <1>1, ThisIs
<1>3. PICK take \in Int : take = Take
  BY <1>1, TakeIs
<1>4. inst[x] \in Rows /\ inst[x].status = "PAID"
  BY <1>1, <1>2, Known0, ThisIs DEF RefundFits, At, This
<1>5. PICK n : n = inst[x].refunded + take
  OBVIOUS
<1>6. PICK end : end = IF Take >= inst[This].amount - inst[This].refunded THEN "REFUNDED" ELSE "PAID"
  OBVIOUS
<1>7. PICK row : row = [inst[x] EXCEPT !.refunded = n, !.status = end]
  OBVIOUS
<1>8. inst' = [inst EXCEPT ![x] = row]
  BY <1>2, <1>3, <1>5, <1>6, <1>7 DEF RecordPart
<1>9. row.refunded = n /\ row.amount = inst[x].amount /\ row.fee = inst[x].fee
  BY <1>4, <1>7 DEF Rows
<1>10. Portion(row) <= Portion(inst[x])
  <2>1. inst[x].amount \in Nat /\ inst[x].fee \in Nat /\ inst[x].refunded \in Nat
    BY <1>4 DEF Rows
  <2>2. n >= inst[x].refunded /\ n \in Int
    BY <1>1, <1>3, <1>5, <2>1
  <2>3. QED BY <1>9, <2>1, <2>2 DEF Portion, AtLeast0
<1>11. inst'[x] = row /\ \A i \in Installments \ {x} : inst'[i] = inst[i]
  BY <1>8, Known0
<1>12. \A i \in Installments : Portion(inst[i]) \in Nat
  BY Known0, PortionIs
<1>13. QED BY <1>4, <1>10, <1>11, <1>12 DEF Fades

\* Rows that are called off, lowered or returned.
LEMMA LowerUnpaidLeaves ==
  ASSUME SettlementInv, LowerUnpaid
  PROVE  \A i \in Installments : inst'[i] = inst[i] \/ inst'[i].status \notin {"PAID", "REFUNDED"}
<1>1. At("lower") /\ job.todo # {} /\ UNCHANGED charge
  BY DEF LowerUnpaid
<1>3. Current \in job.todo /\ This \in Installments /\ Current.was \in {"SCHEDULED", "FAILED"}
      /\ inst[This] \in Rows
  BY <1>1, ThisIs, Known0 DEF RefundFits
<1>4. PICK low : low = Lowered(This)
  OBVIOUS
<1>5. \A i \in Installments : inst'[i] = inst[i] \/ inst'[i].status \notin {"PAID", "REFUNDED"}
  <2>1. CASE UNCHANGED inst
    BY <2>1
  <2>2. CASE /\ inst[This].status = Current.was
             /\ inst' = [inst EXCEPT ![This].amount = low,
                                     ![This].status = IF low > 0 THEN @ ELSE "CANCELLED"]
    <3>1. PICK end : end = IF low > 0 THEN inst[This].status ELSE "CANCELLED"
      OBVIOUS
    <3>2. PICK row : row = [inst[This] EXCEPT !.amount = low, !.status = end]
      OBVIOUS
    <3>3. inst' = [inst EXCEPT ![This] = row]
      BY <2>2, <3>1, <3>2
    <3>4. row.status = end
      BY <1>3, <3>2 DEF Rows
    <3>5. row.status \notin {"PAID", "REFUNDED"}
      BY <1>3, <2>2, <3>1, <3>4
    <3>6. QED BY <1>3, <3>3, <3>5, Known0
  <2>3. QED BY <1>4, <2>1, <2>2 DEF LowerUnpaid
<1>6. QED BY <1>5

LEMMA CallOffPartLeaves ==
  ASSUME SettlementInv, CallOffPart
  PROVE  \A i \in Installments : inst'[i] = inst[i] \/ inst'[i].status \notin {"PAID", "REFUNDED"}
<1>1. /\ At("refund") /\ job.todo # {} /\ UNCHANGED charge
      /\ inst' = [inst EXCEPT ![This].status = "CANCELLED"]
      /\ job' = [job EXCEPT !.todo = @ \ {Current}]
  BY DEF CallOffPart
<1>2. PICK x \in Installments : x = This
  BY <1>1, ThisIs
<1>3. inst[x] \in Rows
  BY Known0
<1>4. PICK row : row = [inst[x] EXCEPT !.status = "CANCELLED"]
  OBVIOUS
<1>5. inst' = [inst EXCEPT ![x] = row] /\ row.status = "CANCELLED"
  BY <1>1, <1>2, <1>3, <1>4 DEF Rows
<1>6. \A i \in Installments : inst'[i] = inst[i] \/ inst'[i].status \notin {"PAID", "REFUNDED"}
  BY <1>5, Known0
<1>7. QED BY <1>6

LEMMA ReturnBeginsLeaves ==
  ASSUME SettlementInv, ReturnBegins
  PROVE  \A i \in Installments : inst'[i] = inst[i] \/ inst'[i].status \notin {"PAID", "REFUNDED"}
<1>1. PICK x \in ByBank, place \in {"reverse", "forget", "close"} :
        /\ x \in Installments /\ inst' = [inst EXCEPT ![x] = Returned(@)]
        /\ job'.at = place /\ job.op = "idle" /\ UNCHANGED charge
  BY ReturnBeginsIs
<1>2. PICK row : row = Returned(inst[x])
  OBVIOUS
<1>3. row.status \in {"FAILED", "CANCELLED"}
  BY <1>1, <1>2, ReturnedIs
<1>4. inst' = [inst EXCEPT ![x] = row]
  BY <1>1, <1>2
<1>5. \A i \in Installments : inst'[i] = inst[i] \/ inst'[i].status \notin {"PAID", "REFUNDED"}
  BY <1>1, <1>3, <1>4, Known0
<1>6. QED BY <1>5

LEMMA CloseRefundedLeaves ==
  ASSUME SettlementInv, CloseRefunded
  PROVE  \A i \in Installments : inst'[i] = inst[i] \/ inst'[i].status \notin {"PAID", "REFUNDED"}
<1>2. \A i \in Installments : inst'[i] = inst[i] \/ inst'[i].status \notin {"PAID", "REFUNDED"}
  <2>1. CASE UNCHANGED inst
    BY <2>1
  <2>2. CASE inst' = [i \in Installments |->
               IF i \in Unpaid THEN [inst[i] EXCEPT !.status = "CANCELLED"] ELSE inst[i]]
    <3>1. \A i \in Installments : inst[i] \in Rows
      BY Known0
    <3>2. QED BY <2>2, <3>1 DEF Rows
  <2>3. QED BY <2>1, <2>2 DEF CloseRefunded
<1>3. QED BY <1>2

LEMMA RowsFade ==
  ASSUME SettlementInv, JobStep \/ JobBegins PROVE \A i \in Installments : Fades(i)
<1>1. CASE UNCHANGED inst
  BY <1>1, SameFades
<1>2. CASE Payout
  <2>1. CASE ClaimRelease \/ ClaimLate
    BY <2>1, MarkOutFades DEF ClaimRelease, ClaimLate
  <2>2. QED BY <1>1, <1>2, <2>1 DEF Payout, OffsetDebt, SendPayout, RecordPayout, CreditBalance,
       ClaimEarly, SendEarly, UnsendEarly
<1>3. CASE Recovery
  BY <1>1, <1>3 DEF Recovery, TakeBackDone, ReverseTransfer, OweRest
<1>4. CASE Refunding
  <2>1. CASE LowerUnpaid \/ CallOffPart
    BY <2>1, LowerUnpaidLeaves, CallOffPartLeaves, LeavesFades
  <2>2. CASE RecordPart
    BY <2>2, RecordPartFades
  <2>3. QED BY <1>1, <1>4, <2>1, <2>2 DEF Refunding, ReadParts, SkipPart, RefundPart, RefundsDone,
       LoweringDone, RecoverGivenBack
<1>5. CASE Settling
  <2>1. CASE CloseRefunded
    BY <2>1, CloseRefundedLeaves, LeavesFades
  <2>2. CASE ApplyLoss
    BY <2>2, ApplyLossFades
  <2>3. QED BY <1>1, <1>5, <2>1, <2>2 DEF Settling, Resolve, EndRefunded, ForgetEarly, CloseReturn
<1>6. CASE JobBegins
  <2>1. CASE ReturnBegins
    BY <2>1, ReturnBeginsLeaves, LeavesFades
  <2>2. QED BY <1>1, <1>6, <2>1 DEF JobBegins, ReleaseBegins, LateBegins, EarlyBegins,
       GiveBackBegins, DisputeBegins, ChargebackLost
<1>7. QED BY <1>2, <1>3, <1>4, <1>5, <1>6 DEF JobStep

LEMMA ChargesStay ==
  ASSUME SettlementInv, JobStep \/ JobBegins
  PROVE  \A i \in Installments : /\ charge'[i].taken = charge[i].taken
                                 /\ charge'[i].returned = charge[i].returned
<1>1. CASE UNCHANGED charge
  BY <1>1
<1>2. CASE Payout
  BY <1>1, <1>2 DEF Payout, ClaimRelease, ClaimLate, OffsetDebt, SendPayout, RecordPayout,
     CreditBalance, ClaimEarly, SendEarly, UnsendEarly
<1>3. CASE Recovery
  BY <1>1, <1>3 DEF Recovery, TakeBackDone, ReverseTransfer, OweRest
<1>4. CASE Refunding
  <2>1. CASE RefundPart
    <3>1. At("refund") /\ job.todo # {} /\ Take > 0
      BY <2>1 DEF RefundPart, ToRefund
    <3>2. PICK x \in Installments : x = This
      BY <3>1, ThisIs
    <3>3. CASE \E n : charge' = [charge EXCEPT ![x].back = n]
      <4>1. PICK n : charge' = [charge EXCEPT ![x].back = n]
        BY <3>3
      <4>2. PICK c : c = [charge[x] EXCEPT !.back = n]
        OBVIOUS
      <4>3. charge[x] \in Charges
        BY Known0
      <4>4. c.taken = charge[x].taken /\ c.returned = charge[x].returned
        BY <4>2, <4>3 DEF Charges
      <4>5. charge'[x] = c /\ \A i \in Installments \ {x} : charge'[i] = charge[i]
        BY <4>1, <4>2, Known0
      <4>6. QED BY <4>4, <4>5
    <3>4. QED BY <1>1, <2>1, <3>2, <3>3 DEF RefundPart
  <2>2. QED BY <1>1, <1>4, <2>1 DEF Refunding, ReadParts, CallOffPart, SkipPart, RecordPart,
       RefundsDone, LowerUnpaid, LoweringDone, RecoverGivenBack
<1>5. CASE Settling
  BY <1>1, <1>5 DEF Settling, Resolve, EndRefunded, CloseRefunded, ForgetEarly, CloseReturn, ApplyLoss
<1>6. CASE JobBegins
  <2>1. CASE ChargebackLost
    <3>1. PICK x \in Installments, c \in Charges :
            /\ c.taken = charge[x].taken /\ c.returned = charge[x].returned
            /\ charge' = [charge EXCEPT ![x] = c]
      BY <2>1, ChargebackLostIs
    <3>2. charge'[x] = c /\ \A i \in Installments \ {x} : charge'[i] = charge[i]
      BY <3>1, Known0
    <3>3. QED BY <3>1, <3>2
  <2>2. QED BY <1>1, <1>6, <2>1 DEF JobBegins, ReleaseBegins, LateBegins, EarlyBegins,
       GiveBackBegins, DisputeBegins, ReturnBegins
<1>7. QED BY <1>2, <1>3, <1>4, <1>5, <1>6 DEF JobStep

LEMMA CellsChange ==
  ASSUME SettlementInv, NEW x \in Installments, NEW status, NEW refunded, NEW taken, NEW back,
         inst' = [inst EXCEPT ![x].status = status, ![x].refunded = refunded],
         charge' = [charge EXCEPT ![x].taken = taken, ![x].back = back]
  PROVE  /\ \A i \in Installments \ {x} : inst'[i] = inst[i] /\ charge'[i] = charge[i]
         /\ charge'[x].returned = charge[x].returned
<1>1. inst[x] \in Rows /\ charge[x] \in Charges
  BY Known0
<1>2. PICK row : row = [inst[x] EXCEPT !.status = status, !.refunded = refunded]
  OBVIOUS
<1>3. PICK c : c = [charge[x] EXCEPT !.taken = taken, !.back = back]
  OBVIOUS
<1>4. inst' = [inst EXCEPT ![x] = row] /\ charge' = [charge EXCEPT ![x] = c]
  BY <1>2, <1>3
<1>5. /\ inst'[x] = row /\ charge'[x] = c
      /\ \A i \in Installments \ {x} : inst'[i] = inst[i] /\ charge'[i] = charge[i]
  BY <1>4, Known0
<1>6. c.returned = charge[x].returned
  BY <1>1, <1>3 DEF Charges
<1>7. QED BY <1>5, <1>6

\* What takes no lock: a payment that lands is of a row that was not paid.
LEMMA UnlockedRows ==
  ASSUME SettlementInv, NEW x \in Installments,
         \/ ChargebackOpened(x) \/ ChargebackWon(x) \/ BankReturns(x)
         \/ CardPays(x) \/ BankPays(x) \/ Clears(x) \/ ClearingFails(x)
  PROVE  /\ \A i \in Installments \ {x} : inst'[i] = inst[i] /\ charge'[i] = charge[i]
         /\ ~ (CardPays(x) \/ Clears(x)) => Fades(x)
         /\ x \notin ByBank => charge'[x].returned = charge[x].returned
                              /\ (charge[x].taken > 0 => charge'[x].taken > 0 /\ ~ CardPays(x))
<1>1. inst[x] \in Rows /\ charge[x] \in Charges /\ Portion(inst[x]) \in Nat
  BY Known0, PortionIs
<1>2. CASE ChargebackOpened(x) \/ ChargebackWon(x)
  <2>1. PICK bank : charge' = [charge EXCEPT ![x].bank = bank] /\ inst' = inst
    BY <1>2 DEF ChargebackOpened, ChargebackWon
  <2>2. PICK c : c = [charge[x] EXCEPT !.bank = bank]
    OBVIOUS
  <2>3. charge'[x] = c /\ \A i \in Installments \ {x} : charge'[i] = charge[i]
    BY <2>1, <2>2, Known0
  <2>4. c.taken = charge[x].taken /\ c.returned = charge[x].returned
    BY <1>1, <2>2 DEF Charges
  <2>5. Fades(x)
    BY <2>1, SameFades
  <2>6. ~ CardPays(x) \/ charge[x].taken = 0 \/ x \in ByBank
    BY NotTaken DEF CardPays, Chargeable, Charges
  <2>7. QED BY <2>1, <2>3, <2>4, <2>5, <2>6
<1>3. CASE BankReturns(x)
  <2>1. x \in ByBank /\ inst' = inst
    BY <1>3 DEF BankReturns
  <2>2. \A i \in Installments \ {x} : charge'[i] = charge[i]
    <3>1. PICK n : n = charge[x].returned + 1
      OBVIOUS
    <3>2. PICK c : c = [charge[x] EXCEPT !.taken = 0, !.back = 0, !.returned = n]
      OBVIOUS
    <3>3. charge' = [charge EXCEPT ![x] = c]
      BY <1>3, <3>1, <3>2 DEF BankReturns
    <3>4. QED BY <3>3, Known0
  <2>3. QED BY <2>1, <2>2, SameFades
<1>4. CASE BankPays(x) \/ ClearingFails(x)
  <2>1. PICK status \in {"CLEARING", "CANCELLED", "FAILED"} :
          inst' = [inst EXCEPT ![x].status = status] /\ charge' = charge
    BY <1>4 DEF BankPays, ClearingFails
  <2>2. PICK row : row = [inst[x] EXCEPT !.status = status]
    OBVIOUS
  <2>3. inst'[x] = row /\ \A i \in Installments \ {x} : inst'[i] = inst[i]
    BY <2>1, <2>2, Known0
  <2>4. row.status # "PAID"
    BY <1>1, <2>1, <2>2 DEF Rows
  <2>5. ~ CardPays(x) \/ charge[x].taken = 0 \/ x \in ByBank
    BY NotTaken DEF CardPays, Chargeable, Charges
  <2>6. CASE x \notin ByBank
    <3>1. charge[x].taken > 0 => ~ CardPays(x)
      BY NotTaken DEF CardPays, Chargeable
    <3>2. QED BY <2>1, <2>3, <2>4, <3>1 DEF Fades
  <2>7. CASE x \in ByBank
    BY <2>1, <2>3, <2>4, <2>7 DEF Fades
  <2>8. QED BY <2>6, <2>7
<1>5. CASE CardPays(x) \/ Clears(x)
  <2>1. inst[x].status \in {"SCHEDULED", "FAILED", "CLEARING"}
    BY <1>5 DEF CardPays, Chargeable, Clears
  <2>2. charge[x].taken > 0 => x \in ByBank
    BY <2>1, NotTaken
  <2>3. PICK amount : amount = inst[x].amount
    OBVIOUS
  <2>4. CASE Land(x)
    <3>1. /\ inst' = [inst EXCEPT ![x].status = "PAID", ![x].refunded = 0]
          /\ charge' = [charge EXCEPT ![x].taken = amount, ![x].back = 0]
      BY <2>1, <2>3, <2>4, LandIsWhole
    <3>2. QED BY <1>5, <2>2, <3>1, CellsChange
  <2>5. CASE ~ Land(x)
    <3>1. Clears(x) /\ Ended
      BY <1>5, <2>5 DEF CardPays, Clears
    <3>2. /\ inst' = [inst EXCEPT ![x].status = "REFUNDED", ![x].refunded = amount]
          /\ charge' = [charge EXCEPT ![x].taken = amount, ![x].back = amount]
      BY <2>3, <3>1 DEF Clears
    <3>3. QED BY <1>5, <2>2, <3>2, CellsChange
  <2>6. QED BY <2>4, <2>5
<1>6. QED BY <1>2, <1>3, <1>4, <1>5

----------------------------------------------------------------------------
(* What a job's step makes of the job.                                     *)

OpKept == job' = Idle \/ (job'.op = job.op /\ job'.paidOut = job.paidOut)

LEMMA GotoKeeps ==
  ASSUME SettlementInv, NEW p, Goto(p)
  PROVE  /\ job'.at = p /\ job'.op = job.op /\ job'.paidOut = job.paidOut
         /\ job'.left = job.left /\ job'.share = job.share /\ job'.owed = job.owed
  BY Known0 DEF Goto, Jobs

LEMMA AfterTakeBackKeeps ==
  ASSUME SettlementInv, AfterTakeBack
  PROVE  /\ OpKept /\ job'.at \in {"close", "idle"}
         /\ job'.at = "close" => job.op \in {"dispute", "return"} /\ job'.op = job.op
         /\ job.op = "dispute" => job'.at = "close"
<1>1. CASE Goto("close") /\ job.op \in {"dispute", "return"}
  BY <1>1, GotoKeeps DEF OpKept
<1>2. CASE Done /\ job.op \notin {"dispute", "return"}
  BY <1>2, IdleBrings DEF OpKept, Done
<1>3. QED BY <1>1, <1>2 DEF AfterTakeBack

LEMMA TakeBackKeeps ==
  ASSUME SettlementInv, NEW amount \in Int, amount >= 0, TakeBack(amount)
  PROVE  /\ OpKept /\ job'.at \in {"reverse", "close", "idle"} /\ TakingBack' = amount
         /\ job'.at \in {"reverse", "close"} => job'.op = job.op
         /\ job.op = "dispute" => job'.at # "idle"
<1>1. CASE amount > 0
  <2>1. job' = [job EXCEPT !.at = "reverse", !.left = amount]
    BY <1>1 DEF TakeBack
  <2>2. job'.at = "reverse" /\ job'.left = amount /\ job'.op = job.op /\ job'.paidOut = job.paidOut
    BY <2>1, Known0 DEF Jobs
  <2>3. QED BY <2>2 DEF TakingBack, OpKept
<1>2. CASE amount = 0
  <2>1. AfterTakeBack
    BY <1>2 DEF TakeBack
  <2>2. TakingBack' = 0
    BY <2>1, AfterTakeBackKeeps DEF TakingBack
  <2>3. QED BY <1>2, <2>1, <2>2, AfterTakeBackKeeps
<1>3. QED BY <1>1, <1>2

LEMMA AfterClaimKeeps ==
  ASSUME SettlementInv, AfterClaim, job.share \in Int
  PROVE  /\ OpKept
         /\ job.share = 0 => job' = Idle
         /\ job.share > 0 => /\ job'.at \in {"offset", "send"} /\ job'.op = job.op
                             /\ job'.at = "send" => Offset = 0
                             /\ job'.share = job.share /\ job'.owed = job.owed
         /\ job.share < 0 => job'.at = "owe" /\ job'.op = job.op /\ job'.left = - job.share
<1>1. CASE job.share < 0
  <2>1. job' = [job EXCEPT !.at = "owe", !.left = - job.share]
    BY <1>1 DEF AfterClaim
  <2>2. QED BY <1>1, <2>1, Known0 DEF Jobs, OpKept
<1>2. CASE job.share = 0
  BY <1>2 DEF AfterClaim, Done, OpKept
<1>3. CASE job.share > 0
  <2>1. PICK p : p = (IF Offset > 0 THEN "offset" ELSE "send") /\ Goto(p)
    BY <1>3 DEF AfterClaim
  <2>2. Offset \in Int /\ Offset >= 0
    BY <1>3, OffsetIs
  <2>3. QED BY <1>3, <2>1, <2>2, GotoKeeps DEF OpKept
<1>4. QED BY <1>1, <1>2, <1>3

LEMMA PayoutKeeps ==
  ASSUME SettlementInv, Payout
  PROVE  OpKept /\ job.at # "idle"
<1>1. job.share \in Int
  BY Known0 DEF Jobs
<1>2. CASE ClaimRelease \/ ClaimLate
  BY <1>1, <1>2, AfterClaimKeeps DEF ClaimRelease, ClaimLate, At
<1>3. CASE OffsetDebt \/ RecordPayout \/ CreditBalance \/ ClaimEarly \/ UnsendEarly
  BY <1>3, GotoKeeps DEF OffsetDebt, RecordPayout, CreditBalance, ClaimEarly, UnsendEarly, Done,
     OpKept, At
<1>4. CASE SendPayout \/ SendEarly
  <2>1. \E p : Goto(p)
    BY <1>4 DEF SendPayout, SendEarly, Transfer
  <2>2. QED BY <1>4, <2>1, GotoKeeps DEF SendPayout, SendEarly, OpKept, At
<1>5. QED BY <1>2, <1>3, <1>4 DEF Payout

LEMMA RecoveryKeeps ==
  ASSUME SettlementInv, Recovery
  PROVE  OpKept /\ job.at \in {"reverse", "owe"}
<1>1. CASE TakeBackDone \/ OweRest
  BY <1>1, AfterTakeBackKeeps DEF TakeBackDone, OweRest, At
<1>2. CASE ReverseTransfer
  <2>1. (\E take : job' = [job EXCEPT !.left = @ - take]) \/ Goto("owe")
    BY <1>2 DEF ReverseTransfer
  <2>2. job'.op = job.op /\ job'.paidOut = job.paidOut
    BY <2>1, Known0 DEF Goto, Jobs
  <2>3. QED BY <1>2, <2>2 DEF ReverseTransfer, At, OpKept
<1>3. QED BY <1>1, <1>2 DEF Recovery

RefundPlaces == {"lower", "parts", "refund", "recordRefund", "recover", "resolve"}

LEMMA RefundingKeeps ==
  ASSUME SettlementInv, Refunding
  PROVE  /\ job' = Idle \/ (job'.op = job.op /\ job'.at \in RefundPlaces)
         /\ job.at \in RefundPlaces
         /\ RecordPart \/ OpKept
<1>1. CASE ReadParts \/ CallOffPart \/ SkipPart \/ LowerUnpaid
  <2>1. \/ \E at, todo : job' = [job EXCEPT !.at = at, !.todo = todo] /\ at = "refund"
        \/ \E todo : job' = [job EXCEPT !.todo = todo]
        \/ \E todo, left : job' = [job EXCEPT !.todo = todo, !.left = left]
    BY <1>1 DEF ReadParts, CallOffPart, SkipPart, LowerUnpaid
  <2>2. job'.op = job.op /\ job'.paidOut = job.paidOut /\ job'.at \in {"refund", job.at}
    BY <2>1, Known0 DEF Jobs
  <2>3. QED BY <1>1, <2>2 DEF ReadParts, CallOffPart, SkipPart, LowerUnpaid, ToRefund, At,
         RefundPlaces, OpKept
<1>2. CASE RefundPart
  <2>1. At("refund") /\ (Goto("recordRefund") \/ Done)
    BY <1>2 DEF RefundPart, ToRefund
  <2>2. QED BY <2>1, GotoKeeps DEF At, RefundPlaces, OpKept, Done
<1>3. CASE RecordPart
  <2>1. At("recordRefund")
        /\ \E todo, left, paidOut : job' = [job EXCEPT !.at = "refund", !.todo = todo,
                                              !.left = left, !.paidOut = paidOut]
    BY <1>3 DEF RecordPart
  <2>2. job'.op = job.op /\ job'.at = "refund"
    BY <2>1, Known0 DEF Jobs
  <2>3. QED BY <1>3, <2>1, <2>2 DEF At, RefundPlaces
<1>4. CASE RefundsDone \/ LoweringDone \/ RecoverGivenBack
  BY <1>4, GotoKeeps DEF RefundsDone, LoweringDone, RecoverGivenBack, At, RefundPlaces, OpKept, Done
<1>5. QED BY <1>1, <1>2, <1>3, <1>4 DEF Refunding

LEMMA SettlingKeeps ==
  ASSUME SettlementInv, Settling
  PROVE  OpKept /\ job.at # "idle"
<1>1. CASE Resolve \/ CloseRefunded \/ CloseReturn
  BY <1>1, GotoKeeps DEF Resolve, CloseRefunded, CloseReturn, At, OpKept, Done
<1>2. booking.early \in Nat
  BY Known0 DEF BookFits, BookingRows
<1>3. CASE EndRefunded \/ ForgetEarly
  BY <1>2, <1>3, TakeBackKeeps DEF EndRefunded, ForgetEarly, At
<1>4. CASE ApplyLoss
  <2>1. At("apply") /\ \E amount \in Int : TakeBack(amount) /\ amount >= 0
    <3>1. At("apply") /\ PartLost \in Nat /\ BookFits /\ booking \in BookingRows
      BY <1>4, AfterLossIs, Known0 DEF ApplyLoss
    <3>2. AfterCommission(PartLost) \in Nat
      BY <3>1, AfterCommissionIs
    <3>3. PICK e : e = (IF PaidEarly(job.i) THEN Smaller(PartLost, booking.early) ELSE 0)
      OBVIOUS
    <3>4. e \in Nat
      BY <1>2, <3>1, <3>3 DEF Smaller
    <3>5. TakeBack(AfterCommission(PartLost)) \/ TakeBack(e)
      BY <1>4, <3>3 DEF ApplyLoss
    <3>6. QED BY <3>1, <3>2, <3>4, <3>5
  <2>2. QED BY <2>1, TakeBackKeeps DEF At
<1>5. QED BY <1>1, <1>3, <1>4 DEF Settling

\* A step that is not a refund's record keeps the operation, or ends it.
LEMMA JobGoesOn ==
  ASSUME SettlementInv, JobStep
  PROVE  /\ job.at # "idle" /\ (job' = Idle \/ job'.op = job.op)
         /\ RecordPart \/ OpKept
  BY PayoutKeeps, RecoveryKeeps, RefundingKeeps, SettlingKeeps DEF JobStep, OpKept, RefundPlaces

----------------------------------------------------------------------------
(* Before the release.                                                     *)

LEMMA OnceKept ==
  ASSUME SettlementInv, SettlementInv', EarlyOnce, EarlyKnown' => EarlyKnown,
         Deposit \in Installments => Fades(Deposit), CardTaken => CardTaken',
         (booking'.early = 0 \/ At("forget")') /\ EarlyKnown'
           => booking.early = 0 \/ At("forget") \/ DepositSpent',
         job'.op = "early" => job.op = "early",
         job'.op = "early" /\ job'.at \in {"claim", "send", "unsend"}
           => job.at \in {"claim", "send", "unsend"} \/ ~ EarlyKnown'
  PROVE  EarlyOnce'
<1>1. (booking'.early = 0 \/ At("forget")') /\ EarlyKnown' => DepositSpent'
  BY SpentStays DEF EarlyOnce
<1>2. EarlyKnown' => ~ (job'.op = "early" /\ job'.at \in {"claim", "send", "unsend"})
  BY DEF EarlyOnce
<1>3. EarlyKnown' \/ job'.op = "early" => CardTaken'
  BY DEF EarlyOnce
<1>4. QED BY <1>1, <1>2, <1>3 DEF EarlyOnce

\* Before the release only the payout itself ends a release.
LEMMA OnlyClaims ==
  ASSUME SettlementInv, ~ booking.released, BeforeRelease, JobStep, job.op = "release"
  PROVE  ClaimRelease
<1>1. At("claim")
  BY DEF BeforeRelease
<1>2. ~ Recovery /\ ~ Refunding
  BY <1>1, RecoveryKeeps, RefundingKeeps DEF At, RefundPlaces
<1>3. ~ Settling
  BY <1>1 DEF Settling, Resolve, EndRefunded, CloseRefunded, ForgetEarly, CloseReturn, ApplyLoss, At
<1>4. QED BY <1>1, <1>2, <1>3 DEF JobStep, Payout, ClaimLate, OffsetDebt, SendPayout, RecordPayout,
     CreditBalance, ClaimEarly, SendEarly, UnsendEarly, At

\* A step of a job, the sums aside.
LEMMA JobBefore ==
  ASSUME SettlementInv, SettlementInv', ~ booking.released, BeforeRelease, JobStep,
         ~ ClaimRelease, Ends' = booking'.early, booking'.dispute = "refunded" => At("over")',
         EarlyOnly', EarlyKnown' => EarlyKnown \/ booking'.early # 0,
         job'.at \in {"claim", "send", "unsend"} => ~ EarlyKnown',
         EarlyKnown' /\ ~ EarlyKnown => job.op = "early" /\ job'.at # "forget",
         (booking'.early = 0 \/ At("forget")') /\ EarlyKnown'
           => booking.early = 0 \/ At("forget") \/ DepositSpent'
  PROVE  BeforeRelease'
<1>1. job' = Idle \/ job'.op = job.op
  BY JobGoesOn
<1>2. job'.op = "idle" \/ job'.op = job.op
  BY <1>1, IdleBrings
<1>3. job.paidOut = 0 /\ job.op # "late"
  BY DEF BeforeRelease
<1>4. job'.paidOut = 0
  <2>1. CASE OpKept
    BY <1>3, <2>1, IdleBrings DEF OpKept
  <2>2. CASE RecordPart
    <3>1. At("recordRefund") /\ job.todo # {}
      BY <2>2, Known0 DEF RecordPart, RefundFits
    <3>2. ~ inst[This].out
      BY <3>1, ThisIs, Known0 DEF RowsFit, RowFits
    <3>3. \E todo, left : job' = [job EXCEPT !.at = "refund", !.todo = todo, !.left = left,
                                     !.paidOut = @]
      BY <2>2, <3>2 DEF RecordPart
    <3>4. QED BY <1>3, <3>3, Known0 DEF Jobs
  <2>3. QED BY <2>1, <2>2, JobGoesOn
<1>5. job.op # "release"
  BY OnlyClaims
<1>6. job'.op # "late" /\ job'.op # "release"
  BY <1>1, <1>2, <1>3, <1>5, IdleBrings
<1>7. CardTaken => CardTaken'
  BY ChargesStay, TakenStays
<1>8. Deposit \in Installments => Fades(Deposit)
  BY RowsFade
<1>9. EarlyOnce'
  <2>1. EarlyOnce
    BY DEF BeforeRelease
  <2>2. CASE EarlyKnown' => EarlyKnown
    BY <1>2, <1>7, <1>8, <2>1, <2>2, OnceKept, IdleBrings
  <2>3. CASE EarlyKnown' /\ ~ EarlyKnown
    <3>1. job.op = "early" /\ CardTaken'
      BY <1>7, <2>1, <2>3 DEF EarlyOnce
    <3>2. QED BY <2>3, <3>1 DEF EarlyOnce, At
  <2>4. QED BY <2>2, <2>3
<1>10. QED BY <1>4, <1>6, <1>9 DEF BeforeRelease

Moving == {"offset", "send", "credit", "unsend", "reverse", "owe"}

LEMMA SameKeys ==
  ASSUME UNCHANGED sent PROVE (EarlyOnly => EarlyOnly') /\ EarlyKnown' = EarlyKnown
  BY DEF EarlyOnly, EarlyKnown

\* Neither money nor what is known of it moves.
LEMMA QuietBefore ==
  ASSUME SettlementInv, SettlementInv', ~ booking.released, BeforeRelease, JobStep,
         UNCHANGED <<sent, vendor>>, booking'.early = booking.early,
         booking'.dispute = "refunded" => booking.dispute = "refunded" \/ At("over")',
         job.at \notin Moving \cup {"over", "claim", "forget"},
         job'.at \notin Moving \cup {"claim", "forget"}
  PROVE  BeforeRelease'
<1>1. Ends' = Ends
  <2>1. ToCome = 0 /\ TakingBack = 0 /\ ToCome' = 0 /\ TakingBack' = 0
    BY ElsewhereBrings, ElsewhereBringsNext DEF Moving
  <2>2. QED BY <2>1, HasStays DEF Ends
<1>2. EarlyOnly' /\ EarlyKnown' = EarlyKnown
  BY SameKeys DEF BeforeRelease
<1>3. booking'.dispute = "refunded" => At("over")'
  BY DEF BeforeRelease, At
<1>4. ~ ClaimRelease
  BY DEF ClaimRelease, At
<1>5. Ends' = booking'.early
  BY <1>1 DEF BeforeRelease
<1>6. job'.at \notin {"claim", "send", "unsend", "forget"}
  BY DEF Moving
<1>7. QED BY <1>2, <1>3, <1>4, <1>5, <1>6, JobBefore DEF At

LEMMA RefundingBefore ==
  ASSUME SettlementInv, SettlementInv', ~ booking.released, BeforeRelease, Refunding
  PROVE  BeforeRelease'
<1>1. job.at \in RefundPlaces /\ job'.at \in RefundPlaces \cup {"idle"}
  BY RefundingKeeps, IdleBrings
<1>2. UNCHANGED <<booking, sent>>
  BY DEF Refunding, ReadParts, CallOffPart, SkipPart, RefundPart, RecordPart, RefundsDone,
     LowerUnpaid, LoweringDone, RecoverGivenBack
<1>3. UNCHANGED vendor
  <2>1. CASE RecoverGivenBack
    <3>1. job.paidOut = 0
      BY DEF BeforeRelease
    <3>2. AfterCommission(job.paidOut) = 0
      BY <3>1, Known0, AfterCommissionIs
    <3>3. Credit(- 0)
      BY <2>1, <3>2 DEF RecoverGivenBack
    <3>4. vendor' = [vendor EXCEPT !.balance = @ + (- 0)]
      BY <3>3 DEF Credit
    <3>5. QED BY <3>4, Known0
  <2>2. QED BY <2>1 DEF Refunding, ReadParts, CallOffPart, SkipPart, RefundPart, RecordPart,
       RefundsDone, LowerUnpaid, LoweringDone
<1>4. JobStep
  BY DEF JobStep
<1>5. job.at \notin Moving \cup {"over", "claim", "forget"}
      /\ job'.at \notin Moving \cup {"claim", "forget"}
  BY <1>1 DEF Moving, RefundPlaces
<1>6. QED BY <1>2, <1>3, <1>4, <1>5, QuietBefore

LEMMA RecordPayoutBefore ==
  ASSUME SettlementInv, SettlementInv', ~ booking.released, BeforeRelease, RecordPayout
  PROVE  BeforeRelease'
<1>1. At("record") /\ job' = Idle /\ UNCHANGED <<booking, vendor>>
  BY DEF RecordPayout, Done
<1>2. VendorHas' = VendorHas
  <2>1. SumFunction(Nets(sent')) = SumFunction(Nets(sent))
    BY RecordPayoutIs
  <2>2. QED BY <1>1, <2>1, EndsIs, SentHas
<1>3. ToCome = 0 /\ TakingBack = 0 /\ ToCome' = 0 /\ TakingBack' = 0
  BY <1>1, ElsewhereBrings, IdleBrings DEF At
<1>4. Ends' = Ends
  BY <1>2, <1>3 DEF Ends
<1>5. (EarlyOnly => EarlyOnly') /\ (EarlyKnown' => EarlyKnown)
  BY RecordedKeys
<1>6. job'.at = "idle" /\ ~ ClaimRelease /\ JobStep
  BY <1>1, IdleBrings DEF ClaimRelease, At, JobStep, Payout
<1>7. Ends' = booking'.early /\ EarlyOnly'
  BY <1>1, <1>4, <1>5 DEF BeforeRelease
<1>8. booking'.dispute # "refunded"
  BY <1>1 DEF BeforeRelease, At
<1>9. QED BY <1>1, <1>5, <1>6, <1>7, <1>8, JobBefore DEF At

LEMMA ClaimEarlyBefore ==
  ASSUME SettlementInv, SettlementInv', ~ booking.released, BeforeRelease, ClaimEarly
  PROVE  BeforeRelease'
<1>1. /\ job.op = "early" /\ job.at = "claim" /\ job'.at = "send" /\ job'.op = "early"
      /\ job'.share = job.share
      /\ UNCHANGED <<inst, charge, refunds, sent, vendor, report>>
  BY GotoKeeps DEF ClaimEarly, At
<1>2. booking.early = 0 /\ job.share > 0 /\ job.share \in Int
  BY <1>1, Known0 DEF EarlyFits, At, Jobs
<1>3. booking'.early = job.share /\ booking'.dispute = booking.dispute
  BY Known0 DEF ClaimEarly, BookingRows
<1>4. VendorHas' = VendorHas /\ VendorHas = 0
  <2>1. ToCome = 0 /\ TakingBack = 0
    BY <1>1, ElsewhereBrings
  <2>2. QED BY <1>1, <1>2, <2>1, HasStays DEF Ends, BeforeRelease
<1>5. ToCome' = job.share /\ TakingBack' = 0
  BY <1>1 DEF ToCome, TakingBack
<1>6. Ends' = booking'.early
  BY <1>2, <1>3, <1>4, <1>5 DEF Ends
<1>7. EarlyOnly' /\ ~ EarlyKnown /\ ~ EarlyKnown'
  BY <1>1, SameKeys DEF BeforeRelease, EarlyOnce
<1>8. booking'.dispute # "refunded"
  BY <1>1, <1>3 DEF BeforeRelease, At
<1>9. ~ ClaimRelease /\ JobStep
  BY <1>1 DEF ClaimRelease, At, JobStep, Payout
<1>10. QED BY <1>6, <1>7, <1>8, <1>9, JobBefore

LEMMA UnsendEarlyBefore ==
  ASSUME SettlementInv, SettlementInv', ~ booking.released, BeforeRelease, UnsendEarly
  PROVE  BeforeRelease'
<1>1. /\ job.at = "unsend" /\ job.op = "early" /\ job' = Idle
      /\ UNCHANGED <<inst, charge, refunds, sent, vendor, report>>
  BY Known0 DEF UnsendEarly, At, RefundFits, Done
<1>2. booking.early = job.share /\ job.share \in Int
  BY <1>1, Known0 DEF EarlyFits, Jobs
<1>3. booking'.early = 0 /\ booking'.dispute = booking.dispute
  BY Known0 DEF UnsendEarly, BookingRows
<1>4. VendorHas' = VendorHas /\ VendorHas = 0
  <2>1. ToCome = job.share /\ TakingBack = 0
    BY <1>1 DEF ToCome, TakingBack
  <2>2. QED BY <1>1, <1>2, <2>1, HasStays DEF Ends, BeforeRelease
<1>5. Ends' = booking'.early
  BY <1>1, <1>3, <1>4, IdleBrings DEF Ends
<1>6. EarlyOnly' /\ ~ EarlyKnown /\ ~ EarlyKnown'
  BY <1>1, SameKeys DEF BeforeRelease, EarlyOnce
<1>7. booking'.dispute # "refunded"
  BY <1>1, <1>3 DEF BeforeRelease, At
<1>8. ~ ClaimRelease /\ JobStep
  BY <1>1 DEF ClaimRelease, At, JobStep, Payout
<1>9. QED BY <1>5, <1>6, <1>7, <1>8, JobBefore

LEMMA SendEarlyBefore ==
  ASSUME AnswersLost = FALSE, SettlementInv, SettlementInv', ~ booking.released, BeforeRelease,
         SendEarly
  PROVE  BeforeRelease'
<1>1. /\ job.op = "early" /\ job.at = "send" /\ Transfer(Key, job.share, "record", "unsend")
      /\ UNCHANGED <<booking, inst, charge, refunds, vendor, report>>
  BY DEF SendEarly, At
<1>2. booking.early = job.share /\ job.share \in Nat /\ job.share > 0
  BY <1>1, Known0 DEF EarlyFits, PayoutFits, Jobs
<1>3. Known(Key) = {}
  <2>1. Key.op = "early"
    BY <1>1 DEF Key
  <2>2. ~ EarlyKnown
    BY <1>1 DEF BeforeRelease, EarlyOnce
  <2>3. QED BY <2>1, <2>2 DEF Known, EarlyKnown
<1>4. ToCome = job.share /\ TakingBack = 0
  BY <1>1 DEF ToCome, TakingBack
<1>5. "record" \in Places /\ "unsend" \in Places /\ Key \in Keys
  BY <1>1, KeyIs DEF Places
<1>6. Ends' = Ends
  <2>1. CASE UNCHANGED sent /\ Goto("unsend")
    <3>1. job'.at = "unsend" /\ job'.op = "early" /\ job'.share = job.share
      BY <1>1, <2>1, GotoKeeps
    <3>2. ToCome' = job.share /\ TakingBack' = 0
      BY <3>1 DEF ToCome, TakingBack
    <3>3. QED BY <1>1, <1>4, <2>1, <3>2, HasStays DEF Ends
  <2>2. CASE SumFunction(Nets(sent)) + job.share = SumFunction(Nets(sent')) /\ Goto("record")
    <3>1. job'.at = "record"
      BY <2>2, GotoKeeps
    <3>2. ToCome' = 0 /\ TakingBack' = 0
      BY <3>1, ElsewhereBringsNext
    <3>3. VendorHas' = VendorHas + job.share
      BY <1>1, <1>2, <2>2, EndsIs, SentHas
    <3>4. QED BY <1>2, <1>4, <3>2, <3>3, EndsIs DEF Ends
  <2>3. \/ SumFunction(Nets(sent)) + job.share = SumFunction(Nets(sent')) /\ Goto("record")
        \/ UNCHANGED sent /\ (Goto("record") \/ Goto("unsend"))
    BY <1>1, <1>2, <1>5, TransferIs
  <2>4. UNCHANGED sent /\ Goto("record") => FALSE
    <3>1. SUFFICES ASSUME UNCHANGED sent, Goto("record") PROVE FALSE
      OBVIOUS
    <3>2. ~ Goto("unsend")
      BY <3>1, GotoKeeps
    <3>3. \E t : sent' = Append(sent, t)
      BY <1>1, <1>3, <3>2 DEF Transfer
    <3>4. PICK t : sent' = Append(sent, t)
      BY <3>3
    <3>5. sent \in Seq(Transfers)
      BY Known0
    <3>6. Len(sent) \in Nat /\ Len(Append(sent, t)) = Len(sent) + 1
      BY <3>5
    <3>7. QED BY <3>1, <3>4, <3>6
  <2>5. QED BY <2>1, <2>2, <2>3, <2>4
<1>7. EarlyOnly' /\ (job'.at # "record" => ~ EarlyKnown')
  <2>1. CASE UNCHANGED sent
    BY <1>1, <2>1, SameKeys DEF BeforeRelease, EarlyOnce
  <2>2. CASE ~ UNCHANGED sent
    <3>1. PICK t : t = [key |-> Key, amount |-> job.share, reversed |-> 0, row |-> FALSE, fresh |-> TRUE]
      OBVIOUS
    <3>2. sent' = Append(sent, t) /\ \E answered \in {TRUE, ~ AnswersLost} :
                                        Goto(IF answered THEN "record" ELSE "unsend")
      BY <1>1, <2>2, <3>1 DEF Transfer
    <3>3. job'.at = "record"
      BY <3>2, GotoKeeps
    <3>4. t.key.op = "early"
      BY <1>1, <3>1 DEF Key
    <3>5. sent \in Seq(Transfers) /\ EarlyOnly
      BY Known0 DEF BeforeRelease
    <3>6. \A k \in DOMAIN sent' : (k \in DOMAIN sent /\ sent'[k] = sent[k]) \/ sent'[k] = t
      BY <3>2, <3>5
    <3>7. QED BY <3>3, <3>4, <3>5, <3>6 DEF EarlyOnly
  <2>3. QED BY <2>1, <2>2
<1>8. job'.at \in {"record", "unsend"}
  BY <1>1, GotoKeeps DEF Transfer
<1>9. booking'.dispute # "refunded" /\ booking'.early # 0
  BY <1>1, <1>2 DEF BeforeRelease, At
<1>10. Ends' = booking'.early
  BY <1>1, <1>6 DEF BeforeRelease
<1>11. ~ ClaimRelease /\ JobStep
  BY <1>1 DEF ClaimRelease, At, JobStep, Payout
<1>12. QED BY <1>1, <1>7, <1>8, <1>9, <1>10, <1>11, JobBefore DEF At

\* What a job takes back, whenever it does.
LEMMA RecoveryEnds ==
  ASSUME SettlementInv, SettlementInv', Recovery
  PROVE  /\ Ends' = Ends /\ (EarlyOnly => EarlyOnly') /\ (EarlyKnown' => EarlyKnown)
         /\ job'.at \in {"reverse", "owe", "close", "idle"} /\ UNCHANGED booking
         /\ job.op = "dispute" => job'.at # "idle"
<1>1. job.left \in Int /\ job.left >= 0
  BY Known0
<1>2. CASE TakeBackDone
  <2>1. At("reverse") /\ job.left = 0 /\ AfterTakeBack /\ UNCHANGED <<booking, sent, vendor>>
    BY <1>2 DEF TakeBackDone
  <2>2. job'.at \in {"close", "idle"} /\ (job.op = "dispute" => job'.at = "close")
    BY <2>1, AfterTakeBackKeeps
  <2>3. ToCome = 0 /\ TakingBack = 0 /\ ToCome' = 0 /\ TakingBack' = 0
    BY <2>1, <2>2 DEF ToCome, TakingBack, At
  <2>4. QED BY <2>1, <2>2, <2>3, HasStays, SameKeys DEF Ends
<1>3. CASE OweRest
  <2>1. At("owe") /\ Credit(- job.left) /\ AfterTakeBack /\ UNCHANGED <<booking, sent>>
    BY <1>3 DEF OweRest
  <2>2. job'.at \in {"close", "idle"} /\ (job.op = "dispute" => job'.at = "close")
    BY <2>1, AfterTakeBackKeeps
  <2>3. ToCome = 0 /\ TakingBack = job.left /\ ToCome' = 0 /\ TakingBack' = 0
    BY <2>1, <2>2 DEF ToCome, TakingBack, At
  <2>4. - job.left \in Int
    BY <1>1
  <2>5. VendorHas' = VendorHas + (- job.left)
    BY <2>1, <2>4, CreditHas
  <2>6. Ends' = Ends
    BY <1>1, <2>3, <2>5, EndsIs DEF Ends
  <2>7. QED BY <2>1, <2>2, <2>6, SameKeys
<1>4. CASE ReverseTransfer
  <2>1. At("reverse") /\ job.left > 0 /\ UNCHANGED <<booking, vendor>>
    BY <1>4 DEF ReverseTransfer
  <2>2. ToCome = 0 /\ TakingBack = job.left
    BY <2>1 DEF ToCome, TakingBack, At
  <2>3. CASE UNCHANGED sent /\ Goto("owe")
    <3>1. job'.at = "owe" /\ job'.left = job.left
      BY <2>3, GotoKeeps
    <3>2. ToCome' = 0 /\ TakingBack' = job.left
      BY <3>1 DEF ToCome, TakingBack
    <3>3. Ends' = Ends
      BY <2>1, <2>2, <2>3, <3>2, HasStays DEF Ends
    <3>4. QED BY <2>1, <2>3, <3>1, <3>3, SameKeys
  <2>4. CASE ~ (UNCHANGED sent /\ Goto("owe"))
    <3>1. PICK k, take : /\ k = Max(Reversible)
                         /\ take = Smaller(job.left, sent[k].amount - sent[k].reversed)
      OBVIOUS
    <3>2. /\ Reversible # {} /\ sent' = [sent EXCEPT ![k].reversed = @ + take]
          /\ job' = [job EXCEPT !.left = @ - take]
      BY <1>4, <2>4, <3>1 DEF ReverseTransfer
    <3>3. take \in Nat /\ SumFunction(Nets(sent')) = SumFunction(Nets(sent)) - take
      BY <2>1, <3>1, <3>2, ReverseIs
    <3>4. VendorHas' = VendorHas - take
      BY <2>1, <3>3, EndsIs, SentHas
    <3>5. job'.at = "reverse" /\ job'.left = job.left - take
      BY <2>1, <3>2, Known0 DEF At, Jobs
    <3>6. ToCome' = 0 /\ TakingBack' = job.left - take
      BY <3>5 DEF ToCome, TakingBack
    <3>7. Ends' = Ends
      BY <1>1, <2>2, <3>3, <3>4, <3>6, EndsIs DEF Ends
    <3>8. QED BY <1>4, <2>1, <3>5, <3>7, ReversedKeys
  <2>5. QED BY <2>3, <2>4
<1>5. QED BY <1>2, <1>3, <1>4 DEF Recovery

LEMMA RecoveryBefore ==
  ASSUME SettlementInv, SettlementInv', ~ booking.released, BeforeRelease, Recovery
  PROVE  BeforeRelease'
<1>1. job.at \in {"reverse", "owe"}
  BY RecoveryKeeps
<1>2. Ends' = booking'.early /\ EarlyOnly' /\ booking'.dispute # "refunded"
  BY <1>1, RecoveryEnds DEF BeforeRelease, At
<1>3. ~ ClaimRelease /\ JobStep
  BY <1>1 DEF ClaimRelease, At, JobStep
<1>4. QED BY <1>2, <1>3, RecoveryEnds, JobBefore DEF At

LEMMA ResolveBefore ==
  ASSUME SettlementInv, SettlementInv', ~ booking.released, BeforeRelease,
         Resolve \/ CloseRefunded \/ CloseReturn
  PROVE  BeforeRelease'
<1>1. JobStep /\ UNCHANGED <<sent, vendor>>
  BY DEF JobStep, Settling, Resolve, CloseRefunded, CloseReturn
<1>2. CASE Resolve
  <2>1. PICK dispute : dispute = IF job.deed = "refund" THEN "refunded" ELSE "resolved"
    OBVIOUS
  <2>2. PICK due : due = (booking.due \/ (job.deed # "refund" /\ booking.status = "COMPLETED"))
    OBVIOUS
  <2>3. booking' = [booking EXCEPT !.dispute = dispute, !.due = due]
    BY <1>2, <2>1, <2>2 DEF Resolve
  <2>4. booking'.early = booking.early /\ booking'.dispute = dispute
    BY <2>3, Known0 DEF BookingRows
  <2>5. IF job.deed = "refund" THEN Goto("over") ELSE Done
    BY <1>2 DEF Resolve
  <2>6. IF job.deed = "refund" THEN job'.at = "over" ELSE job'.at = "idle"
    BY <2>5, GotoKeeps, IdleBrings DEF Done
  <2>7. job.at = "resolve"
    BY <1>2 DEF Resolve, At
  <2>8. QED BY <1>1, <2>1, <2>4, <2>6, <2>7, QuietBefore DEF Moving, At
<1>3. CASE CloseRefunded \/ CloseReturn
  <2>1. job.at = "close" /\ job'.at = "idle"
    BY <1>3, IdleBrings DEF CloseRefunded, CloseReturn, At, Done
  <2>2. booking'.early = booking.early /\ booking'.dispute = booking.dispute
    BY <1>3, Known0 DEF CloseRefunded, CloseReturn, BookingRows
  <2>3. QED BY <1>1, <2>1, <2>2, QuietBefore DEF Moving
<1>4. QED BY <1>2, <1>3

LEMMA ForgetEarlyBefore ==
  ASSUME SettlementInv, SettlementInv', ~ booking.released, BeforeRelease, ForgetEarly
  PROVE  BeforeRelease'
<1>1. job.at = "forget" /\ TakeBack(booking.early) /\ UNCHANGED <<inst, charge, refunds, sent, vendor>>
  BY DEF ForgetEarly, At
<1>2. booking'.early = 0 /\ booking'.dispute = booking.dispute
  BY Known0 DEF ForgetEarly, BookingRows
<1>3. booking.early \in Int /\ booking.early >= 0
  BY Known0 DEF BookFits, BookingRows
<1>4. TakingBack' = booking.early /\ job'.at \in {"reverse", "close", "idle"}
  BY <1>1, <1>3, TakeBackKeeps
<1>5. ToCome = 0 /\ TakingBack = 0 /\ ToCome' = 0
  BY <1>1, <1>4, ElsewhereBrings DEF ToCome
<1>6. VendorHas' = VendorHas /\ VendorHas = booking.early
  BY <1>1, <1>5, HasStays DEF Ends, BeforeRelease
<1>7. Ends' = booking'.early
  BY <1>2, <1>3, <1>4, <1>5, <1>6 DEF Ends
<1>8. EarlyOnly' /\ EarlyKnown' = EarlyKnown
  BY <1>1, SameKeys DEF BeforeRelease
<1>9. booking'.dispute # "refunded"
  BY <1>1, <1>2 DEF BeforeRelease, At
<1>10. ~ ClaimRelease /\ JobStep
  BY <1>1 DEF ClaimRelease, At, JobStep, Settling
<1>11. QED BY <1>1, <1>4, <1>7, <1>8, <1>9, <1>10, JobBefore DEF At

\* A lost chargeback takes all that is left of a card's payment.
LEMMA LossSpends ==
  ASSUME SettlementInv, BooksAgree(Nat), CardsStay, ApplyLoss, job.i = Deposit
  PROVE  DepositSpent'
<1>1. /\ At("apply") /\ inst' = [inst EXCEPT ![job.i] = AfterLoss] /\ Deposit \in Installments
      /\ charge[Deposit].bank = "lost"
  BY Known0, AfterLossIs DEF ApplyLoss, RefundFits
<1>2. PICK row : row = AfterLoss
  OBVIOUS
<1>3. inst'[Deposit] = row
  BY <1>1, <1>2, Known0
<1>4. CASE inst[Deposit].status # "PAID"
  <2>1. row.status = inst[Deposit].status
    BY <1>1, <1>2, AfterLossIs
  <2>2. QED BY <1>3, <1>4, <2>1 DEF DepositSpent
<1>5. CASE inst[Deposit].status = "PAID"
  <2>1. charge[Deposit].returned = 0
    BY <1>1, Known0 DEF RowsFit, ChargeFits, CardsStay
  <2>2. Agree(Deposit, Nat) /\ charge[Deposit].back = charge[Deposit].taken
    BY <1>1, <1>5, <2>1 DEF BooksAgree, Booked, LossWhole
  <2>3. Pending(Deposit) = job.left
    BY <1>1 DEF Pending, At
  <2>4. /\ inst[Deposit].amount \in Nat /\ inst[Deposit].refunded \in Nat
        /\ inst[Deposit].fee \in Nat /\ job.left \in Int
    <3>1. inst[Deposit] \in Rows
      BY <1>1, Known0
    <3>2. QED BY <3>1, Known0 DEF Rows
  <2>5. inst[Deposit].refunded + job.left - inst[Deposit].amount \in Nat
    BY <2>2, <2>3 DEF Agree, Off
  <2>6. LostTake = Kept(Deposit) /\ Kept(Deposit) = inst[Deposit].amount - inst[Deposit].refunded
    BY <2>4, <2>5 DEF LostTake, Kept, Smaller
  <2>7. row.refunded = inst[Deposit].amount /\ row.amount = inst[Deposit].amount
        /\ row.fee = inst[Deposit].fee
    BY <1>1, <1>2, <2>4, <2>6, AfterLossIs
  <2>8. Portion(row) = 0
    BY <2>4, <2>7 DEF Portion, AtLeast0
  <2>9. QED BY <1>3, <2>8 DEF DepositSpent
<1>6. QED BY <1>4, <1>5

LEMMA ApplyLossBefore ==
  ASSUME SettlementInv, SettlementInv', ~ booking.released, BeforeRelease, ApplyLoss,
         BooksAgree(Nat), CardsStay
  PROVE  BeforeRelease'
<1>1. At("apply") /\ UNCHANGED <<charge, refunds, sent, vendor>> /\ job.i \in Installments
  BY Known0 DEF ApplyLoss, RefundFits
<1>2. ~ inst[job.i].out
  BY <1>1, Known0 DEF RowsFit, RowFits
<1>3. PICK e : e = (IF PaidEarly(job.i) THEN Smaller(PartLost, booking.early) ELSE 0)
  OBVIOUS
<1>4. booking' = [booking EXCEPT !.early = @ - e] /\ TakeBack(e)
  BY <1>2, <1>3 DEF ApplyLoss
<1>5. booking.early \in Int /\ booking.early >= 0 /\ PartLost \in Nat
  BY <1>1, Known0, AfterLossIs DEF BookFits, BookingRows
<1>6. e \in Int /\ e >= 0 /\ (e > 0 => job.i = Deposit)
  BY <1>3, <1>5 DEF Smaller, PaidEarly
<1>7. booking'.early = booking.early - e /\ booking'.dispute = booking.dispute
  BY <1>4, Known0 DEF BookingRows
<1>8. TakingBack' = e /\ job'.at \in {"reverse", "close", "idle"}
  BY <1>4, <1>6, TakeBackKeeps
<1>9. ToCome = 0 /\ TakingBack = 0 /\ ToCome' = 0
  BY <1>1, <1>8, ElsewhereBrings DEF ToCome, At
<1>10. VendorHas' = VendorHas /\ VendorHas = booking.early
  BY <1>1, <1>5, <1>9, HasStays DEF Ends, BeforeRelease
<1>11. Ends' = booking'.early
  BY <1>5, <1>6, <1>7, <1>8, <1>9, <1>10 DEF Ends
<1>12. EarlyOnly' /\ EarlyKnown' = EarlyKnown
  BY <1>1, SameKeys DEF BeforeRelease
<1>13. booking'.dispute # "refunded"
  BY <1>1, <1>7 DEF BeforeRelease, At
<1>14. ~ ClaimRelease /\ JobStep
  BY <1>1 DEF ClaimRelease, At, JobStep, Settling
<1>15. booking'.early = 0 => booking.early = 0 \/ DepositSpent'
  BY <1>5, <1>6, <1>7, LossSpends
<1>16. QED BY <1>8, <1>11, <1>12, <1>13, <1>14, <1>15, JobBefore DEF At

\* Every step of a job before the release but the one that releases, and the one that
\* ends a booking refunded in full.
LEMMA JobStaysBefore ==
  ASSUME AnswersLost = FALSE, SettlementInv, SettlementInv', ~ booking.released, BeforeRelease,
         JobStep, BooksAgree(Nat), CardsStay
  PROVE  ClaimRelease \/ EndRefunded \/ (BeforeRelease' /\ ~ booking'.released)
<1>1. CASE Payout
  <2>1. job.op # "late" /\ (job.op = "release" => At("claim"))
    BY DEF BeforeRelease
  <2>2. ~ ClaimLate /\ ~ OffsetDebt /\ ~ SendPayout /\ ~ CreditBalance
    BY <2>1, Known0 DEF ClaimLate, OffsetDebt, SendPayout, CreditBalance, PayoutFits, At
  <2>3. CASE RecordPayout
    BY <2>3, RecordPayoutBefore DEF RecordPayout
  <2>4. CASE ClaimEarly
    <3>1. booking'.released = booking.released
      BY <2>4, Known0 DEF ClaimEarly, BookingRows
    <3>2. QED BY <2>4, <3>1, ClaimEarlyBefore
  <2>5. CASE UnsendEarly
    <3>1. booking'.released = booking.released
      BY <2>5, Known0 DEF UnsendEarly, BookingRows
    <3>2. QED BY <2>5, <3>1, UnsendEarlyBefore
  <2>6. CASE SendEarly
    BY <2>6, SendEarlyBefore DEF SendEarly
  <2>7. QED BY <1>1, <2>2, <2>3, <2>4, <2>5, <2>6 DEF Payout
<1>2. CASE Recovery
  BY <1>2, RecoveryBefore, RecoveryEnds
<1>3. CASE Refunding
  <2>1. UNCHANGED booking
    BY <1>3 DEF Refunding, ReadParts, CallOffPart, SkipPart, RefundPart, RecordPart, RefundsDone,
       LowerUnpaid, LoweringDone, RecoverGivenBack
  <2>2. QED BY <1>3, <2>1, RefundingBefore
<1>4. CASE Settling
  <2>1. CASE Resolve \/ CloseRefunded \/ CloseReturn
    <3>1. booking'.released = booking.released
      BY <2>1, Known0 DEF Resolve, CloseRefunded, CloseReturn, BookingRows
    <3>2. QED BY <2>1, <3>1, ResolveBefore
  <2>2. CASE ForgetEarly
    <3>1. booking'.released = booking.released
      BY <2>2, Known0 DEF ForgetEarly, BookingRows
    <3>2. QED BY <2>2, <3>1, ForgetEarlyBefore
  <2>3. CASE ApplyLoss
    <3>1. booking'.released = booking.released
      BY <2>3, ApplyLossIs
    <3>2. QED BY <2>3, <3>1, ApplyLossBefore
  <2>4. QED BY <1>4, <2>1, <2>2, <2>3 DEF Settling
<1>5. QED BY <1>1, <1>2, <1>3, <1>4 DEF JobStep

----------------------------------------------------------------------------
(* The jobs as they begin.                                                 *)

\* All but a returned payment's leave the rows alone; none moves money yet.
LEMMA ReleaseStarts ==
  ASSUME ReleaseBegins
  PROVE  /\ job'.op = "release" /\ job'.at = "claim" /\ job'.paidOut = 0
         /\ job'.share = job'.gross - Rounded(job'.gross * Percent, 100) - booking.early
         /\ ~ booking.released /\ UNCHANGED <<booking, inst, charge, sent, vendor>>
<1>1. PICK todo : todo = Read(NotOut(EverPaid))
  OBVIOUS
<1>2. PICK gross : gross = PortionOf(NotOut(EverPaid))
  OBVIOUS
<1>3. PICK owed : owed = Owed
  OBVIOUS
<1>4. PICK share : share = gross - Rounded(gross * Percent, 100) - booking.early
  OBVIOUS
<1>5. job' = [Begin("release", "claim") EXCEPT !.todo = todo, !.gross = gross, !.owed = owed,
                                             !.share = share]
  BY <1>1, <1>2, <1>3, <1>4 DEF ReleaseBegins
<1>6. job'.op = "release" /\ job'.at = "claim" /\ job'.paidOut = 0
      /\ job'.share = share /\ job'.gross = gross
  BY <1>5 DEF Begin, Idle
<1>7. QED BY <1>4, <1>6 DEF ReleaseBegins

LEMMA LateStarts ==
  ASSUME LateBegins
  PROVE  /\ job'.op = "late" /\ booking.released /\ UNCHANGED <<booking, inst, charge, sent, vendor>>
<1>1. PICK todo, gross, owed, share :
        job' = [Begin("late", "claim") EXCEPT !.todo = todo, !.gross = gross, !.owed = owed,
                                             !.share = share]
  BY DEF LateBegins
<1>2. QED BY <1>1 DEF LateBegins, Begin, Idle

LEMMA EarlyStarts ==
  ASSUME EarlyBegins
  PROVE  /\ job'.op = "early" /\ job'.at = "claim" /\ job'.paidOut = 0
         /\ booking.early = 0 /\ Deposit # None /\ inst[Deposit].status = "PAID"
         /\ inst[Deposit].amount - inst[Deposit].fee - inst[Deposit].refunded > 0
         /\ UNCHANGED <<booking, inst, charge, sent, vendor>>
<1>1. PICK share : job' = [Begin("early", "claim") EXCEPT !.share = share]
  BY DEF EarlyBegins
<1>2. QED BY <1>1 DEF EarlyBegins, Begin, Idle

LEMMA GiveBackStarts ==
  ASSUME GiveBackBegins
  PROVE  /\ job'.op = "giveBack" /\ job'.at = "lower" /\ job'.paidOut = 0
         /\ UNCHANGED <<booking, inst, charge, sent, vendor>>
<1>1. PICK todo, left : job' = [Begin("giveBack", "lower") EXCEPT !.left = left, !.todo = todo]
  BY DEF GiveBackBegins
<1>2. QED BY <1>1 DEF GiveBackBegins, Begin, Idle

LEMMA DisputeStarts ==
  ASSUME DisputeBegins
  PROVE  /\ job'.op = "dispute" /\ job'.at \in {"parts", "resolve"} /\ job'.paidOut = 0
         /\ ~ booking.released /\ UNCHANGED <<booking, inst, charge, sent, vendor>>
<1>1. PICK settle : settle = [Begin("dispute", "parts") EXCEPT !.deed = "refund"]
  OBVIOUS
<1>2. \/ \E left : job' = [settle EXCEPT !.left = left]
      \/ \E left : job' = [settle EXCEPT !.left = left, !.deed = "partial"]
      \/ job' = [settle EXCEPT !.at = "resolve", !.deed = "release"]
  BY <1>1 DEF DisputeBegins
<1>3. job'.op = "dispute" /\ job'.at \in {"parts", "resolve"} /\ job'.paidOut = 0
  BY <1>1, <1>2 DEF Begin, Idle
<1>4. QED BY <1>3 DEF DisputeBegins

LEMMA ReturnStarts ==
  ASSUME SettlementInv, ReturnBegins
  PROVE  \E x \in ByBank :
           /\ x \in Installments /\ inst' = [inst EXCEPT ![x] = Returned(@)]
           /\ job'.op = "return" /\ job'.at \in {"reverse", "forget", "close"} /\ job'.paidOut = 0
           /\ job'.at = "forget" => x = Deposit
           /\ job'.at = "reverse" => inst[x].out
           /\ UNCHANGED <<booking, charge, sent, vendor>>
<1>1. PICK x \in ByBank :
        /\ x \in Installments /\ inst' = [inst EXCEPT ![x] = Returned(@)]
        /\ LET part == Portion(inst[x])
               out == inst[x].out /\ part > 0
               next == IF out THEN "reverse" ELSE IF PaidEarly(x) THEN "forget" ELSE "close"
           IN job' = [Begin("return", next) EXCEPT
                        !.i = x, !.left = IF out THEN AfterCommission(part) ELSE 0,
                        !.other = EverPaid \ {x} # {}]
  BY KindsAssumption DEF ReturnBegins
<1>2. PICK next \in {"reverse", "forget", "close"} :
        next = IF inst[x].out /\ Portion(inst[x]) > 0 THEN "reverse"
               ELSE IF PaidEarly(x) THEN "forget" ELSE "close"
  OBVIOUS
<1>3. PICK left : left = IF inst[x].out /\ Portion(inst[x]) > 0
                         THEN AfterCommission(Portion(inst[x])) ELSE 0
  OBVIOUS
<1>4. PICK other : other = (EverPaid \ {x} # {})
  OBVIOUS
<1>5. job' = [Begin("return", next) EXCEPT !.i = x, !.left = left, !.other = other]
  BY <1>1, <1>2, <1>3, <1>4
<1>6. job'.op = "return" /\ job'.at = next /\ job'.paidOut = 0
  BY <1>5 DEF Begin, Idle
<1>7. QED BY <1>1, <1>2, <1>6 DEF ReturnBegins, PaidEarly

LEMMA LossStarts ==
  ASSUME ChargebackLost
  PROVE  /\ job'.op = "lost" /\ job'.at = "apply" /\ job'.paidOut = 0
         /\ UNCHANGED <<booking, inst, sent, vendor>>
<1>1. PICK i, left : job' = [Begin("lost", "apply") EXCEPT !.i = i, !.left = left]
  BY DEF ChargebackLost
<1>2. QED BY <1>1 DEF ChargebackLost, Begin, Idle

LEMMA Starts ==
  ASSUME SettlementInv, JobBegins
  PROVE  /\ UNCHANGED <<booking, sent, vendor>> /\ job.op = "idle" /\ job'.op # "idle"
         /\ booking.released => job'.op \notin {"release", "dispute"}
         /\ ~ booking.released => /\ job'.op # "late" /\ job'.paidOut = 0
                                  /\ job'.at \notin Moving \cup {"over"}
<1>1. job.op = "idle"
  BY DEF JobBegins, ReleaseBegins, LateBegins, EarlyBegins, GiveBackBegins, DisputeBegins,
     ReturnBegins, ChargebackLost, Free
<1>2. CASE ReleaseBegins \/ LateBegins \/ EarlyBegins
  BY <1>1, <1>2, ReleaseStarts, LateStarts, EarlyStarts DEF Moving
<1>3. CASE GiveBackBegins \/ DisputeBegins \/ ChargebackLost
  BY <1>1, <1>3, GiveBackStarts, DisputeStarts, LossStarts DEF Moving
<1>4. CASE ReturnBegins
  <2>1. \A x \in Installments : inst[x].out => booking.released
    BY Known0 DEF RowsFit, RowFits
  <2>2. QED BY <1>1, <1>4, <2>1, ReturnStarts DEF Moving
<1>5. QED BY <1>2, <1>3, <1>4 DEF JobBegins

\* The deposit is released early once, as long as Stripe knows its key.
LEMMA EarlyStartsOnce ==
  ASSUME SettlementInv, BooksAgree(Nat), CardsStay, BeforeRelease, EarlyBegins
  PROVE  ~ EarlyKnown /\ CardTaken
<1>1. /\ booking.early = 0 /\ Deposit # None /\ inst[Deposit].status = "PAID"
      /\ inst[Deposit].amount - inst[Deposit].fee - inst[Deposit].refunded > 0
  BY EarlyStarts
<1>2. Deposit \in Installments
  BY <1>1, KindsAssumption
<1>3. inst[Deposit] \in Rows
  BY <1>2, Known0
<1>4. Portion(inst[Deposit]) # 0 /\ inst[Deposit].amount > 0
  BY <1>1, <1>3 DEF Portion, AtLeast0, Rows
<1>5. ~ EarlyKnown
  BY <1>1, <1>4 DEF BeforeRelease, EarlyOnce, DepositSpent
<1>6. Deposit \notin ByBank => charge[Deposit].taken = inst[Deposit].amount
  BY <1>1, <1>2 DEF CardsStay, BooksAgree, Booked, Agree
<1>7. QED BY <1>4, <1>5, <1>6 DEF CardTaken

LEMMA BeginsBefore ==
  ASSUME SettlementInv, SettlementInv', BooksAgree(Nat), CardsStay, ~ booking.released,
         BeforeRelease, At("idle"), JobBegins
  PROVE  BeforeRelease' /\ ~ booking'.released
<1>1. /\ UNCHANGED <<booking, sent, vendor>> /\ job'.op # "idle" /\ job'.op # "late"
      /\ job'.paidOut = 0 /\ job'.at \notin Moving \cup {"over"}
  BY Starts
<1>2. Ends' = booking'.early
  <2>1. ToCome = 0 /\ TakingBack = 0 /\ ToCome' = 0 /\ TakingBack' = 0
    BY <1>1, ElsewhereBrings, ElsewhereBringsNext DEF Moving, At
  <2>2. QED BY <1>1, <2>1, HasStays DEF Ends, BeforeRelease
<1>3. booking'.dispute # "refunded"
  BY <1>1 DEF BeforeRelease, At
<1>4. EarlyOnly' /\ EarlyKnown' = EarlyKnown
  BY <1>1, SameKeys DEF BeforeRelease
<1>5. job'.op = "release" => ReleaseBegins
  BY LateStarts, EarlyStarts, GiveBackStarts, DisputeStarts, ReturnStarts, LossStarts DEF JobBegins
<1>6. job'.op = "release" =>
        At("claim")' /\ job'.share = job'.gross - Rounded(job'.gross * Percent, 100) - booking'.early
  BY <1>1, <1>5, ReleaseStarts DEF At
<1>7. job'.op = "early" => EarlyBegins
  BY LateStarts, ReleaseStarts, GiveBackStarts, DisputeStarts, ReturnStarts, LossStarts DEF JobBegins
<1>8. CardTaken => CardTaken'
  BY ChargesStay, TakenStays
<1>9. Deposit \in Installments => Fades(Deposit)
  BY RowsFade
<1>10. EarlyKnown /\ booking.early = 0 => DepositSpent'
  BY <1>9, SpentStays DEF BeforeRelease, EarlyOnce
<1>11. At("forget")' => DepositSpent'
  <2>1. SUFFICES ASSUME At("forget")' PROVE DepositSpent'
    OBVIOUS
  <2>2. ReturnBegins
    BY <2>1, LateStarts, ReleaseStarts, EarlyStarts, GiveBackStarts, DisputeStarts, LossStarts
       DEF JobBegins, At
  <2>3. PICK x \in ByBank : /\ x \in Installments /\ inst' = [inst EXCEPT ![x] = Returned(@)]
                            /\ job'.at = "forget" => x = Deposit
    BY <2>2, ReturnStarts
  <2>4. PICK row : row = Returned(inst[x])
    OBVIOUS
  <2>5. row.status # "PAID"
    <3>1. inst[x] \in Rows
      BY <2>3, Known0
    <3>2. QED BY <2>4, <3>1 DEF Returned, Rows
  <2>6. inst'[Deposit] = row
    BY <2>1, <2>3, <2>4, Known0 DEF At
  <2>7. QED BY <2>5, <2>6 DEF DepositSpent
<1>12. EarlyOnce'
  <2>1. EarlyKnown' => (booking'.early = 0 \/ At("forget")' => DepositSpent')
    BY <1>1, <1>4, <1>10, <1>11
  <2>2. EarlyKnown' \/ job'.op = "early" => CardTaken'
    BY <1>4, <1>7, <1>8, EarlyStartsOnce DEF BeforeRelease, EarlyOnce
  <2>3. EarlyKnown' => job'.op # "early"
    BY <1>4, <1>7, EarlyStartsOnce
  <2>4. QED BY <2>1, <2>2, <2>3 DEF EarlyOnce
<1>13. QED BY <1>1, <1>2, <1>3, <1>4, <1>6, <1>12 DEF BeforeRelease

----------------------------------------------------------------------------
(* What takes no lock.                                                     *)

LEMMA UnlockedMoney ==
  ASSUME SettlementInv, SettlementInv', Unlocked
  PROVE  /\ Ends' = Ends /\ UNCHANGED job
         /\ booking'.early = booking.early /\ booking'.released = booking.released
         /\ booking'.gross = booking.gross /\ booking'.commission = booking.commission
         /\ booking'.dispute = "refunded" <=> booking.dispute = "refunded"
         /\ (EarlyOnly => EarlyOnly') /\ (EarlyKnown' => EarlyKnown)
<1>1. UNCHANGED job
  BY DEF Unlocked, CheckReport, OpenReport, ChargebackOpened, ChargebackWon, BankReturns,
     CardPays, BankPays, Clears, ClearingFails, Work, ReleaseTimeComes, Withdraw
<1>2. ToCome' = ToCome /\ TakingBack' = TakingBack
  BY <1>1, JobKept DEF TakingBack
<1>3. VendorHas' = VendorHas
  <2>1. CASE UNCHANGED <<sent, vendor>>
    BY <2>1, HasStays
  <2>2. CASE KeysExpire /\ UNCHANGED vendor
    <3>1. SumFunction(Nets(sent')) = SumFunction(Nets(sent))
      BY <2>2, KeysExpireIs
    <3>2. QED BY <2>2, <3>1, EndsIs, SentHas
  <2>3. CASE Withdraw
    <3>1. UNCHANGED sent
      BY <2>3 DEF Withdraw
    <3>2. vendor.balance \in Int /\ vendor.withdrawn \in Int /\ vendor.opened \in Int
      <4>1. \A b \in Balances : b \in Int
        BY MoneyAssumption
      <4>2. QED BY <4>1, Known0
    <3>3. vendor'.balance = 0 /\ vendor'.withdrawn = vendor.withdrawn + vendor.balance
          /\ vendor'.opened = vendor.opened
      BY <2>3, Known0 DEF Withdraw
    <3>4. SumFunction(Nets(sent)) \in Int
      BY Known0, NetsAre
    <3>5. BoundTyped /\ BoundTyped'
      BY BoundIs, BoundNext
    <3>6. /\ VendorHas = SumFunction(Nets(sent)) + vendor.balance - vendor.opened + vendor.withdrawn
          /\ VendorHas' = SumFunction(Nets(sent)) + vendor'.balance - vendor'.opened + vendor'.withdrawn
      BY <3>1, <3>5 DEF BoundTyped
    <3>7. QED BY <3>2, <3>3, <3>4, <3>6
  <2>4. QED BY <2>1, <2>2, <2>3 DEF Unlocked, CheckReport, OpenReport, ChargebackOpened,
       ChargebackWon, BankReturns, CardPays, BankPays, Clears, ClearingFails, Work, ReleaseTimeComes
<1>4. /\ booking'.early = booking.early /\ booking'.released = booking.released
      /\ booking'.gross = booking.gross /\ booking'.commission = booking.commission
      /\ booking'.dispute = "refunded" <=> booking.dispute = "refunded"
  <2>1. CASE UNCHANGED booking
    BY <2>1
  <2>2. CASE OpenReport \/ Work \/ ReleaseTimeComes
    BY <2>2, Known0 DEF OpenReport, Work, ReleaseTimeComes, BookingRows
  <2>3. CASE booking' = [booking EXCEPT !.paid = TRUE]
    BY <2>3, Known0 DEF BookingRows
  <2>4. QED BY <2>1, <2>2, <2>3 DEF Unlocked, CheckReport, ChargebackOpened, ChargebackWon,
       BankReturns, CardPays, BankPays, Clears, ClearingFails, Withdraw, Land
<1>5. (EarlyOnly => EarlyOnly') /\ (EarlyKnown' => EarlyKnown)
  <2>1. UNCHANGED sent \/ KeysExpire
    BY DEF Unlocked, CheckReport, OpenReport, ChargebackOpened, ChargebackWon, BankReturns,
       CardPays, BankPays, Clears, ClearingFails, Work, ReleaseTimeComes, Withdraw
  <2>2. QED BY <2>1, SameKeys, ExpiredKeys
<1>6. QED BY <1>1, <1>2, <1>3, <1>4, <1>5 DEF Ends

LEMMA UnlockedCharges ==
  ASSUME SettlementInv, Unlocked
  PROVE  /\ CardsStay => CardsStay'
         /\ CardTaken => CardTaken' /\ (EarlyKnown' /\ Deposit \in Installments => Fades(Deposit))
<1>1. CASE UNCHANGED <<inst, charge>>
  BY <1>1, SameFades DEF CardsStay, CardTaken
<1>2. ASSUME NEW x \in Installments,
             \/ ChargebackOpened(x) \/ ChargebackWon(x) \/ BankReturns(x)
             \/ CardPays(x) \/ BankPays(x) \/ Clears(x) \/ ClearingFails(x)
      PROVE  /\ CardsStay => CardsStay'
             /\ CardTaken => CardTaken' /\ (EarlyKnown' /\ Deposit \in Installments => Fades(Deposit))
  <2>1. /\ \A i \in Installments \ {x} : inst'[i] = inst[i] /\ charge'[i] = charge[i]
        /\ ~ (CardPays(x) \/ Clears(x)) => Fades(x)
        /\ x \notin ByBank => charge'[x].returned = charge[x].returned
                              /\ (charge[x].taken > 0 => charge'[x].taken > 0 /\ ~ CardPays(x))
    BY <1>2, UnlockedRows
  <2>2. CardsStay => CardsStay'
    BY <2>1 DEF CardsStay
  <2>3. CardTaken => CardTaken'
    BY <2>1, TakenStays
  <2>4. ASSUME CardTaken, EarlyKnown', Deposit \in Installments PROVE Fades(Deposit)
    <3>1. CASE Deposit # x
      <4>1. inst'[Deposit] = inst[Deposit] /\ Portion(inst[Deposit]) \in Nat
        BY <2>1, <2>4, <3>1, Known0, PortionIs
      <4>2. QED BY <4>1 DEF Fades
    <3>2. CASE Deposit = x
      <4>1. x \in ByBank \/ charge[x].taken > 0
        BY <2>4, <3>2, KindsAssumption DEF CardTaken
      <4>2. ~ CardPays(x)
        BY <2>1, <4>1 DEF CardPays
      <4>3. CASE Clears(x)
        <5>1. ~ EarlyKnown'
          BY <4>3, ExpiredKeys DEF Clears
        <5>2. QED BY <2>4, <5>1
      <4>4. QED BY <2>1, <3>2, <4>2, <4>3
    <3>3. QED BY <3>1, <3>2
  <2>5. QED BY <2>2, <2>3, <2>4
<1>3. QED BY <1>1, <1>2 DEF Unlocked, CheckReport, OpenReport, Work, ReleaseTimeComes, Withdraw

LEMMA UnlockedCent ==
  ASSUME SettlementInv, SettlementInv', ToTheCent, Unlocked
  PROVE  ToTheCent'
<1>1. /\ Ends' = Ends /\ UNCHANGED job
      /\ booking'.early = booking.early /\ booking'.released = booking.released
      /\ booking'.gross = booking.gross /\ booking'.commission = booking.commission
      /\ booking'.dispute = "refunded" <=> booking.dispute = "refunded"
      /\ (EarlyOnly => EarlyOnly') /\ (EarlyKnown' => EarlyKnown)
  BY UnlockedMoney
<1>2. \A place : At(place)' <=> At(place)
  BY <1>1 DEF At
<1>3. Free' => At("idle")'
  BY <1>1, <1>2 DEF ToTheCent, Free
<1>4. CASE booking.released
  BY <1>1, <1>3, <1>4 DEF ToTheCent, SinceRelease
<1>5. CASE ~ booking.released
  <2>1. BeforeRelease
    BY <1>5 DEF ToTheCent
  <2>2. EarlyOnce'
    <3>1. EarlyOnce
      BY <2>1 DEF BeforeRelease
    <3>2. CardTaken => CardTaken'
      BY UnlockedCharges
    <3>3. EarlyKnown' => DepositSpent \/ ~ (booking.early = 0 \/ At("forget"))
      BY <1>1, <3>1 DEF EarlyOnce
    <3>4. EarlyKnown' => (Deposit \in Installments => Fades(Deposit))
      BY <1>1, <3>1, UnlockedCharges DEF EarlyOnce
    <3>5. EarlyKnown' => (booking'.early = 0 \/ At("forget")' => DepositSpent')
      BY <1>1, <1>2, <3>3, <3>4, SpentStays
    <3>6. QED BY <1>1, <3>1, <3>2, <3>5 DEF EarlyOnce
  <2>3. BeforeRelease'
    BY <1>1, <1>2, <2>1, <2>2 DEF BeforeRelease
  <2>4. QED BY <1>1, <1>3, <1>5, <2>3 DEF ToTheCent
<1>6. QED BY <1>4, <1>5

----------------------------------------------------------------------------
(* The release.                                                            *)

LEMMA ClaimReleaseCent ==
  ASSUME SettlementInv, SettlementInv', ~ booking.released, BeforeRelease, ClaimRelease
  PROVE  SinceRelease' /\ booking'.released /\ Exactly
<1>1. /\ job.op = "release" /\ job.at = "claim" /\ AfterClaim /\ UNCHANGED <<sent, vendor>>
      /\ job.share = job.gross - Rounded(job.gross * Percent, 100) - booking.early
      /\ EarlyOnly
  BY DEF ClaimRelease, BeforeRelease, At
<1>2. PICK commission : commission = Rounded(job.gross * Percent, 100)
  OBVIOUS
<1>3. booking' = [booking EXCEPT !.released = TRUE, !.gross = job.gross, !.commission = commission]
  BY <1>2 DEF ClaimRelease
<1>4. /\ booking'.released /\ booking'.gross = job.gross /\ booking'.commission = commission
      /\ booking'.dispute = booking.dispute
  BY <1>3, Known0 DEF BookingRows
<1>5. /\ job.share \in Int /\ job.gross \in Int /\ commission \in Int /\ booking.early \in Int
  <2>1. booking'.commission \in Nat
    BY DEF SettlementInv, TypeOK, BookingRows
  <2>2. QED BY <1>4, <2>1, Known0 DEF Jobs, BookingRows
<1>6. VendorHas' = booking.early
  <2>1. ToCome = 0 /\ TakingBack = 0
    BY <1>1, ElsewhereBrings
  <2>2. QED BY <1>1, <2>1, HasStays DEF Ends, BeforeRelease
<1>7. booking'.gross - booking'.commission = booking.early + job.share
  BY <1>1, <1>2, <1>4, <1>5
<1>8. EarlyOnly'
  BY <1>1, SameKeys
<1>9. CASE job.share = 0
  <2>1. job' = Idle
    BY <1>1, <1>5, <1>9, AfterClaimKeeps
  <2>2. Exactly
    BY <1>1, <1>5, <1>6, <1>7, <1>9 DEF Exactly
  <2>3. QED BY <1>4, <2>1, <2>2, IdleBrings DEF SinceRelease
<1>10. CASE job.share > 0
  <2>1. /\ job'.at \in {"offset", "send"} /\ job'.op = "release"
        /\ job'.at = "send" => Offset = 0
        /\ job'.share = job.share /\ job'.owed = job.owed
    BY <1>1, <1>5, <1>10, AfterClaimKeeps
  <2>2. Offset' = Offset
    BY <2>1 DEF Offset
  <2>3. ToCome' = job.share /\ TakingBack' = 0
    BY <1>5, <2>1, <2>2 DEF ToCome, ToPay, TakingBack
  <2>4. Ends' = booking'.gross - booking'.commission
    BY <1>5, <1>6, <1>7, <2>3 DEF Ends
  <2>5. QED BY <1>4, <1>8, <2>1, <2>4 DEF SinceRelease, Exactly, Free
<1>11. CASE job.share < 0
  <2>1. job'.at = "owe" /\ job'.op = "release" /\ job'.left = - job.share
    BY <1>1, <1>5, <1>11, AfterClaimKeeps
  <2>2. ToCome' = 0 /\ TakingBack' = - job.share
    BY <2>1 DEF ToCome, TakingBack
  <2>3. Ends' = booking'.gross - booking'.commission
    BY <1>5, <1>6, <1>7, <2>2 DEF Ends
  <2>4. QED BY <1>4, <1>8, <2>1, <2>3 DEF SinceRelease, Exactly, Free
<1>12. QED BY <1>5, <1>9, <1>10, <1>11

LEMMA EndRefundedCent ==
  ASSUME SettlementInv, SettlementInv', ~ booking.released, BeforeRelease, EndRefunded
  PROVE  SinceRelease' /\ booking'.released /\ Exactly
<1>1. /\ job.op = "dispute" /\ job.at = "over" /\ TakeBack(booking.early)
      /\ UNCHANGED <<sent, vendor>> /\ booking.dispute = "refunded"
  BY Known0 DEF EndRefunded, At, RefundFits
<1>2. booking'.released /\ booking'.dispute = "refunded"
  BY <1>1, Known0 DEF EndRefunded, BookingRows
<1>3. booking.early \in Int /\ booking.early >= 0
  BY Known0 DEF BookFits, BookingRows
<1>4. TakingBack' = booking.early /\ job'.at \in {"reverse", "close"} /\ job'.op = "dispute"
  BY <1>1, <1>3, TakeBackKeeps
<1>5. ToCome = 0 /\ TakingBack = 0 /\ ToCome' = 0
  BY <1>1, <1>4, ElsewhereBrings DEF ToCome
<1>6. VendorHas' = VendorHas /\ VendorHas = booking.early
  BY <1>1, <1>5, HasStays DEF Ends, BeforeRelease
<1>7. Ends' = 0
  BY <1>3, <1>4, <1>5, <1>6 DEF Ends
<1>8. QED BY <1>2, <1>4, <1>7 DEF SinceRelease, Exactly, Free

----------------------------------------------------------------------------
(* After the release.                                                      *)

LEMMA ReleasedStays ==
  ASSUME SettlementInv, booking.released, JobStep
  PROVE  booking'.released
<1>1. CASE UNCHANGED booking
  BY <1>1
<1>2. CASE ClaimRelease \/ ClaimEarly \/ UnsendEarly
  BY <1>2, Known0 DEF ClaimRelease, ClaimEarly, UnsendEarly, BookingRows
<1>3. CASE Resolve \/ EndRefunded \/ CloseRefunded \/ ForgetEarly \/ CloseReturn
  BY <1>3, Known0 DEF Resolve, EndRefunded, CloseRefunded, ForgetEarly, CloseReturn, BookingRows
<1>4. CASE ApplyLoss
  BY <1>4, ApplyLossIs
<1>5. QED BY <1>1, <1>2, <1>3, <1>4 DEF JobStep, Payout, Recovery, Refunding, Settling, ClaimLate,
     OffsetDebt, SendPayout, RecordPayout, CreditBalance, SendEarly, TakeBackDone, ReverseTransfer,
     OweRest, ReadParts, CallOffPart, SkipPart, RefundPart, RecordPart, RefundsDone, LowerUnpaid,
     LoweringDone, RecoverGivenBack

\* The release pays the rest of what its share comes to.
LEMMA ReleasePays ==
  ASSUME AnswersLost = FALSE, SettlementInv, SettlementInv', SinceRelease, job.op = "release",
         Payout
  PROVE  /\ Ends' = Ends /\ UNCHANGED booking
         /\ job' = Idle \/ (job'.op = "release" /\ job'.at \in {"send", "record", "credit"})
         /\ job'.at = "send" => EarlyOnly'
<1>1. job.at \in {"offset", "send", "record", "credit", "owe"} /\ (job.at \in {"offset", "send"} => EarlyOnly)
  BY DEF SinceRelease
<1>2. job.share \in Int /\ (job.at \in {"offset", "send", "credit"} => job.share > 0)
  BY Known0 DEF PayoutFits, Jobs
<1>3. job.at \in {"offset", "send", "credit"} =>
        /\ Offset \in Int /\ Offset >= 0 /\ Offset <= job.share /\ ToPay \in Int
        /\ ToPay >= 0 /\ ToPay = job.share - Offset
  BY <1>2, OffsetIs
<1>4. CASE OffsetDebt
  <2>1. job.at = "offset" /\ Credit(Offset) /\ UNCHANGED <<booking, sent>>
        /\ IF job.share > Offset THEN Goto("send") ELSE Done
    BY <1>4 DEF OffsetDebt, At
  <2>2. VendorHas' = VendorHas + Offset
    BY <1>3, <2>1, CreditHas
  <2>3. ToCome = job.share /\ TakingBack = 0
    BY <2>1 DEF ToCome, TakingBack
  <2>4. CASE job.share > Offset
    <3>1. /\ job'.at = "send" /\ job'.op = "release" /\ job'.share = job.share
          /\ job'.owed = job.owed
      BY <2>1, <2>4, GotoKeeps
    <3>2. ToPay' = ToPay
      BY <3>1 DEF ToPay, Offset
    <3>3. ToCome' = ToPay /\ TakingBack' = 0
      BY <3>1, <3>2 DEF ToCome, TakingBack
    <3>4. Ends' = Ends
      BY <1>2, <1>3, <2>1, <2>2, <2>3, <3>3, EndsIs DEF Ends
    <3>5. QED BY <1>1, <2>1, <3>1, <3>4, SameKeys
  <2>5. CASE ~ (job.share > Offset)
    <3>1. job' = Idle
      BY <2>1, <2>5 DEF Done
    <3>2. Offset = job.share
      BY <1>2, <1>3, <2>1, <2>5
    <3>3. Ends' = Ends
      BY <1>2, <2>2, <2>3, <3>1, <3>2, EndsIs, IdleBrings DEF Ends
    <3>4. QED BY <2>1, <3>1, <3>3, IdleBrings
  <2>6. QED BY <2>4, <2>5
<1>5. CASE SendPayout
  <2>1. job.at = "send" /\ UNCHANGED <<booking, vendor>>
    BY <1>5 DEF SendPayout, At
  <2>2. ToCome = ToPay /\ TakingBack = 0
    BY <2>1 DEF ToCome, TakingBack
  <2>3. CASE UNCHANGED sent /\ Goto("credit")
    <3>1. /\ job'.at = "credit" /\ job'.op = "release" /\ job'.share = job.share
          /\ job'.owed = job.owed
      BY <2>3, GotoKeeps
    <3>2. ToPay' = ToPay
      BY <3>1 DEF ToPay, Offset
    <3>3. ToCome' = ToPay /\ TakingBack' = 0
      BY <3>1, <3>2 DEF ToCome, TakingBack
    <3>4. QED BY <2>1, <2>2, <2>3, <3>1, <3>3, HasStays DEF Ends
  <2>4. CASE Transfer(Key, ToPay, "record", "credit") /\ ~ (UNCHANGED sent /\ Goto("credit"))
    <3>1. Known(Key) = {}
      <4>1. Key.op = "release"
        BY DEF Key
      <4>2. QED BY <1>1, <2>1, <4>1 DEF Known, EarlyOnly
    <3>2. "record" \in Places /\ "credit" \in Places /\ Key \in Keys
      BY KeyIs DEF Places
    <3>3. ToPay \in Nat
      BY <1>3, <2>1
    <3>4. ~ UNCHANGED sent
      <4>1. SUFFICES ASSUME UNCHANGED sent PROVE FALSE
        OBVIOUS
      <4>2. PICK t : sent' = Append(sent, t)
        BY <2>4, <3>1, <4>1 DEF Transfer
      <4>3. sent \in Seq(Transfers)
        BY Known0
      <4>4. Len(sent) \in Nat /\ Len(Append(sent, t)) = Len(sent) + 1
        BY <4>3
      <4>5. QED BY <4>1, <4>2, <4>4
    <3>5. SumFunction(Nets(sent)) + ToPay = SumFunction(Nets(sent')) /\ Goto("record")
      BY <2>4, <3>2, <3>3, <3>4, TransferIs
    <3>6. job'.at = "record" /\ job'.op = "release"
      BY <3>5, GotoKeeps
    <3>7. ToCome' = 0 /\ TakingBack' = 0
      BY <3>6, ElsewhereBringsNext
    <3>8. VendorHas' = VendorHas + ToPay
      BY <2>1, <3>3, <3>5, EndsIs, SentHas
    <3>9. Ends' = Ends
      BY <2>2, <3>3, <3>7, <3>8, EndsIs DEF Ends
    <3>10. QED BY <2>1, <3>6, <3>9
  <2>5. QED BY <1>5, <2>3, <2>4 DEF SendPayout
<1>6. CASE RecordPayout
  <2>1. job.at = "record" /\ job' = Idle /\ UNCHANGED <<booking, vendor>>
    BY <1>6 DEF RecordPayout, Done, At
  <2>2. SumFunction(Nets(sent')) = SumFunction(Nets(sent))
    BY <1>6, RecordPayoutIs
  <2>3. VendorHas' = VendorHas
    BY <2>1, <2>2, EndsIs, SentHas
  <2>4. ToCome = 0 /\ TakingBack = 0
    BY <2>1, ElsewhereBrings
  <2>5. QED BY <2>1, <2>3, <2>4, IdleBrings DEF Ends
<1>7. CASE CreditBalance
  <2>1. job.at = "credit" /\ job' = Idle /\ Credit(ToPay) /\ UNCHANGED <<booking, sent>>
    BY <1>7 DEF CreditBalance, Done, At
  <2>2. VendorHas' = VendorHas + ToPay
    BY <1>3, <2>1, CreditHas
  <2>3. ToCome = ToPay /\ TakingBack = 0
    BY <2>1 DEF ToCome, TakingBack
  <2>4. Ends' = Ends
    BY <1>3, <2>1, <2>2, <2>3, EndsIs, IdleBrings DEF Ends
  <2>5. QED BY <2>1, <2>4, IdleBrings
<1>8. QED BY <1>1, <1>4, <1>5, <1>6, <1>7 DEF Payout, ClaimRelease, ClaimLate, ClaimEarly, SendEarly,
     UnsendEarly, At

LEMMA JobSince ==
  ASSUME AnswersLost = FALSE, SettlementInv, SettlementInv', booking.released, SinceRelease,
         ~ Free, JobStep
  PROVE  SinceRelease' /\ booking'.released /\ Exactly
<1>1. booking'.released
  BY ReleasedStays
<1>2. job' = Idle \/ job'.op = job.op
  BY JobGoesOn
<1>3. job.op # "idle"
  BY DEF Free
<1>4. CASE job.op \notin {"release", "dispute"}
  <2>1. job'.op \notin {"release", "dispute"}
    BY <1>2, <1>4, IdleBrings
  <2>2. QED BY <1>1, <1>4, <2>1 DEF SinceRelease, Exactly
<1>5. CASE job.op = "release"
  <2>1. /\ job.at \in {"offset", "send", "record", "credit", "owe"}
        /\ Ends = booking.gross - booking.commission
    BY <1>5 DEF SinceRelease
  <2>2. CASE Payout
    <3>1. /\ Ends' = Ends /\ UNCHANGED booking
          /\ job' = Idle \/ (job'.op = "release" /\ job'.at \in {"send", "record", "credit"})
          /\ job'.at = "send" => EarlyOnly'
      BY <1>5, <2>2, ReleasePays
    <3>2. job' = Idle => VendorHas' = Ends'
      BY EndsNext, IdleBrings
    <3>3. QED BY <1>1, <2>1, <3>1, <3>2, IdleBrings DEF SinceRelease, Exactly, Free
  <2>3. CASE Recovery
    <3>1. job.at = "owe"
      BY <2>1, <2>3, RecoveryKeeps
    <3>2. AfterTakeBack
      BY <2>3, <3>1 DEF Recovery, TakeBackDone, ReverseTransfer, OweRest, At
    <3>3. job' = Idle
      BY <1>5, <3>2 DEF AfterTakeBack, Done
    <3>4. Ends' = Ends /\ UNCHANGED booking
      BY <2>3, RecoveryEnds
    <3>5. VendorHas' = Ends'
      BY <3>3, EndsNext, IdleBrings
    <3>6. QED BY <1>1, <1>5, <2>1, <3>3, <3>4, <3>5, IdleBrings DEF SinceRelease, Exactly
  <2>4. ~ Refunding
    BY <2>1, RefundingKeeps DEF RefundPlaces
  <2>5. ~ Settling
    BY <2>1 DEF Settling, Resolve, EndRefunded, CloseRefunded, ForgetEarly, CloseReturn, ApplyLoss, At
  <2>6. QED BY <2>2, <2>3, <2>4, <2>5 DEF JobStep
<1>6. CASE job.op = "dispute"
  <2>1. job.at \in {"reverse", "owe", "close"} /\ booking.dispute = "refunded" /\ Ends = 0
    BY <1>6 DEF SinceRelease
  <2>2. CASE Recovery
    <3>1. /\ Ends' = Ends /\ UNCHANGED booking /\ job'.at \in {"reverse", "owe", "close"}
      BY <1>6, <2>2, RecoveryEnds
    <3>2. job'.op = "dispute"
      BY <1>2, <1>6, <3>1, IdleBrings
    <3>3. QED BY <1>1, <2>1, <3>1, <3>2 DEF SinceRelease, Exactly, Free
  <2>3. CASE Settling
    <3>1. CloseRefunded
      BY <1>6, <2>1, <2>3 DEF Settling, Resolve, EndRefunded, CloseRefunded, ForgetEarly, CloseReturn,
         ApplyLoss, At
    <3>2. job.at = "close" /\ job' = Idle /\ UNCHANGED <<sent, vendor>>
      BY <3>1 DEF CloseRefunded, At, Done
    <3>3. ToCome = 0 /\ TakingBack = 0
      BY <3>2, ElsewhereBrings
    <3>4. VendorHas' = 0
      BY <2>1, <3>2, <3>3, HasStays DEF Ends
    <3>5. QED BY <1>1, <1>6, <3>2, <3>4, IdleBrings DEF SinceRelease, Exactly
  <2>4. ~ Refunding
    BY <2>1, RefundingKeeps DEF RefundPlaces
  <2>5. ~ Payout
    BY <1>6, <2>1, Known0 DEF Payout, ClaimRelease, ClaimLate, OffsetDebt, SendPayout, RecordPayout,
       CreditBalance, ClaimEarly, SendEarly, UnsendEarly, At
  <2>6. QED BY <2>2, <2>3, <2>4, <2>5 DEF JobStep
<1>7. QED BY <1>4, <1>5, <1>6

LEMMA JobCent ==
  ASSUME AnswersLost = FALSE, SettlementInv, SettlementInv', BooksAgree(Nat), CardsStay,
         ToTheCent, JobStep
  PROVE  ToTheCent' /\ Exactly
<1>1. ~ Free
  BY JobGoesOn DEF ToTheCent, At
<1>2. Free' => job' = Idle
  BY <1>1, JobGoesOn DEF Free
<1>3. Free' => At("idle")'
  BY <1>2, IdleBrings DEF At
<1>4. CASE booking.released
  BY <1>1, <1>3, <1>4, JobSince DEF ToTheCent
<1>5. CASE ~ booking.released
  <2>1. BeforeRelease
    BY <1>5 DEF ToTheCent
  <2>2. CASE ClaimRelease
    BY <1>3, <1>5, <2>1, <2>2, ClaimReleaseCent DEF ToTheCent
  <2>3. CASE EndRefunded
    BY <1>3, <1>5, <2>1, <2>3, EndRefundedCent DEF ToTheCent
  <2>4. CASE ~ ClaimRelease /\ ~ EndRefunded
    <3>1. BeforeRelease' /\ ~ booking'.released
      BY <1>5, <2>1, <2>4, JobStaysBefore
    <3>2. job.op # "release"
      BY <1>5, <2>1, <2>4, OnlyClaims
    <3>3. Free' => booking'.dispute # "refunded"
      BY <1>3, <3>1 DEF BeforeRelease, At
    <3>4. QED BY <1>3, <3>1, <3>2, <3>3 DEF ToTheCent, Exactly
  <2>5. QED BY <2>2, <2>3, <2>4
<1>6. QED BY <1>4, <1>5

LEMMA BeginsCent ==
  ASSUME SettlementInv, SettlementInv', BooksAgree(Nat), CardsStay, ToTheCent, JobBegins
  PROVE  ToTheCent' /\ Exactly
<1>1. job.op = "idle" /\ job'.op # "idle" /\ UNCHANGED booking
  BY Starts
<1>2. At("idle") /\ Exactly /\ ~ Free'
  BY <1>1 DEF ToTheCent, Free, Exactly
<1>3. CASE booking.released
  BY <1>1, <1>2, <1>3, Starts DEF ToTheCent, SinceRelease
<1>4. CASE ~ booking.released
  BY <1>2, <1>4, BeginsBefore DEF ToTheCent
<1>5. QED BY <1>2, <1>3, <1>4

LEMMA CentInit ==
  ASSUME Init, SettlementInv PROVE CentInv
<1>1. BooksAgree(Nat)
  BY BooksInit DEF Slacks
<1>2. job = Idle /\ sent = <<>> /\ booking.released = FALSE /\ booking.early = 0
      /\ booking.dispute = "none"
  BY DEF Init
<1>3. job.op = "idle" /\ job.at = "idle" /\ job.paidOut = 0
  BY <1>2 DEF Idle
<1>4. CardsStay
  BY DEF Init, CardsStay
<1>5. EarlyOnly /\ ~ EarlyKnown
  BY <1>2 DEF EarlyOnly, EarlyKnown
<1>6. EarlyOnce
  BY <1>3, <1>5 DEF EarlyOnce
<1>7. Ends = 0
  <2>1. SumFunction(Nets(sent)) = 0
    <3>1. DOMAIN sent = {}
      BY <1>2
    <3>2. SumFunction(Nets(sent)) = SumFunctionOnSet(Nets(sent), DOMAIN sent)
      BY Known0, NetsAre
    <3>3. QED BY <3>1, <3>2, SumOfNone
  <2>2. BoundTyped
    BY BoundIs
  <2>3. vendor.balance \in Int /\ vendor.balance = vendor.opened /\ vendor.withdrawn = 0
    <3>1. PICK b \in Balances, connected \in BOOLEAN :
            vendor = [balance |-> b, opened |-> b, withdrawn |-> 0, connected |-> connected]
      BY DEF Init
    <3>2. b \in Int
      BY MoneyAssumption
    <3>3. QED BY <3>1, <3>2
  <2>4. VendorHas = 0
    BY <2>1, <2>2, <2>3 DEF BoundTyped
  <2>5. QED BY <1>3, <2>4, ElsewhereBrings DEF Ends
<1>8. BeforeRelease
  BY <1>2, <1>3, <1>5, <1>6, <1>7 DEF BeforeRelease
<1>9. QED BY <1>1, <1>2, <1>3, <1>4, <1>8 DEF CentInv, ToTheCent, At

LEMMA CentStep ==
  ASSUME AnswersLost = FALSE, SettlementInv, SettlementInv', CentInv, [Next]_vars
  PROVE  CentInv' /\ (crashes' = 0 => Exactly)
<1>1. SUFFICES ASSUME crashes' = 0 PROVE (BooksAgree(Nat) /\ CardsStay /\ ToTheCent)' /\ Exactly
  BY DEF CentInv
<1>2. crashes = 0 /\ ~ Crash
  <2>1. crashes \in Nat
    BY Known0, KindsAssumption DEF TypeOK
  <2>2. QED BY <1>1, <2>1 DEF Next, Crash, vars
<1>3. BooksAgree(Nat) /\ CardsStay /\ ToTheCent
  BY <1>2 DEF CentInv
<1>4. BooksAgree(Nat)'
  <2>1. NoneStopsHalfway
    BY <1>2 DEF NoneStopsHalfway
  <2>2. QED BY <1>3, <2>1, BooksStep DEF Slacks
<1>5. CASE UNCHANGED vars
  <2>1. UNCHANGED <<booking, inst, charge, sent, vendor, job>>
    BY <1>5 DEF vars
  <2>2. CardsStay'
    BY <1>3, <2>1 DEF CardsStay
  <2>3. Ends' = Ends
    BY <2>1, JobKept, HasStays DEF Ends, TakingBack
  <2>4. EarlyOnly' = EarlyOnly /\ EarlyOnce' = EarlyOnce
    BY <2>1 DEF EarlyOnly, EarlyOnce, EarlyKnown, DepositSpent, CardTaken, At
  <2>5. ToTheCent'
    BY <1>3, <2>1, <2>3, <2>4 DEF ToTheCent, BeforeRelease, SinceRelease, At, Free
  <2>6. Exactly
    BY <2>1 DEF Exactly, Free
  <2>7. QED BY <1>4, <2>2, <2>5, <2>6
<1>6. CASE JobStep
  <2>1. CardsStay'
    BY <1>3, <1>6, ChargesStay DEF CardsStay
  <2>2. QED BY <1>3, <1>4, <1>6, <2>1, JobCent
<1>7. CASE JobBegins
  <2>1. CardsStay'
    BY <1>3, <1>7, ChargesStay DEF CardsStay
  <2>2. QED BY <1>3, <1>4, <1>7, <2>1, BeginsCent
<1>8. CASE Unlocked
  <2>1. CardsStay'
    BY <1>3, <1>8, UnlockedCharges
  <2>2. UNCHANGED job
    BY <1>8, UnlockedMoney
  <2>3. Exactly
    BY <2>2 DEF Exactly, Free
  <2>4. QED BY <1>3, <1>4, <1>8, <2>1, <2>3, UnlockedCent
<1>9. QED BY <1>2, <1>5, <1>6, <1>7, <1>8 DEF Next

\* Where a transfer that failed was not made and no server stops, a payout leaves the
\* vendor exactly what its rows come to after fees and commission, whatever was released
\* early, owed, taken back or refused on the way, and a full refund leaves them nothing
\* (releaseBookingLocked, settleDisputeLocked).
THEOREM ExactPayout == ASSUME AnswersLost = FALSE PROVE Spec => PaidToTheCent
<1>1. Init => SettlementInv /\ CentInv
  BY SettlementInit, CentInit
<1>2. SettlementInv /\ CentInv /\ [Next]_vars => (SettlementInv /\ CentInv)'
  BY SettlementStep, CentStep
<1>3. SettlementInv /\ CentInv /\ [Next]_vars =>
        [crashes' = 0 /\ ~ Free /\ Free' =>
           /\ job.op = "release" => VendorHas' = booking'.gross - booking'.commission
           /\ job.op = "dispute" /\ booking'.dispute = "refunded" => VendorHas' = 0]_vars
  BY SettlementStep, CentStep DEF Exactly
<1>4. QED BY <1>1, <1>2, <1>3, PTL DEF Spec, PaidToTheCent

\* Until its release a booking's vendor has, whenever no job is under way, the deposit
\* released early and no more: what is released, sent back, forgotten or lost at the bank
\* never parts from early_released_amount (releaseDepositEarlyLocked, applyLostChargeback,
\* bankPaymentReturned).
THEOREM PaidBeforeRelease ==
  ASSUME AnswersLost = FALSE PROVE Spec => [](~ booking.released => VendorPaidWhatIsDue)
<1>1. Init => SettlementInv /\ CentInv
  BY SettlementInit, CentInit
<1>2. SettlementInv /\ CentInv /\ [Next]_vars => (SettlementInv /\ CentInv)'
  BY SettlementStep, CentStep
<1>3. SettlementInv /\ CentInv => (~ booking.released => VendorPaidWhatIsDue)
  <2>1. SUFFICES ASSUME SettlementInv, CentInv, ~ booking.released, Free, crashes = 0
                 PROVE  VendorHas = VendorDue
    BY DEF VendorPaidWhatIsDue
  <2>2. BeforeRelease /\ At("idle")
    BY <2>1 DEF CentInv, ToTheCent
  <2>3. ToCome = 0 /\ TakingBack = 0
    BY <2>2, ElsewhereBrings DEF At
  <2>4. VendorHas = booking.early
    BY <2>1, <2>2, <2>3, EndsIs DEF Ends, BeforeRelease
  <2>5. booking.dispute # "refunded"
    BY <2>2 DEF BeforeRelease, At
  <2>6. VendorDue = booking.early
    BY <2>1, <2>5 DEF VendorDue
  <2>7. QED BY <2>4, <2>6
<1>4. QED BY <1>1, <1>2, <1>3, PTL DEF Spec

=============================================================================
