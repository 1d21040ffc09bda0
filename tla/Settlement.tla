----------------------------- MODULE Settlement -----------------------------
(***************************************************************************)
(* What happens to a booking's money once it is collected                  *)
(* (payments.service.ts): the payout to the vendor, the deposit released   *)
(* early, extras paid after the payout, the vendor's give-backs, reported  *)
(* problems and their settlement, customers' bank disputes, and bank       *)
(* payments that come back.                                                *)
(*                                                                         *)
(* Everything that moves money does so under the booking's money lock      *)
(* (MoneyLock): one job at a time, each of whose statements and Stripe     *)
(* calls is a step here.  Between two of them come what takes no lock: the *)
(* customer's report, the bank opening a dispute, payments landing         *)
(* (Collection), the vendor's withdrawals (Withdrawals).                   *)
(***************************************************************************)
EXTENDS Integers, Sequences, FiniteSets, FiniteSetsExt, Functions

CONSTANTS
  Installments,
  Sequence,       \* the place of each in the payment plan
  AfterService,   \* the installments charged once the work is confirmed
  Deposit,        \* the first charge of a deposit plan, or None
  ByBank,         \* the installments a bank account pays
  Price, Fee,     \* amount and fee_amount of each, in cents
  PaidAtFirst,    \* those collected when the behaviour begins
  Percent,        \* currentFees().commission
  MinCharge,      \* MIN_CHARGE
  Amounts,        \* sums a vendor gives back or an admin refunds
  Balances,       \* the vendor's Vendly balance to begin with
  MaxReturns,     \* bound on bank payments that come back
  Disputed,       \* the installments whose charge a bank may dispute
  Withdrawals,    \* the vendor may withdraw the balance
  AnswersLost,    \* a transfer's answer may not arrive
  MaxCrashes,     \* bound on servers that stop in the middle of a job
  None

ASSUME OrderAssumption ==
  /\ IsFiniteSet(Installments) /\ Sequence \in [Installments -> Nat]
  /\ \A i, j \in Installments : Sequence[i] = Sequence[j] => i = j
ASSUME KindsAssumption ==
  /\ None \notin Installments /\ Deposit \in Installments \cup {None}
  /\ ByBank \subseteq Installments /\ PaidAtFirst \subseteq Installments
  /\ Disputed \subseteq Installments \ ByBank /\ AfterService \subseteq Installments
  /\ {Withdrawals, AnswersLost} \subseteq BOOLEAN /\ MaxCrashes \in Nat
ASSUME MoneyAssumption ==
  /\ Price \in [Installments -> Nat \ {0}] /\ Fee \in [Installments -> Nat]
  /\ \A i \in Installments : Fee[i] < Price[i]
  /\ Percent \in 0..99 /\ MinCharge \in Nat /\ MaxReturns \in Nat
  /\ Amounts \subseteq Nat \ {0} /\ Balances \subseteq Int

VARIABLES
  booking,  \* the booking row
  inst,     \* bookingInstallment rows
  charge,   \* Stripe: the payment behind each installment
  refunds,  \* Stripe: the refunds made, by idempotency key
  sent,     \* Stripe: the transfers to the vendor, oldest first
  vendor,   \* the vendor's row
  job,      \* the work under the booking's lock
  report,   \* a report of a problem between its check and its update
  crashes   \* servers that stopped so far

vars == <<booking, inst, charge, refunds, sent, vendor, job, report, crashes>>

----------------------------------------------------------------------------
(* State.                                                                  *)

\* due: release_at has passed; dispute: how the report stands ("refunded":
\* dispute_resolution starts with "refund"); early: early_released_amount.
BookingRows ==
  [status : {"CONFIRMED", "IN_PROGRESS", "COMPLETED", "CANCELLED"}, paid : BOOLEAN,
   due : BOOLEAN, released : BOOLEAN, gross : Nat, commission : Nat, early : Int,
   dispute : {"none", "open", "refunded", "resolved"}]

\* CLEARING: PROCESSING with clearing_since; out: paid_out_at is set.
Statuses == {"SCHEDULED", "CLEARING", "PAID", "FAILED", "CANCELLED", "REFUNDED"}
Rows == [status : Statuses, amount : Nat, fee : Nat, refunded : Nat,
         out : BOOLEAN]

\* bank: the customer's bank dispute of it (the chargeback row).
Charges == [taken : Nat, back : Nat,
            bank : {"none", "open", "won", "lost"}, returned : 0..MaxReturns]

\* row: its payout row is in the transactions; fresh: Stripe still knows its key.
Keys == [op : {"early", "release", "late"}, of : SUBSET Installments]
Transfers == [key : Keys, amount : Nat, reversed : Nat,
              row : BOOLEAN, fresh : BOOLEAN]

Ops == {"idle", "release", "late", "early", "giveBack", "dispute", "return", "lost"}
Places == {"idle", "claim", "offset", "send", "record", "credit", "owe", "unsend",
           "lower", "parts", "refund", "recordRefund", "recover", "resolve",
           "over", "reverse", "close", "forget", "apply"}

\* i: the installment the job is about; todo: those still to visit, as read; left: money still to move; paidOut: refunded from what the vendor
\* has; gross, share: what the payout is of, and comes to; owed: the vendor's debt
\* as read; other: another installment was paid as read; deed: the settlement.
Visits == [i : Installments, was : Statuses, out : BOOLEAN]
Deeds == {"none", "refund", "partial", "release"}
Jobs == [op : Ops, at : Places, i : Installments \cup {None}, left : Int,
         todo : SUBSET Visits, paidOut : Nat, gross : Nat,
         share : Int, owed : Nat, other : BOOLEAN, deed : Deeds]

Idle == [op |-> "idle", at |-> "idle", i |-> None, left |-> 0, todo |-> {},
         paidOut |-> 0, gross |-> 0, share |-> 0, owed |-> 0, other |-> FALSE,
         deed |-> "none"]

TypeOK ==
  /\ booking \in BookingRows
  /\ inst \in [Installments -> Rows]
  /\ charge \in [Installments -> Charges]
  /\ \A k \in refunds : k.i \in Installments /\ k.amount \in Nat
  /\ \A k \in DOMAIN sent : sent[k] \in Transfers /\ sent[k].reversed <= sent[k].amount
  /\ vendor \in [balance : Int, opened : Balances, withdrawn : Nat, connected : BOOLEAN]
  /\ job \in Jobs
  /\ report \in BOOLEAN /\ crashes \in 0..MaxCrashes

Init ==
  /\ booking = [status |-> "CONFIRMED", paid |-> PaidAtFirst # {}, due |-> FALSE,
                released |-> FALSE, gross |-> 0, commission |-> 0, early |-> 0,
                dispute |-> "none"]
  /\ inst = [i \in Installments |->
       [status |-> IF i \in PaidAtFirst THEN "PAID" ELSE "SCHEDULED",
        amount |-> Price[i], fee |-> Fee[i], refunded |-> 0, out |-> FALSE]]
  /\ charge = [i \in Installments |->
       [taken |-> IF i \in PaidAtFirst THEN Price[i] ELSE 0, back |-> 0,
        bank |-> "none", returned |-> 0]]
  /\ refunds = {} /\ sent = <<>> /\ job = Idle /\ report = FALSE /\ crashes = 0
  /\ \E b \in Balances, connected \in BOOLEAN :
       vendor = [balance |-> b, opened |-> b, withdrawn |-> 0, connected |-> connected]

----------------------------------------------------------------------------
(* Money.                                                                  *)

AtLeast0(n) == IF n > 0 THEN n ELSE 0
Smaller(a, b) == IF a < b THEN a ELSE b
\* round2 of a quotient, in whole cents.
Rounded(n, d) == (2 * n + d) \div (2 * d)

\* vendorPortion: the vendor's part of a payment, less what went back.
Portion(row) == AtLeast0(row.amount - row.fee - row.refunded)

PortionOf(S) == SumFunction([i \in S |-> Portion(inst[i])])

\* Vendly's commission on a part of what was paid out, at the payout's own rate.
CommissionOn(part) ==
  IF booking.gross > 0 THEN Rounded(part * booking.commission, booking.gross)
  ELSE Rounded(part * Percent, 100)
AfterCommission(part) == part - CommissionOn(part)

Paid == {i \in Installments : inst[i].status = "PAID"}
EverPaid == {i \in Installments : inst[i].status \in {"PAID", "REFUNDED"}}
Unpaid == {i \in Installments : inst[i].status \in {"SCHEDULED", "FAILED"}}

DisputeOpen == booking.dispute = "open"
ChargebackOpen == \E i \in Installments : charge[i].bank = "open"
Ended == booking.status = "CANCELLED" \/ booking.dispute = "refunded"

\* One job has the lock.
Begin(op, place) == [Idle EXCEPT !.op = op, !.at = place]
Free == job.op = "idle"
At(place) == job.at = place
Goto(place) == job' = [job EXCEPT !.at = place]
Done == job' = Idle

----------------------------------------------------------------------------
(* Stripe's transfers and refunds.                                         *)

\* A transfer under a key Stripe still knows answers as the first time; one it
\* does not is made.  It may be refused, or its answer may not arrive.
Visited == {v.i : v \in job.todo}
Key == [op |-> job.op, of |-> IF job.op = "late" THEN Visited ELSE {}]
Known(key) == {k \in DOMAIN sent : sent[k].key = key /\ sent[k].fresh}

Transfer(key, amount, made, failed) ==
  \/ /\ Known(key) = {}
     /\ sent' = Append(sent, [key |-> key, amount |-> amount, reversed |-> 0,
                              row |-> FALSE, fresh |-> TRUE])
     /\ \E answered \in {TRUE, ~ AnswersLost} : Goto(IF answered THEN made ELSE failed)
  \/ /\ \E k \in Known(key) : sent[k].amount = amount
     /\ UNCHANGED sent
     /\ Goto(made)
  \/ UNCHANGED sent /\ Goto(failed)

\* refunds.create: refused past what was taken, and while or after the customer's
\* bank has the money.
CanRefund(i, amount) ==
  /\ charge[i].taken - charge[i].back >= amount
  /\ charge[i].bank \in {"none", "won"}

----------------------------------------------------------------------------
(* The payout (releaseBookingLocked, payOutLateFor).                       *)

Clearing == \E i \in Installments : inst[i].status = "CLEARING"
NotOut(S) == {i \in S : ~ inst[i].out}
Read(S) == {[i |-> i, was |-> inst[i].status, out |-> inst[i].out] : i \in S}
Owed == AtLeast0(- vendor.balance)

\* The payout is of the rows as read here.
ReleaseBegins ==
  /\ Free
  /\ booking.status = "COMPLETED" /\ booking.due /\ ~ booking.released /\ booking.paid
  /\ ~ DisputeOpen /\ ~ ChargebackOpen /\ ~ Clearing
  /\ LET gross == PortionOf(NotOut(EverPaid))
     IN job' = [Begin("release", "claim") EXCEPT
                  !.todo = Read(NotOut(EverPaid)), !.gross = gross, !.owed = Owed,
                  !.share = gross - Rounded(gross * Percent, 100) - booking.early]
  /\ UNCHANGED <<booking, inst, charge, refunds, sent, vendor, report>>

LateBegins ==
  /\ Free
  /\ booking.status = "COMPLETED" /\ booking.released /\ ~ Ended
  /\ ~ DisputeOpen /\ ~ ChargebackOpen
  /\ NotOut(Paid) # {}
  /\ LET gross == PortionOf(NotOut(Paid))
     IN job' = [Begin("late", "claim") EXCEPT
                  !.todo = Read(NotOut(Paid)), !.gross = gross, !.owed = Owed,
                  !.share = AfterCommission(gross)]
  /\ UNCHANGED <<booking, inst, charge, refunds, sent, vendor, report>>

\* What follows once the payout is claimed: the vendor's debt comes off first.
Offset == Smaller(job.owed, job.share)
AfterClaim ==
  \/ job.share < 0 /\ job' = [job EXCEPT !.at = "owe", !.left = - job.share]
  \/ job.share = 0 /\ Done
  \/ job.share > 0 /\ Goto(IF Offset > 0 THEN "offset" ELSE "send")

\* Mutant: paid_out_at is left to a later step, as before the transaction.
MarkNothingOut == UNCHANGED inst

MarkOut ==
  inst' = [i \in Installments |->
             IF i \in Visited THEN [inst[i] EXCEPT !.out = TRUE] ELSE inst[i]]

\* One transaction; where released_at is null.
ClaimRelease ==
  /\ At("claim") /\ job.op = "release"
  /\ booking' = [booking EXCEPT !.released = TRUE, !.gross = job.gross,
                               !.commission = Rounded(job.gross * Percent, 100)]
  /\ MarkOut
  /\ AfterClaim
  /\ UNCHANGED <<charge, refunds, sent, vendor, report>>

ClaimLate ==
  /\ At("claim") /\ job.op = "late"
  /\ MarkOut
  /\ AfterClaim
  /\ UNCHANGED <<booking, charge, refunds, sent, vendor, report>>

Credit(amount) == vendor' = [vendor EXCEPT !.balance = @ + amount]

OffsetDebt ==
  /\ At("offset")
  /\ Credit(Offset)
  /\ IF job.share > Offset THEN Goto("send") ELSE Done
  /\ UNCHANGED <<booking, inst, charge, refunds, sent, report>>

\* Mutant: the debt taken off is paid out all the same.
ToPayWhole == job.share

ToPay == job.share - Offset

SendPayout ==
  /\ At("send") /\ job.op \in {"release", "late"}
  /\ IF vendor.connected
     THEN Transfer(Key, ToPay, "record", "credit")
     ELSE UNCHANGED sent /\ Goto("credit")
  /\ UNCHANGED <<booking, inst, charge, refunds, vendor, report>>

RecordPayout ==
  /\ At("record")
  /\ sent' = [sent EXCEPT ![Max({k \in DOMAIN sent : sent[k].key = Key})].row = TRUE]
  /\ Done
  /\ UNCHANGED <<booking, inst, charge, refunds, vendor, report>>

\* No Connect account, or the transfer failed.
CreditBalance ==
  /\ At("credit")
  /\ Credit(ToPay)
  /\ Done
  /\ UNCHANGED <<booking, inst, charge, refunds, sent, report>>

----------------------------------------------------------------------------
(* The deposit, early (releaseDepositEarlyLocked).                         *)

EarlyBegins ==
  /\ Free
  /\ booking.status \in {"CONFIRMED", "IN_PROGRESS"}
  /\ ~ DisputeOpen /\ ~ ChargebackOpen
  /\ booking.early = 0 /\ vendor.balance >= 0 /\ vendor.connected
  /\ Deposit # None /\ inst[Deposit].status = "PAID"
  /\ LET amount == inst[Deposit].amount - inst[Deposit].fee - inst[Deposit].refunded
     IN /\ amount > 0
        /\ job' = [Begin("early", "claim") EXCEPT !.share = amount]
  /\ UNCHANGED <<booking, inst, charge, refunds, sent, vendor, report>>

ClaimEarly ==
  /\ At("claim") /\ job.op = "early"
  /\ booking' = [booking EXCEPT !.early = job.share]
  /\ Goto("send")
  /\ UNCHANGED <<inst, charge, refunds, sent, vendor, report>>

SendEarly ==
  /\ At("send") /\ job.op = "early"
  /\ Transfer(Key, job.share, "record", "unsend")
  /\ UNCHANGED <<booking, inst, charge, refunds, vendor, report>>

UnsendEarly ==
  /\ At("unsend")
  /\ booking' = [booking EXCEPT !.early = 0]
  /\ Done
  /\ UNCHANGED <<inst, charge, refunds, sent, vendor, report>>

----------------------------------------------------------------------------
(* Taking back what the vendor has (takeBackPaidOut, recordRecovery).      *)

\* The payouts on record that are not reversed whole, newest first.
Reversible == {k \in DOMAIN sent : sent[k].row /\ sent[k].reversed < sent[k].amount}

\* Mutant: every job is thought to have more to do.
AfterTakeBackClose == Goto("close")

AfterTakeBack == IF job.op \in {"dispute", "return"} THEN Goto("close") ELSE Done
TakeBack(amount) == IF amount > 0 THEN job' = [job EXCEPT !.at = "reverse", !.left = amount]
                    ELSE AfterTakeBack

TakeBackDone ==
  /\ At("reverse") /\ job.left = 0
  /\ AfterTakeBack
  /\ UNCHANGED <<booking, inst, charge, refunds, sent, vendor, report>>

\* Mutant: the reversal is not kept within the transfer.
ReverseTransferWhole ==
  /\ At("reverse") /\ job.left > 0
  /\ \/ /\ Reversible # {}
        /\ sent' = [sent EXCEPT ![Max(Reversible)].reversed = @ + job.left]
        /\ job' = [job EXCEPT !.left = 0]
     \/ UNCHANGED sent /\ Goto("owe")
  /\ UNCHANGED <<booking, inst, charge, refunds, vendor, report>>

\* A refusal (the money is at the vendor's bank) ends the reversals.
ReverseTransfer ==
  /\ At("reverse") /\ job.left > 0
  /\ \/ /\ Reversible # {}
        /\ LET k == Max(Reversible)
               take == Smaller(job.left, sent[k].amount - sent[k].reversed)
           IN /\ sent' = [sent EXCEPT ![k].reversed = @ + take]
              /\ job' = [job EXCEPT !.left = @ - take]
     \/ UNCHANGED sent /\ Goto("owe")
  /\ UNCHANGED <<booking, inst, charge, refunds, vendor, report>>

\* The rest is owed from the Vendly balance.
OweRest ==
  /\ At("owe")
  /\ Credit(- job.left)
  /\ AfterTakeBack
  /\ UNCHANGED <<booking, inst, charge, refunds, sent, report>>

----------------------------------------------------------------------------
(* Refunds (refundParts).                                                  *)

\* A full refund gives the fee back too.
Refundable(i) == IF job.deed = "refund" THEN inst[i].amount - inst[i].refunded
                 ELSE Portion(inst[i])

\* Reading the rows: a settled problem also calls off what is unpaid, but a balance
\* kept for after the service.
Parts ==
  IF job.op = "giveBack"
  THEN Read(Paid)
  ELSE Read(Paid \cup {i \in Unpaid : ~ (job.deed = "partial" /\ i \in AfterService)})

ReadParts ==
  /\ At("parts")
  /\ job' = [job EXCEPT !.at = "refund", !.todo = Parts]
  /\ UNCHANGED <<booking, inst, charge, refunds, sent, vendor, report>>

\* The next one: what Vendly still holds first, then the newest.
Precedes(v, w) == IF v.out = w.out THEN Sequence[v.i] >= Sequence[w.i] ELSE w.out
Current == CHOOSE v \in job.todo : \A w \in job.todo : Precedes(v, w)
This == Current.i
Take == Smaller(Refundable(This), job.left)
ToRefund == At("refund") /\ job.todo # {} /\ Current.was = "PAID"

\* Whatever became of the row since it was read.
CallOffPart ==
  /\ At("refund") /\ job.todo # {} /\ Current.was # "PAID"
  /\ inst' = [inst EXCEPT ![This].status = "CANCELLED"]
  /\ job' = [job EXCEPT !.todo = @ \ {Current}]
  /\ UNCHANGED <<booking, charge, refunds, sent, vendor, report>>

\* Mutant: a give-back's key does not say which of the row's refunds it is.
RefundKeyWithoutState(i) == [op |-> job.op, i |-> i, state |-> 0]

\* The key of a refund: a give-back's names the row's refunds so far.
RefundKey(i) == [op |-> job.op, i |-> i,
                 state |-> IF job.op = "giveBack" THEN inst[i].refunded ELSE 0]
Made(key) == {r \in refunds : r.key = key}

SkipPart ==
  /\ ToRefund /\ Take <= 0
  /\ job' = [job EXCEPT !.todo = @ \ {Current}]
  /\ UNCHANGED <<booking, inst, charge, refunds, sent, vendor, report>>

\* Repeated under its key, a refund answers as the first time; with another
\* amount it is refused.  A refusal ends the job where it stands.
RefundPart ==
  /\ ToRefund /\ Take > 0
  /\ LET i == This
         refund == [key |-> RefundKey(i), i |-> i, amount |-> Take]
     IN \/ /\ refund \in refunds
           /\ UNCHANGED <<charge, refunds>> /\ Goto("recordRefund")
        \/ /\ Made(RefundKey(i)) = {} /\ CanRefund(i, Take)
           /\ charge' = [charge EXCEPT ![i].back = @ + Take]
           /\ refunds' = refunds \cup {refund}
           /\ Goto("recordRefund")
        \/ /\ refund \notin refunds /\ (Made(RefundKey(i)) # {} \/ ~ CanRefund(i, Take))
           /\ UNCHANGED <<charge, refunds>> /\ Done
  /\ UNCHANGED <<booking, inst, sent, vendor, report>>

RecordPart ==
  /\ At("recordRefund")
  /\ LET i == This
     IN /\ inst' = [inst EXCEPT ![i].refunded = @ + Take,
               ![i].status = IF Take >= inst[i].amount - inst[i].refunded
                             THEN "REFUNDED" ELSE "PAID"]
        /\ job' = [job EXCEPT !.at = "refund", !.todo = @ \ {Current}, !.left = @ - Take,
                             !.paidOut = IF inst[i].out THEN @ + Take ELSE @]
  /\ UNCHANGED <<booking, charge, refunds, sent, vendor, report>>

RefundsDone ==
  /\ At("refund") /\ job.todo = {}
  /\ Goto(IF job.op = "giveBack" THEN "recover" ELSE "resolve")
  /\ UNCHANGED <<booking, inst, charge, refunds, sent, vendor, report>>

----------------------------------------------------------------------------
(* The vendor gives money back (giveBack).                                 *)

\* What the balance covers of the money the vendor already has.
Covered(paidOut) ==
  LET gross == IF booking.gross > 0 THEN booking.gross ELSE 100
      net == IF booking.gross > 0 THEN booking.gross - booking.commission ELSE 100 - Percent
  IN Smaller(paidOut, (AtLeast0(vendor.balance) * gross) \div net)

Lowerable(i) == AtLeast0(inst[i].amount - inst[i].fee)

GiveBackBegins ==
  /\ Free
  /\ booking.status # "CANCELLED"
  /\ ~ DisputeOpen /\ ~ ChargebackOpen
  /\ \E amount \in Amounts :
       /\ amount <= SumFunction([i \in Unpaid |-> Lowerable(i)])
                      + PortionOf(NotOut(Paid)) + Covered(PortionOf(Paid \ NotOut(Paid)))
       /\ job' = [Begin("giveBack", "lower") EXCEPT !.left = amount,
                                                   !.todo = Read(Unpaid)]
  /\ UNCHANGED <<booking, inst, charge, refunds, sent, vendor, report>>

\* Stripe can't charge under MinCharge: at least that is left, or nothing.
Lowered(i) ==
  LET left == inst[i].amount - Smaller(job.left, Lowerable(i))
  IN IF left > 0 /\ left < MinCharge THEN MinCharge ELSE left

\* Only while it is still unpaid.
LowerUnpaid ==
  /\ At("lower") /\ job.left > 0 /\ job.todo # {}
  /\ LET i == This
         take == inst[i].amount - Lowered(i)
     IN IF inst[i].status = Current.was /\ take > 0
        THEN /\ inst' = [inst EXCEPT ![i].amount = Lowered(i),
                    ![i].status = IF Lowered(i) > 0 THEN @ ELSE "CANCELLED"]
             /\ job' = [job EXCEPT !.todo = @ \ {Current}, !.left = @ - take]
        ELSE UNCHANGED inst /\ job' = [job EXCEPT !.todo = @ \ {Current}]
  /\ UNCHANGED <<booking, charge, refunds, sent, vendor, report>>

LoweringDone ==
  /\ At("lower") /\ (job.left = 0 \/ job.todo = {})
  /\ IF job.left > 0 THEN Goto("parts") ELSE Done
  /\ UNCHANGED <<booking, inst, charge, refunds, sent, vendor, report>>

\* Mutant: Vendly's commission is taken back from the vendor too.
RecoverGross ==
  /\ At("recover")
  /\ Credit(- job.paidOut)
  /\ Done
  /\ UNCHANGED <<booking, inst, charge, refunds, sent, report>>

RecoverGivenBack ==
  /\ At("recover")
  /\ Credit(- AfterCommission(job.paidOut))
  /\ Done
  /\ UNCHANGED <<booking, inst, charge, refunds, sent, report>>

----------------------------------------------------------------------------
(* A reported problem and its settlement (openDispute, settleDisputeLocked). *)

\* The report takes no lock, and its update looks at dispute_opened_at only.
CheckReport ==
  /\ ~ report
  /\ booking.status \in {"CONFIRMED", "IN_PROGRESS", "COMPLETED"}
  /\ ~ booking.released /\ booking.dispute = "none"
  /\ report' = TRUE
  /\ UNCHANGED <<booking, inst, charge, refunds, sent, vendor, job>>

OpenReport ==
  /\ report
  /\ report' = FALSE
  /\ booking' = IF booking.dispute = "none" THEN [booking EXCEPT !.dispute = "open"]
                ELSE booking
  /\ UNCHANGED <<inst, charge, refunds, sent, vendor, job>>

Kept(i) == inst[i].amount - inst[i].refunded

\* What is paid is summed up here, from the rows as they are now.
DisputeBegins ==
  /\ Free
  /\ DisputeOpen /\ ~ booking.released
  /\ LET settle == [Begin("dispute", "parts") EXCEPT !.deed = "refund"]
     IN \/ job' = [settle EXCEPT !.left = SumFunction([i \in Paid |-> Kept(i)])]
        \/ \E amount \in Amounts :
             /\ amount < PortionOf(Paid)
             /\ job' = [settle EXCEPT !.left = amount, !.deed = "partial"]
        \/ job' = [settle EXCEPT !.at = "resolve", !.deed = "release"]
  /\ UNCHANGED <<booking, inst, charge, refunds, sent, vendor, report>>

\* A decision for the vendor makes the payout of a completed booking due.
Resolve ==
  /\ At("resolve")
  /\ booking' = [booking EXCEPT
       !.dispute = IF job.deed = "refund" THEN "refunded" ELSE "resolved",
       !.due = @ \/ (job.deed # "refund" /\ booking.status = "COMPLETED")]
  /\ IF job.deed = "refund" THEN Goto("over") ELSE Done
  /\ UNCHANGED <<inst, charge, refunds, sent, vendor, report>>

\* Mutant: the vendor keeps the deposit released early.
EndRefundedKeepingEarly ==
  /\ At("over")
  /\ booking' = [booking EXCEPT !.released = TRUE]
  /\ Goto("close")
  /\ UNCHANGED <<inst, charge, refunds, sent, vendor, report>>

\* Nothing is left for the vendor.
EndRefunded ==
  /\ At("over")
  /\ booking' = [booking EXCEPT !.released = TRUE]
  /\ TakeBack(booking.early)
  /\ UNCHANGED <<inst, charge, refunds, sent, vendor, report>>

\* Work that never started is over.
CloseRefunded ==
  /\ At("close") /\ job.op = "dispute"
  /\ IF booking.status = "CONFIRMED"
     THEN /\ booking' = [booking EXCEPT !.status = "CANCELLED"]
          /\ inst' = [i \in Installments |->
               IF i \in Unpaid THEN [inst[i] EXCEPT !.status = "CANCELLED"] ELSE inst[i]]
     ELSE UNCHANGED <<booking, inst>>
  /\ Done
  /\ UNCHANGED <<charge, refunds, sent, vendor, report>>

----------------------------------------------------------------------------
(* A bank payment that comes back after it cleared (bankPaymentReturned).  *)

\* Days later Stripe no longer knows the keys of the transfers made.
KeysExpire == sent' = [k \in DOMAIN sent |-> [sent[k] EXCEPT !.fresh = FALSE]]

\* The customer's bank takes back what is left of it, days after it cleared.
BankReturns(i) ==
  /\ i \in ByBank /\ inst[i].status = "PAID"
  /\ charge[i].taken > charge[i].back /\ charge[i].returned < MaxReturns
  /\ charge' = [charge EXCEPT ![i].taken = 0, ![i].back = 0, ![i].returned = @ + 1]
  /\ KeysExpire
  /\ UNCHANGED <<booking, inst, refunds, vendor, job, report>>

Returned(row) ==
  LET owed == row.amount - row.refunded
  IN [row EXCEPT !.status = IF owed > 0 THEN "FAILED" ELSE "CANCELLED", !.out = FALSE,
                 !.amount = owed, !.fee = Smaller(@, owed), !.refunded = 0]

PaidEarly(i) == i = Deposit /\ booking.early > 0

ReturnBegins ==
  /\ Free
  /\ \E i \in ByBank :
       /\ inst[i].status = "PAID" /\ charge[i].taken = 0
       /\ inst' = [inst EXCEPT ![i] = Returned(@)]
       /\ LET part == Portion(inst[i])
              out == inst[i].out /\ part > 0
              next == IF out THEN "reverse" ELSE IF PaidEarly(i) THEN "forget" ELSE "close"
          IN job' = [Begin("return", next) EXCEPT
                       !.i = i, !.left = IF out THEN AfterCommission(part) ELSE 0,
                       !.other = EverPaid \ {i} # {}]
  /\ UNCHANGED <<booking, charge, refunds, sent, vendor, report>>

\* The final payout no longer takes it off.
ForgetEarly ==
  /\ At("forget")
  /\ booking' = [booking EXCEPT !.early = 0]
  /\ TakeBack(booking.early)
  /\ UNCHANGED <<inst, charge, refunds, sent, vendor, report>>

CloseReturn ==
  /\ At("close") /\ job.op = "return"
  /\ booking' = IF job.other THEN booking ELSE [booking EXCEPT !.paid = FALSE]
  /\ Done
  /\ UNCHANGED <<inst, charge, refunds, sent, vendor, report>>

----------------------------------------------------------------------------
(* A customer's bank dispute (chargebackOpened, chargebackClosed,          *)
(* applyLostChargeback).                                                   *)

ChargebackOpened(i) ==
  /\ i \in Disputed /\ charge[i].bank = "none" /\ charge[i].taken > charge[i].back
  /\ charge' = [charge EXCEPT ![i].bank = "open"]
  /\ UNCHANGED <<booking, inst, refunds, sent, vendor, job, report>>

\* Only a lost one takes the lock.
ChargebackWon(i) ==
  /\ charge[i].bank = "open"
  /\ charge' = [charge EXCEPT ![i].bank = "won"]
  /\ UNCHANGED <<booking, inst, refunds, sent, vendor, job, report>>

\* closed_at is set before the loss is applied.
ChargebackLost ==
  /\ Free
  /\ \E i \in Installments :
       /\ charge[i].bank = "open"
       /\ charge' = [charge EXCEPT ![i].bank = "lost", ![i].back = charge[i].taken]
       /\ job' = [Begin("lost", "apply") EXCEPT
                    !.i = i, !.left = charge[i].taken - charge[i].back]
  /\ UNCHANGED <<booking, inst, refunds, sent, vendor, report>>

\* It counts as refunded, and so as taken from the vendor's part first.
LostTake == Smaller(job.left, Kept(job.i))
AfterLoss == [inst[job.i] EXCEPT !.refunded = @ + LostTake]
PartLost == Portion(inst[job.i]) - Portion(AfterLoss)

ApplyLoss ==
  /\ At("apply")
  /\ inst' = [inst EXCEPT ![job.i] = AfterLoss]
  /\ IF inst[job.i].out
     THEN TakeBack(AfterCommission(PartLost)) /\ UNCHANGED booking
     ELSE LET early == IF PaidEarly(job.i) THEN Smaller(PartLost, booking.early) ELSE 0
          IN /\ booking' = [booking EXCEPT !.early = @ - early]
             /\ TakeBack(early)
  /\ UNCHANGED <<charge, refunds, sent, vendor, report>>

----------------------------------------------------------------------------
(* What takes no lock.  How a charge comes about is Collection's subject:  *)
(* here it lands, or is on its way from a bank account for days.           *)

Chargeable(i) ==
  /\ inst[i].status \in {"SCHEDULED", "FAILED"} /\ inst[i].amount > 0 /\ ~ Ended
  /\ i \in AfterService => booking.status = "COMPLETED" /\ ~ DisputeOpen

\* markPaid.
Land(i) ==
  /\ inst' = [inst EXCEPT ![i].status = "PAID"]
  /\ charge' = [charge EXCEPT ![i].taken = inst[i].amount, ![i].back = 0]
  /\ booking' = [booking EXCEPT !.paid = TRUE]

CardPays(i) ==
  /\ Chargeable(i) /\ i \notin ByBank
  /\ Land(i)
  /\ UNCHANGED <<refunds, sent, vendor, job, report>>

BankPays(i) ==
  /\ Chargeable(i) /\ i \in ByBank
  /\ inst' = [inst EXCEPT ![i].status = "CLEARING"]
  /\ UNCHANGED <<booking, charge, refunds, sent, vendor, job, report>>

\* On a booking that ended meanwhile it is handed straight back.
Clears(i) ==
  /\ inst[i].status = "CLEARING"
  /\ IF ~ Ended THEN Land(i)
     ELSE /\ inst' = [inst EXCEPT ![i].status = "REFUNDED", ![i].refunded = inst[i].amount]
          /\ charge' = [charge EXCEPT ![i].taken = inst[i].amount, ![i].back = inst[i].amount]
          /\ booking' = [booking EXCEPT !.paid = TRUE]
  /\ KeysExpire
  /\ UNCHANGED <<refunds, vendor, job, report>>

ClearingFails(i) ==
  /\ inst[i].status = "CLEARING"
  /\ inst' = [inst EXCEPT ![i].status = IF Ended THEN "CANCELLED" ELSE "FAILED"]
  /\ UNCHANGED <<booking, charge, refunds, sent, vendor, job, report>>

\* The vendor's work.
Work ==
  /\ \/ booking.status = "CONFIRMED" /\ booking' = [booking EXCEPT !.status = "IN_PROGRESS"]
     \/ booking.status = "IN_PROGRESS" /\ booking' = [booking EXCEPT !.status = "COMPLETED"]
  /\ ~ Ended
  /\ UNCHANGED <<inst, charge, refunds, sent, vendor, job, report>>

\* release_at, the customer's confirmation or 48 hours on.
ReleaseTimeComes ==
  /\ booking.status = "COMPLETED" /\ ~ booking.due
  /\ booking' = [booking EXCEPT !.due = TRUE]
  /\ UNCHANGED <<inst, charge, refunds, sent, vendor, job, report>>

Withdraw ==
  /\ Withdrawals /\ vendor.balance > 0
  /\ vendor' = [vendor EXCEPT !.balance = 0, !.withdrawn = @ + vendor.balance]
  /\ UNCHANGED <<booking, inst, charge, refunds, sent, job, report>>

\* The lock expires and the next job finds the rows as they were left.
Crash ==
  /\ ~ Free /\ crashes < MaxCrashes
  /\ Done
  /\ crashes' = crashes + 1
  /\ UNCHANGED <<booking, inst, charge, refunds, sent, vendor, report>>

----------------------------------------------------------------------------
Payout == \/ ClaimRelease \/ ClaimLate \/ OffsetDebt \/ SendPayout \/ RecordPayout
          \/ CreditBalance \/ ClaimEarly \/ SendEarly \/ UnsendEarly
Recovery == TakeBackDone \/ ReverseTransfer \/ OweRest
Refunding == \/ ReadParts \/ CallOffPart \/ SkipPart \/ RefundPart \/ RecordPart
             \/ RefundsDone \/ LowerUnpaid \/ LoweringDone \/ RecoverGivenBack
Settling == \/ Resolve \/ EndRefunded \/ CloseRefunded \/ ForgetEarly \/ CloseReturn
            \/ ApplyLoss
JobStep == Payout \/ Recovery \/ Refunding \/ Settling

Unlocked ==
  \/ CheckReport \/ OpenReport
  \/ \E i \in Installments :
       \/ ChargebackOpened(i) \/ ChargebackWon(i) \/ BankReturns(i)
       \/ CardPays(i) \/ BankPays(i) \/ Clears(i) \/ ClearingFails(i)
  \/ Work \/ ReleaseTimeComes \/ Withdraw
JobBegins == \/ ReleaseBegins \/ LateBegins \/ EarlyBegins \/ GiveBackBegins
             \/ DisputeBegins \/ ReturnBegins \/ ChargebackLost

Next == \/ (JobBegins \/ JobStep \/ Unlocked) /\ UNCHANGED crashes
        \/ Crash

Spec == Init /\ [][Next]_vars

\* Jobs run on, and the hourly sweep finds the lock free again and again.
FairSpec == /\ Spec
            /\ WF_vars(JobStep /\ UNCHANGED crashes)
            /\ SF_vars(ReleaseBegins /\ UNCHANGED crashes)
            /\ SF_vars(LateBegins /\ UNCHANGED crashes)

----------------------------------------------------------------------------
(* Properties.                                                             *)

\* All the vendor has had of this booking: transfers less reversals, what its
\* jobs put on the balance, and what was withdrawn from there.
VendorHas ==
  SumFunction([k \in DOMAIN sent |-> sent[k].amount - sent[k].reversed])
    + vendor.balance - vendor.opened + vendor.withdrawn

\* The refund found every payment (see NothingAfterFullRefund for one it does not).
AllGone == \A i \in Installments : inst[i].status \in {"REFUNDED", "CANCELLED", "CLEARING"}

VendorDue ==
  CASE booking.dispute = "refunded" -> 0
    [] booking.dispute # "refunded" /\ booking.released ->
         SumFunction([i \in EverPaid |->
           IF inst[i].out THEN AfterCommission(Portion(inst[i])) ELSE 0])
    [] OTHER -> booking.early

\* Whenever no job is under way the vendor has been paid, all told, what the
\* installments marked paid out come to after refunds, fees and commission, or the
\* deposit released early, or nothing after a full refund (no server having
\* stopped in between): payouts, debts taken off
\* them, give-backs, lost bank disputes and returned bank payments add up
\* (releaseBookingLocked, takeBackPaidOut, giveBack, applyLostChargeback).
VendorPaidWhatIsDue ==
  Free /\ crashes = 0 /\ (booking.dispute = "refunded" => AllGone) => VendorHas = VendorDue

\* Where no server stops, a payout leaves the vendor exactly what its rows come to
\* after fees and commission, whatever was released early, owed or refused on the way,
\* and a full refund leaves them nothing (releaseBookingLocked, settleDisputeLocked).
PaidToTheCent ==
  [][crashes' = 0 /\ ~ Free /\ Free' =>
       /\ job.op = "release" => VendorHas' = booking'.gross - booking'.commission
       /\ job.op = "dispute" /\ booking'.dispute = "refunded" => VendorHas' = 0]_vars

\* Even where servers stop, a payment is never paid out twice: the vendor never has
\* more than their part of all that was ever collected.
Collected(i) == IF inst[i].status \in {"PAID", "REFUNDED"} THEN 1 + charge[i].returned
                ELSE charge[i].returned
NeverPaidTwice ==
  VendorHas <= SumFunction([i \in Installments |-> (Price[i] - Fee[i]) * Collected(i)])

\* What the rows say the customer paid and got back is what Stripe holds: no
\* refund is made without being counted, or counted twice (refundParts).
BooksMatchStripe ==
  Free => \A i \in EverPaid : charge[i].returned = 0 =>
            inst[i].amount = charge[i].taken /\ inst[i].refunded = charge[i].back

\* No transfer leaves for a booking refunded in full (settleDisputeLocked and the
\* payout jobs exclude each other).
NothingAfterFullRefund ==
  [][booking.dispute = "refunded" => Len(sent') = Len(sent)]_vars

\* A completed, due and paid booking that nothing holds is released, and what is
\* paid after that is paid out too: no other work on the booking keeps the hourly
\* sweeps from it for ever (runReleases, payOutLateInstallments).
Releasable == /\ booking.status = "COMPLETED" /\ booking.due /\ booking.paid
              /\ ~ booking.released /\ ~ DisputeOpen /\ ~ ChargebackOpen /\ ~ Clearing
LateDue == /\ booking.status = "COMPLETED" /\ booking.released /\ ~ Ended
           /\ ~ DisputeOpen /\ ~ ChargebackOpen /\ NotOut(Paid) # {}
PayoutArrives == ~ <>[]Releasable /\ ~ <>[]LateDue

=============================================================================
