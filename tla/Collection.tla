----------------------------- MODULE Collection -----------------------------
(***************************************************************************)
(* The collection of a booking's installments (Charging) together with the *)
(* cancellations that race it: the vendor's own, which refunds everything, *)
(* the customer's, and the job's for a payment still missing at its        *)
(* deadline, which refund nothing of a deposit (cancelAs, settlePaidCancellation in       *)
(* booking.service.ts; cancelOverdue in payment-deadlines.service.ts;      *)
(* voidOpenCharges and refundParts in payments.service.ts).                *)
(***************************************************************************)
EXTENDS Charging, SequencesExt

CONSTANTS
  Newest,     \* the installments, newest first (refundParts' order)
  Requesters  \* which of customer and vendor may cancel

ASSUME NewestAssumption ==
  /\ Newest \in Seq(Installments)
  /\ \A i \in Installments : \E k \in 1..Len(Newest) : Newest[k] = i
ASSUME FiniteAssumption == IsFiniteSet(Installments)
ASSUME RequestersAssumption == Requesters \subseteq {"CUSTOMER", "VENDOR"}

VARIABLE cancelling  \* the cancellation under way: by whom, and how far

vars == <<inst, booking, work, intent, cancelling>>

CancelPlaces ==
  {"idle", "overdue", "load", "claim", "terms", "look", "void", "voided",
   "refundRead", "refund", "refunded", "dropped"}

\* paid: the booking had paid_at when it was loaded; seen: the rows as last
\* read; todo: those still to visit; left: what is still to refund.
Cancellations ==
  [at : CancelPlaces, by : Cancellers, paid : BOOLEAN,
   seen : [Installments -> InstallmentRows], todo : Seq(Installments), left : Nat]

NoCancellation ==
  [at |-> "idle", by |-> "VENDOR", paid |-> FALSE,
   seen |-> [i \in Installments |-> FreshRow], todo |-> <<>>, left |-> 0]

TypeOK == ChargingTypeOK /\ cancelling \in Cancellations

Init == ChargingInit /\ cancelling = NoCancellation

At(place) == cancelling.at = place
CancelGoto(place) == cancelling' = [cancelling EXCEPT !.at = place]
CancelDone == cancelling' = NoCancellation

----------------------------------------------------------------------------
(* Starting: someone's request, or the job for an overdue payment.         *)

LoadToCancel ==
  /\ At("idle")
  /\ booking.status = "ON"
  /\ \E by \in Requesters :
       cancelling' = [NoCancellation EXCEPT !.at = "claim", !.by = by,
                                            !.paid = booking.paid]
  /\ UNCHANGED chargingVars

\* The job's WHERE: past its deadline, and no charge still at Stripe.
Overdue ==
  /\ booking.status = "ON"
  /\ booking.window = "over"
  /\ \A i \in Installments : inst[i].status # "PROCESSING"

\* dueInstallment of the rows as read.
Awaited(rows) == {i \in Installments : DueKind[i] = booking.kind
                    /\ rows[i].status \notin {"PAID", "REFUNDED", "CANCELLED"}}

SelectOverdue ==
  /\ At("idle")
  /\ Overdue
  /\ cancelling' = [NoCancellation EXCEPT !.by = "SYSTEM",
                      !.at = IF Awaited(inst) = {} THEN "overdue" ELSE "load"]
  /\ UNCHANGED chargingVars

\* Paid or called off in the meantime: the window is closed instead.
\* Mutant: the booking is skipped and keeps its window.
SkipWithoutClearing ==
  /\ At("overdue")
  /\ CancelDone
  /\ UNCHANGED chargingVars

ClearWindow ==
  /\ At("overdue")
  /\ booking' = IF booking.window = "over"
                THEN [booking EXCEPT !.window = "none", !.kind = "none"] ELSE booking
  /\ CancelDone
  /\ UNCHANGED <<inst, work, intent>>

\* cancelForNonPayment reads the booking again.
LoadForNonPayment ==
  /\ At("load")
  /\ IF booking.status = "ON" /\ booking.window = "over"
     THEN cancelling' = [cancelling EXCEPT !.at = "claim", !.paid = booking.paid]
     ELSE CancelDone
  /\ UNCHANGED chargingVars

\* The claim: still cancellable, and for the job still past its deadline.
\* Mutant: the job's claim forgets the deadline.
CancellableAnyWindow == booking.status = "ON"

Cancellable ==
  /\ booking.status = "ON"
  /\ cancelling.by = "SYSTEM" => booking.window = "over"

ClaimCancellation ==
  /\ At("claim")
  /\ IF Cancellable
     THEN /\ booking' = [booking EXCEPT !.status = "CANCELLED", !.by = cancelling.by,
                                        !.window = "none", !.kind = "none"]
          /\ CancelGoto(IF cancelling.paid THEN "terms" ELSE "look")
     ELSE CancelDone /\ UNCHANGED booking
  /\ UNCHANGED <<inst, work, intent>>

----------------------------------------------------------------------------
(* settlePaidCancellation.                                                 *)

Paid(i) == IF inst[i].status = "PAID" THEN Left(i) ELSE 0

PaidOf(S) == FoldSet(LAMBDA i, sum : sum + Paid(i), 0, S)

\* No more than this is ever paid.
MaxTotal == Cardinality(Installments) * MaxAmount

\* What there is to refund now: everything paid when the vendor cancels, else
\* the policy's part of it, without the deposit.  Under the money lock from here
\* on: a giveBack that has it ends first, and none begins on an ended booking.
SetTerms ==
  /\ At("terms")
  /\ LockFree
  /\ \E refundTotal \in 0..MaxTotal :
       /\ IF cancelling.by = "VENDOR"
          THEN refundTotal = PaidOf(Installments)
          ELSE refundTotal <= PaidOf({i \in Installments : DueKind[i] # "deposit"})
       /\ cancelling' = [cancelling EXCEPT !.at = "look", !.left = refundTotal]
  /\ UNCHANGED chargingVars

\* voidOpenCharges reads the open rows, then visits each.
LookForOpen ==
  /\ At("look")
  /\ cancelling' = [cancelling EXCEPT !.at = "void", !.seen = inst, !.todo = Newest]
  /\ UNCHANGED chargingVars

Visited == Head(cancelling.todo)
SeenRow == cancelling.seen[Visited]
NextVisit(place) ==
  cancelling' = [cancelling EXCEPT !.at = place, !.todo = Tail(@)]

SeenUnpaid == SeenRow.status \in {"SCHEDULED", "FAILED"}
SeenHold == /\ SeenRow.status = "PROCESSING" /\ SeenRow.pi # None
            /\ Visited \in Holds

\* Only while the row is as it was read.
CallOffAsSeen ==
  inst' = IF inst[Visited].status = SeenRow.status
          THEN [inst EXCEPT ![Visited].status = "CANCELLED"] ELSE inst

VoidUnpaid ==
  /\ At("void") /\ cancelling.todo # <<>> /\ SeenUnpaid
  /\ CallOffAsSeen
  /\ NextVisit("void")
  /\ UNCHANGED <<booking, work, intent>>

\* Paid rows, and a charge still in flight, which the webhook settles.
VoidNothing ==
  /\ At("void") /\ cancelling.todo # <<>> /\ ~ SeenUnpaid /\ ~ SeenHold
  /\ NextVisit("void")
  /\ UNCHANGED chargingVars

\* A failure to let go of the hold is only logged.
VoidHold ==
  /\ At("void") /\ cancelling.todo # <<>> /\ SeenHold
  /\ Cancel(SeenRow.pi)
  /\ CancelGoto("voided")
  /\ UNCHANGED <<inst, booking, work>>

RecordVoidedHold ==
  /\ At("voided")
  /\ CallOffAsSeen
  /\ NextVisit("void")
  /\ UNCHANGED <<booking, work, intent>>

\* Refunds follow only when the booking was paid as loaded and owes some.
VoidDone ==
  /\ At("void") /\ cancelling.todo = <<>>
  /\ IF cancelling.left > 0 THEN CancelGoto("refundRead") ELSE CancelDone
  /\ UNCHANGED chargingVars

----------------------------------------------------------------------------
(* refundParts, with voidOpen: newest installment first.                   *)

ReadForRefund ==
  /\ At("refundRead")
  /\ cancelling' = [cancelling EXCEPT !.at = "refund", !.seen = inst, !.todo = Newest]
  /\ UNCHANGED chargingVars

\* By id alone.
RefundCallsOff ==
  /\ At("refund") /\ cancelling.todo # <<>> /\ SeenUnpaid
  /\ inst' = [inst EXCEPT ![Visited].status = "CANCELLED"]
  /\ NextVisit("refund")
  /\ UNCHANGED <<booking, work, intent>>

RefundDropsHold ==
  /\ At("refund") /\ cancelling.todo # <<>> /\ SeenHold
  /\ Cancel(SeenRow.pi)
  /\ CancelGoto("dropped")
  /\ UNCHANGED <<inst, booking, work>>

RecordDroppedHold ==
  /\ At("dropped")
  /\ inst' = [inst EXCEPT ![Visited].status = "CANCELLED"]
  /\ NextVisit("refund")
  /\ UNCHANGED <<booking, work, intent>>

SmallerOf(a, b) == IF a < b THEN a ELSE b
SeenLeft == SeenRow.amount - SeenRow.refunded
Take == IF SeenRow.status = "PAID" THEN SmallerOf(SeenLeft, cancelling.left) ELSE 0

RefundNothing ==
  /\ At("refund") /\ cancelling.todo # <<>> /\ ~ SeenUnpaid /\ ~ SeenHold
  /\ Take <= 0
  /\ NextVisit("refund")
  /\ UNCHANGED chargingVars

\* Under the key cancel-<booking>-<installment>.  Stripe refuses what it has
\* no money for; the refund then stops and the rest is recorded as failed.
RefundAtStripe ==
  /\ At("refund") /\ cancelling.todo # <<>>
  /\ Take > 0
  /\ IF CanRefund(SeenRow.pi, Take)
     THEN /\ intent' = [intent EXCEPT ![SeenRow.pi].back = @ + Take]
          /\ CancelGoto("refunded")
     ELSE UNCHANGED intent /\ CancelDone
  /\ UNCHANGED <<inst, booking, work>>

\* By id alone.
RecordRefund ==
  /\ At("refunded")
  /\ inst' = [inst EXCEPT ![Visited].refunded = @ + Take,
                ![Visited].status = IF Take >= SeenLeft THEN "REFUNDED" ELSE "PAID"]
  /\ cancelling' = [cancelling EXCEPT !.at = "refund", !.todo = Tail(@),
                                      !.left = @ - Take]
  /\ UNCHANGED <<booking, work, intent>>

RefundDone ==
  /\ At("refund") /\ cancelling.todo = <<>>
  /\ CancelDone
  /\ UNCHANGED chargingVars

\* The server stops: nothing resumes the cancellation.
CrashCancelling ==
  /\ Crashes
  /\ ~ At("idle")
  /\ CancelDone
  /\ UNCHANGED chargingVars

----------------------------------------------------------------------------

CancelStep ==
  \/ ClearWindow \/ LoadForNonPayment \/ ClaimCancellation \/ SetTerms
  \/ LookForOpen \/ VoidUnpaid \/ VoidNothing \/ VoidHold \/ RecordVoidedHold
  \/ VoidDone \/ ReadForRefund \/ RefundCallsOff \/ RefundDropsHold
  \/ RecordDroppedHold \/ RefundNothing \/ RefundAtStripe \/ RecordRefund
  \/ RefundDone

Next ==
  \/ (\E w \in Workers : Begin(w) \/ Step(w) \/ Crash(w)) /\ UNCHANGED cancelling
  \/ At("idle") /\ Surroundings /\ UNCHANGED cancelling
  \/ LoadToCancel \/ SelectOverdue
  \/ CancelStep
  \/ CrashCancelling

Spec == Init /\ [][Next]_vars

\* Handlers run on, and the overdue job, which runs every 10 minutes, at some run
\* finds no charge under way.  Nothing makes the customer, the vendor, Stripe's
\* events, the sweep or time move.
FairSpec ==
  /\ Spec
  /\ \A w \in Workers : WF_vars(Step(w) /\ UNCHANGED cancelling)
  /\ WF_vars(CancelStep)
  /\ SF_vars(SelectOverdue)

----------------------------------------------------------------------------
(* Properties.                                                             *)

\* A charge under way at Stripe is the only one of its installment ("claim the
\* attempt so two workers can't double charge").
OneCallAtATime ==
  \A v, w \in Workers :
    work[v].at = "call" /\ work[w].at = "call" /\ Mine(v) = Mine(w) => v = w

\* However the sweep, the customer's retries, the webhook and crashes fall
\* together, at most one intent of an installment has the customer's money.
NeverChargedTwice ==
  \A m, n \in Intents :
    Live(m) /\ Live(n) /\ intent[m].of = intent[n].of => m = n

\* Nothing is under way: no handler, no cancellation, no event to deliver.
Quiet == /\ Resting
         /\ At("idle")
         /\ \A n \in Intents : intent[n].news = {}

KeptFor(i) ==
  SumFunctionOnSet([n \in Intents |-> Kept(n)], {n \in Intents : intent[n].of = i})

\* When all is quiet the rows say exactly what Vendly has at Stripe: no money
\* is taken or refunded that they do not show ...
BooksMatchStripe == Quiet => \A i \in Installments : KeptFor(i) = Paid(i)

\* ... as long as the booking has not been cancelled.
BooksMatchWhileOn == ~ Ended => BooksMatchStripe

\* The payments a deadline can wait for, all paid.
AllPaid(kind) ==
  \A i \in Installments : DueKind[i] = kind => inst[i].status = "PAID"

\* The job never cancels, for non-payment, a booking whose missed payment was
\* recorded before its claim ...
NonPaymentSparesThePaid ==
  [][~ Ended /\ Ended' /\ booking'.by = "SYSTEM" => ~ AllPaid(booking.kind)]_vars

\* ... and one that lands after it is handed back: a booking cancelled for
\* non-payment keeps nothing of the payment that was missing.
NonPaymentKeepsNothing ==
  Quiet /\ Ended /\ booking.by = "SYSTEM" =>
    \E i \in Installments : DueKind[i] # "none" /\ Paid(i) = 0

\* Money that reaches Vendly for a cancelled booking is handed back, or a row
\* says that it is kept.  (What a rental's deposit is charged for: Deposit.)
LateChargeHandedBack ==
  Quiet /\ Ended =>
    \A i \in Installments : ~ SecurityDeposit(i) => KeptFor(i) <= Paid(i)

\* A recorded payment never turns back into a failed or a scheduled one.
PaidNeverFails ==
  [][\A i \in Installments :
       inst[i].status = "PAID" => inst'[i].status \notin {"FAILED", "SCHEDULED"}]_vars

\* A booking whose missed payment was paid no longer waits for it, whatever
\* else failed or was retried meanwhile.
PaidEndsTheWait ==
  Quiet /\ booking.status = "ON" /\ booking.window # "none" => ~ AllPaid(booking.kind)

\* A hold of a cancelled booking is never captured; a rental's deposit is, by a
\* return recorded meanwhile (Deposit).
CancelledNeverCaptured ==
  [][\A n \in Intents :
       Ended /\ ~ booking.rental /\ intent[n].state = "requires_capture"
         => intent'[n].state # "succeeded"]_vars

\* Every attempt at a charge is answered: paid, failed, to be tried again, or
\* called off.
AttemptsAnswered ==
  \A i \in Installments :
    inst[i].status = "PROCESSING" ~> inst[i].status # "PROCESSING"

\* A booking past its deadline to pay is paid, given more time, or cancelled.
OverdueEnds ==
  booking.status = "ON" /\ booking.window = "over" ~>
    booking.status # "ON" \/ booking.window # "over"


----------------------------------------------------------------------------
(* Why there is one call at a time, and one charge, on a booking without   *)
(* holds whose card is saved: an inductive invariant, proved in            *)
(* Collection_proofs.                                                      *)

\* A handler that claimed an attempt owns its installment until the attempt is
\* answered; an open row is one that may be claimed, or reset and then claimed.
OwnerPlaces == {"call", "fail", "missed"}
Owns(memory, i) == memory.at \in OwnerPlaces /\ memory.i = i
OpenStatus == {"SCHEDULED", "FAILED"}
Open(i) == inst[i].status \in OpenStatus

\* The types the argument needs: numbers are not bounded, and there is no hold.
Rows ==
  [status : InstallmentStatus, attempts : Int, amount : Int, refunded : Int,
   pi : Intents \cup {Dud, None}, due : BOOLEAN, again : BOOLEAN, rows : Int]

HoldPlaces ==
  {"held", "complete", "holds", "captured", "captureFailed", "hookCanceled", "letGo"}

Handlings ==
  [at : WorkerPlaces \ HoldPlaces, i : Installments \cup {None},
   n : Intents \cup {Dud, None}, status : InstallmentStatus, attempts : Int,
   amount : Int, window : BOOLEAN, on : BOOLEAN, hold : {FALSE},
   needs : BOOLEAN, card : BOOLEAN, event : {"succeeded", "none"},
   from : Intents \cup {None}]

Succeeded ==
  [of : Installments \cup {None}, state : {"unused", "succeeded"}, taken : Int,
   back : Int, undone : Int, told : SUBSET {"succeeded"}, news : SUBSET {"succeeded"}]

\* A handler at work is at an installment; a customer's retry saw it open; an
\* event is about an intent of some installment.
Sound(memory) ==
  /\ memory.at # "idle" => memory.i \in Installments
  /\ memory.at \in {"newCard", "reset"} => memory.status \in OpenStatus
  /\ memory.event # "none" =>
       memory.from \in Intents /\ intent[memory.from].of \in Installments

IntentsSound ==
  /\ intent \in [Intents -> Succeeded]
  /\ \A n \in Intents : intent[n].told # {} \/ intent[n].news # {} => intent[n].of \in Installments

CancellingSound ==
  /\ cancelling \in [at : CancelPlaces, by : Cancellers, paid : BOOLEAN,
                    seen : [Installments -> Rows], todo : Seq(Installments), left : Int]
  /\ cancelling.at \in {"voided", "dropped", "refunded"} => cancelling.todo # <<>>

\* A charge that took the money closed its row for good: nobody may claim it or
\* owns it any more, so no second charge is made.
Charged(n) == intent[n].state = "succeeded"

ChargedOnce ==
  /\ \A n \in Intents : Charged(n) =>
       /\ intent[n].of \in Installments /\ ~ Open(intent[n].of)
       /\ \A w \in Workers : ~ Owns(work[w], intent[n].of)
  /\ \A m, n \in Intents :
       Charged(m) /\ Charged(n) /\ intent[m].of = intent[n].of => m = n

\* The inductive invariant: types, and who may charge an installment.  An owned
\* row is not open, has one owner, and one that was charged is neither
\* (chargeInstallment's claim, retryInstallment's reset, recordFailure).
IInv ==
  /\ inst \in [Installments -> Rows]
  /\ booking \in BookingRows /\ booking.card
  /\ work \in [Workers -> Handlings]
  /\ \A w \in Workers : Sound(work[w])
  /\ IntentsSound
  /\ CancellingSound
  /\ \A w \in Workers, i \in Installments : Owns(work[w], i) => ~ Open(i)
  /\ \A v, w \in Workers, i \in Installments :
       Owns(work[v], i) /\ Owns(work[w], i) => v = w
  /\ AnswersLost = FALSE => ChargedOnce
=============================================================================
