------------------------------ MODULE Charging ------------------------------
(***************************************************************************)
(* Collecting the installments of one booking by card:                     *)
(* payments.service.ts (chargeInstallment and what it calls,               *)
(* retryInstallment, the due-charges sweep, onBookingCompleted's captures  *)
(* and the Stripe webhook's reconcilePaymentIntent).                       *)
(*                                                                         *)
(* A handler runs in a worker.  Each of its database statements (or        *)
(* transactions) and each of its Stripe calls is one action; between two   *)
(* of them every other worker may run, as none of this takes a lock.       *)
(* Collection composes it with the cancellations that race it.             *)
(***************************************************************************)
EXTENDS Stripe, FiniteSets

CONSTANTS
  Workers,      \* request handlers, jobs and webhook deliveries under way
  DueKind,      \* dueKindFor: "deposit", "balance", or "none" (other plans)
  Holds,        \* the installments with capture_manually
  MaxAmount,    \* an installment's amount when the plan is made
  MaxAttempts,  \* MAX_ATTEMPTS
  CardSaved,    \* the booking has a saved card from the start
  MayBeRental,  \* whether the booking may be, or is, a rental (BOOLEANs)
  AnswersLost,  \* a charge's answer may not reach the code that records it
  Redelivery,   \* Stripe may deliver an event again
  HoldsExpire,  \* Stripe cancels a hold nobody captured (after 7 days)
  Crashes       \* servers may stop in the middle of a handler

ASSUME NoneAssumption ==
  None \notin Installments /\ None \notin Intents /\ Dud \notin Intents /\ None # Dud
ASSUME DueKindAssumption ==
  DueKind \in [Installments -> {"deposit", "balance", "none"}]
\* A plan holds the card for at most one of its charges (buildSchedule); a
\* rental's is its security deposit.
ASSUME HoldsAssumption ==
  Holds \subseteq Installments /\ \A i, j \in Holds : i = j
ASSUME BoundsAssumption ==
  MaxAmount \in Nat \ {0} /\ MaxAttempts \in Nat \ {0, 1}
ASSUME SwitchesAssumption ==
  /\ {CardSaved, AnswersLost, Redelivery, HoldsExpire, Crashes} \subseteq BOOLEAN
  /\ MayBeRental \subseteq BOOLEAN

VARIABLES
  inst,     \* bookingInstallment rows
  booking,  \* the booking row
  work      \* what each worker is doing

chargingVars == <<inst, booking, work, intent>>

----------------------------------------------------------------------------
(* State.                                                                  *)

InstallmentStatus ==
  {"SCHEDULED", "PROCESSING", "PAID", "FAILED", "CANCELLED", "REFUNDED"}

Amounts == 0..MaxAmount

\* due: due_at has passed; again: next_attempt_at has passed; rows: its
\* succeeded booking_installment rows in payment_transactions (two stand for
\* two or more).
InstallmentRows ==
  [status : InstallmentStatus, attempts : 0..MaxAttempts, amount : Amounts,
   refunded : Amounts, pi : Intents \cup {Dud, None}, due : BOOLEAN,
   again : BOOLEAN, rows : 0..2]

\* status: "ON" stands for CONFIRMED and IN_PROGRESS; window: payment_due_by
\* is null, ahead or past; kind: payment_due_kind; paid: paid_at is set; card:
\* payment_method_id is set; by: cancelled_by, where CUSTOMER stands also for
\* the vendor's "customer didn't pay", which settles the same (settlementSide);
\* settling: the settlement of its return has the money lock (Deposit).
Cancellers == {"CUSTOMER", "VENDOR", "SYSTEM"}

BookingRows ==
  [status : {"ON", "COMPLETED", "CANCELLED"}, by : Cancellers \cup {"nobody"},
   window : {"none", "open", "over"}, kind : {"deposit", "balance", "none"},
   paid : BOOLEAN, card : BOOLEAN, rental : BOOLEAN, settling : BOOLEAN]

WorkerPlaces ==
  {"idle", "read", "callOff", "claim", "call", "paid", "held", "undo",
   "handBack", "recordBack", "dropHold", "recordDrop", "complete", "holds", "capture",
   "captured", "captureFailed", "fail", "missed", "hook", "hookCanceled",
   "newCard", "reset", "letGo"}

\* What a handler remembers between its steps, as it read it: the row (status,
\* attempts, amount), an intent, whether the payment window was open and the
\* booking on, and how the charge goes: with a hold, with the card the customer
\* just chose, and whether a failure waits for the customer.
Memories ==
  [at : WorkerPlaces, i : Installments \cup {None},
   n : Intents \cup {Dud, None}, status : InstallmentStatus,
   attempts : 0..MaxAttempts, amount : Amounts, window : BOOLEAN,
   on : BOOLEAN, hold : BOOLEAN, needs : BOOLEAN, card : BOOLEAN,
   event : IntentStatus \cup {"none"}, from : Intents \cup {None}]

Idle == [at |-> "idle", i |-> None, n |-> None, status |-> "SCHEDULED",
         attempts |-> 0, amount |-> 0, window |-> FALSE, on |-> FALSE,
         hold |-> FALSE, needs |-> FALSE, card |-> FALSE, event |-> "none",
         from |-> None]

ChargingTypeOK ==
  /\ inst \in [Installments -> InstallmentRows]
  /\ booking \in BookingRows
  /\ work \in [Workers -> Memories]
  /\ intent \in [Intents -> IntentRecords(Amounts)]

FreshRow == [status |-> "SCHEDULED", attempts |-> 0, amount |-> MaxAmount,
             refunded |-> 0, pi |-> None, due |-> FALSE, again |-> FALSE,
             rows |-> 0]

\* The plan was made when the vendor accepted (scheduleForBooking); nothing of
\* it has been charged.
ChargingInit ==
  /\ inst = [i \in Installments |-> FreshRow]
  /\ \E rental \in MayBeRental :
       booking = [status |-> "ON", by |-> "nobody", window |-> "none", kind |-> "none",
                  paid |-> FALSE, card |-> CardSaved, rental |-> rental, settling |-> FALSE]
  /\ work = [w \in Workers |-> Idle]
  /\ StripeInit

\* bookingEnded (REJECTED and a full refund by dispute are not reached here).
Ended == booking.status = "CANCELLED"

\* kind SECURITY_DEPOSIT: a rental's hold, captured for a return's fees at most.
SecurityDeposit(i) == i \in Holds /\ booking.rental

\* The worker goes on at a place, or is done with its handler.
Goto(w, place) == work' = [work EXCEPT ![w].at = place]
Done(w) == work' = [work EXCEPT ![w] = Idle]

\* The charge is settled: of what it read the handler uses no more than this.
Forward(w, place) ==
  work' = [work EXCEPT ![w] =
    [Idle EXCEPT !.at = place, !.i = work[w].i, !.hold = work[w].hold,
                 !.event = work[w].event, !.from = work[w].from]]

\* The installment the worker is at, and its row.
Mine(w) == work[w].i
Row(w) == inst[work[w].i]

----------------------------------------------------------------------------
(* chargeInstallment: one attempt at an installment.                       *)

\* The sweep's WHERE (runDueCharges), and scheduleForBooking's and
\* chargeDueNow's for a first attempt.
DueNow(i) ==
  /\ inst[i].status = "SCHEDULED"
  /\ IF inst[i].attempts = 0 THEN inst[i].due ELSE inst[i].again

SelectDue(w, i) ==
  /\ work[w].at = "idle"
  /\ DueNow(i)
  /\ work' = [work EXCEPT ![w] = [Idle EXCEPT !.at = "read", !.i = i]]
  /\ UNCHANGED <<inst, booking, intent>>

\* The row was charged, called off or left to the customer since it was picked.
FindNothingToCharge(w) ==
  /\ work[w].at = "read"
  /\ Row(w).status # "SCHEDULED"
  /\ Done(w)
  /\ UNCHANGED <<inst, booking, intent>>

FindBookingEnded(w) ==
  /\ work[w].at = "read"
  /\ Row(w).status = "SCHEDULED"
  /\ Ended
  /\ Goto(w, "callOff")
  /\ UNCHANGED <<inst, booking, intent>>

\* Mutant: a deposit is charged at once when the job is complete.
HeldUnlessComplete(i) == i \in Holds /\ booking.status # "COMPLETED"

\* captureManually: on a completed job only a security deposit is still held.
CaptureManually(i) ==
  i \in Holds /\ (booking.status # "COMPLETED" \/ SecurityDeposit(i))

\* The row as read, kept for the claim, the charge and a failure.
AsRead(w, place) ==
  [work[w] EXCEPT !.at = place, !.attempts = Row(w).attempts + 1,
     !.amount = Row(w).amount, !.window = (booking.window # "none"),
     !.on = (booking.status = "ON"), !.needs = (place = "fail"),
     !.hold = CaptureManually(Mine(w))]

HasCard(w) == booking.card \/ work[w].card

ReadForCharge(w) ==
  /\ work[w].at = "read"
  /\ Row(w).status = "SCHEDULED"
  /\ ~ Ended
  /\ work' = [work EXCEPT ![w] = AsRead(w, IF HasCard(w) THEN "claim" ELSE "fail")]
  /\ UNCHANGED <<inst, booking, intent>>

\* An unconditional update: whatever the row has become meanwhile.
CallOff(w) ==
  /\ work[w].at = "callOff"
  /\ inst' = [inst EXCEPT ![Mine(w)].status = "CANCELLED"]
  /\ Done(w)
  /\ UNCHANGED <<booking, intent>>

\* The WHERE of the claim: the row is still as it was read.
\* Mutants: the claim without its attempts, and without its amount.
ClaimableAnyAttempts(w) ==
  /\ Row(w).status \in {"SCHEDULED", "PROCESSING"}
  /\ Row(w).amount = work[w].amount

ClaimableAnyAmount(w) ==
  /\ Row(w).status = "SCHEDULED"
  /\ Row(w).attempts + 1 = work[w].attempts

Claimable(w) ==
  /\ Row(w).status = "SCHEDULED"
  /\ Row(w).attempts + 1 = work[w].attempts
  /\ Row(w).amount = work[w].amount

ClaimAttempt(w) ==
  /\ work[w].at = "claim"
  /\ IF Claimable(w)
     THEN /\ inst' = [inst EXCEPT ![Mine(w)].status = "PROCESSING",
                                  ![Mine(w)].attempts = work[w].attempts]
          /\ Goto(w, "call")
     ELSE Done(w) /\ UNCHANGED inst
  /\ UNCHANGED <<booking, intent>>

\* Stripe takes (or holds) the money: StripePayment.chargeSavedCard under a key
\* no earlier attempt used.  Lost: the answer does not reach markPaid, because
\* the call times out or the record's transaction throws; both end in the same
\* catch, as a failed attempt.
ChargeSavedCard(w) ==
  /\ work[w].at = "call"
  /\ \E n \in Intents, lost \in {FALSE, AnswersLost} :
       /\ intent[n].state = "unused"
       /\ intent' = [intent EXCEPT ![n] =
            Created(Mine(w), work[w].amount,
                    IF work[w].hold THEN "requires_capture" ELSE "succeeded")]
       /\ work' = [work EXCEPT ![w] =
            [@ EXCEPT !.n = n,
               !.at = IF lost THEN "fail" ELSE IF work[w].hold THEN "held" ELSE "paid"]]
  /\ UNCHANGED <<inst, booking>>

\* Declined, refused by an error, or left to the customer by the bank
\* (NEEDS_CUSTOMER, authentication_required): no money was touched.
ChargeFails(w) ==
  /\ work[w].at = "call"
  /\ \E needs \in BOOLEAN, n \in {Dud, None} :
       work' = [work EXCEPT ![w] = [@ EXCEPT !.at = "fail", !.needs = needs, !.n = n]]
  /\ UNCHANGED <<inst, booking, intent>>

----------------------------------------------------------------------------
(* markPaid.                                                               *)

\* Mutant: paying leaves the window as it was.
WindowStaysAfterPaying(i) == [booking EXCEPT !.paid = TRUE]

\* The window closes when the payment it waits for is paid.
WindowAfterPaying(i) ==
  IF DueKind[i] # "none" /\ booking.kind = DueKind[i]
  THEN [booking EXCEPT !.paid = TRUE, !.window = "none", !.kind = "none"]
  ELSE [booking EXCEPT !.paid = TRUE]

Second(count) == IF count = 0 THEN 1 ELSE 2

RecordPayment(i, n) ==
  IF inst[i].status = "PAID" THEN UNCHANGED <<inst, booking>>
  ELSE /\ inst' = [inst EXCEPT ![i].status = "PAID", ![i].pi = n,
                               ![i].rows = Second(@), ![i].again = FALSE]
       /\ booking' = WindowAfterPaying(i)

\* The charge's answer or the webhook records the payment; then both see
\* whether the booking ended meanwhile.
MarkPaid(w) ==
  /\ work[w].at = "paid"
  /\ RecordPayment(Mine(w), work[w].n)
  /\ Forward(w, "undo")
  /\ UNCHANGED intent

\* authorizedOnly: an unconditional update.  The charge then sees whether the
\* booking ended, the webhook does not.
MarkAuthorized(w) ==
  /\ work[w].at = "held"
  /\ inst' = [inst EXCEPT ![Mine(w)].status = "PROCESSING",
                          ![Mine(w)].pi = work[w].n, ![Mine(w)].again = FALSE]
  /\ Forward(w, IF work[w].event = "none" THEN "undo" ELSE "capture")
  /\ UNCHANGED <<booking, intent>>

----------------------------------------------------------------------------
(* undoIfBookingEnded.                                                     *)

\* Where a handler goes when there is nothing (more) to undo: the charge that
\* placed a hold still looks whether the job is complete.
AfterUndo(w) ==
  IF work[w].hold /\ work[w].event = "none" THEN Forward(w, "capture") ELSE Done(w)

Left(i) == inst[i].amount - inst[i].refunded

\* Mutant: a charge that lands on an ended booking is kept.
NeverUndo(w) == TRUE

NothingToUndo(w) ==
  \/ ~ Ended
  \/ Row(w).pi = None
  \/ Row(w).status \notin {"PROCESSING", "PAID"}
  \/ Row(w).status = "PAID" /\ Left(Mine(w)) <= 0

LookForUndo(w) ==
  /\ work[w].at = "undo"
  /\ IF NothingToUndo(w) THEN AfterUndo(w)
     ELSE work' = [work EXCEPT ![w] =
            [@ EXCEPT !.at = IF Row(w).status = "PAID" THEN "handBack" ELSE "dropHold",
                      !.n = Row(w).pi, !.amount = Left(Mine(w))]]
  /\ UNCHANGED <<inst, booking, intent>>

\* The refund under the key ended-<installment>: a second call with the same
\* key gets the first answer; with another intent or amount, or more than is
\* left at Stripe, it is refused and the error is only logged.
KeyUsed(i) == \E n \in Intents : intent[n].of = i /\ intent[n].undone > 0

\* Mutant: the refund is not awaited, and is lost.
HandBackNotAwaited(w) ==
  /\ work[w].at = "handBack"
  /\ Goto(w, "recordBack")
  /\ UNCHANGED <<inst, booking, intent>>

HandBack(w) ==
  /\ work[w].at = "handBack"
  /\ LET n == work[w].n
         answered == n \in Intents /\ intent[n].undone = work[w].amount
         fresh == ~ KeyUsed(Mine(w)) /\ CanRefund(n, work[w].amount)
     IN /\ intent' = IF fresh THEN [intent EXCEPT ![n].back = @ + work[w].amount,
                                                  ![n].undone = work[w].amount]
                     ELSE intent
        /\ IF answered \/ fresh THEN Goto(w, "recordBack") ELSE AfterUndo(w)
  /\ UNCHANGED <<inst, booking>>

\* Only one of the charge and the webhook records it: the row is as read.
RecordHandedBack(w) ==
  /\ work[w].at = "recordBack"
  /\ inst' = IF Row(w).status = "PAID" /\ Left(Mine(w)) = work[w].amount
             THEN [inst EXCEPT ![Mine(w)].status = "REFUNDED",
                               ![Mine(w)].refunded = @ + work[w].amount]
             ELSE inst
  /\ AfterUndo(w)
  /\ UNCHANGED <<booking, intent>>

DropHold(w) ==
  /\ work[w].at = "dropHold"
  /\ Cancel(work[w].n)
  /\ IF CanCancel(work[w].n) THEN Goto(w, "recordDrop") ELSE AfterUndo(w)
  /\ UNCHANGED <<inst, booking>>

RecordDropped(w) ==
  /\ work[w].at = "recordDrop"
  /\ inst' = [inst EXCEPT ![Mine(w)].status = "CANCELLED"]
  /\ AfterUndo(w)
  /\ UNCHANGED <<booking, intent>>

----------------------------------------------------------------------------
(* Holds: captureIfCompleted, onBookingCompleted, captureHold.             *)

\* The booking's money lock (MoneyLock), held by completion's captures, giveBack,
\* a return's settlement and a paid booking's cancellation; the captures of a
\* charge and of the webhook do not take it.
\* Bound: its holder is done before the lease expires.
HasLock(w) ==
  \/ work[w].at = "letGo"
  \/ /\ work[w].at \in {"capture", "holds", "captured", "captureFailed"}
     /\ ~ work[w].hold /\ work[w].event = "none"
LockFree == ~ booking.settling /\ \A w \in Workers : ~ HasLock(w)

\* The vendor marks the job complete, without the lock; onBookingCompleted then
\* takes it and looks for the hold with the same condition as captureIfCompleted.
Complete(w) ==
  /\ booking.status = "ON"
  /\ booking' = [booking EXCEPT !.status = "COMPLETED"]
  /\ IF Holds = {} THEN UNCHANGED work
     ELSE /\ work[w].at = "idle"
          /\ \E i \in Holds :
               work' = [work EXCEPT ![w] = [Idle EXCEPT !.at = "complete", !.i = i]]
  /\ UNCHANGED <<inst, intent>>

OnBookingCompleted(w) ==
  /\ work[w].at = "complete"
  /\ LockFree
  /\ Goto(w, "capture")
  /\ UNCHANGED <<inst, booking, intent>>

\* Mutant: holds are captured whatever the booking's status.
HoldOfAnyBooking(w) ==
  Mine(w) \in Holds /\ Row(w).status = "PROCESSING" /\ Row(w).pi # None

HoldToCapture(w) ==
  /\ booking.status = "COMPLETED"
  /\ Mine(w) \in Holds /\ ~ SecurityDeposit(Mine(w))
  /\ Row(w).status = "PROCESSING"
  /\ Row(w).pi # None

LookForHold(w) ==
  /\ work[w].at = "capture"
  /\ IF HoldToCapture(w)
     THEN work' = [work EXCEPT ![w] =
            [@ EXCEPT !.at = "holds", !.n = Row(w).pi, !.amount = Row(w).amount]]
     ELSE Done(w)
  /\ UNCHANGED <<inst, booking, intent>>

CaptureHold(w) ==
  /\ work[w].at = "holds"
  /\ IF CanCapture(work[w].n) /\ work[w].amount > 0
     THEN Capture(work[w].n, work[w].amount) /\ Goto(w, "captured")
     ELSE UNCHANGED intent /\ Goto(w, "captureFailed")
  /\ UNCHANGED <<inst, booking>>

RecordCaptured(w) ==
  /\ work[w].at = "captured"
  /\ RecordPayment(Mine(w), work[w].n)
  /\ Done(w)
  /\ UNCHANGED intent

RecordCaptureFailed(w) ==
  /\ work[w].at = "captureFailed"
  /\ inst' = [inst EXCEPT ![Mine(w)].status = "FAILED"]
  /\ Done(w)
  /\ UNCHANGED <<booking, intent>>

----------------------------------------------------------------------------
(* recordFailure and recordMissedDeposit.                                  *)

\* dueKindFor, and stillOn of the booking as the handler read it.
MissedDeposit(w) == DueKind[Mine(w)] # "none" /\ work[w].on

\* The update of the row is by id alone: whatever it has become meanwhile.
\* Mutant: the attempt is counted but the row keeps its status.
FailedRowStays(w, status) ==
  [inst EXCEPT ![Mine(w)].attempts = work[w].attempts]

FailedRow(w, status) ==
  [inst EXCEPT ![Mine(w)].status = status,
     ![Mine(w)].attempts = work[w].attempts, ![Mine(w)].again = FALSE,
     ![Mine(w)].pi = IF work[w].n = Dud THEN Dud ELSE @]

\* Mutant: one try too many.
ExhaustedLate(w) == work[w].attempts > MaxAttempts \/ work[w].needs

Exhausted(w) == work[w].attempts >= MaxAttempts \/ work[w].needs

RecordFailure(w) ==
  /\ work[w].at = "fail"
  /\ ~ MissedDeposit(w)
  /\ inst' = FailedRow(w, IF Exhausted(w) THEN "FAILED" ELSE "SCHEDULED")
  /\ Done(w)
  /\ UNCHANGED <<booking, intent>>

\* Only the first failure starts the clock, as far as the handler knows.
StartWindow(w) ==
  /\ work[w].at = "fail"
  /\ MissedDeposit(w)
  /\ booking' = IF ~ work[w].window /\ booking.window = "none"
                THEN [booking EXCEPT !.window = "open", !.kind = DueKind[Mine(w)]]
                ELSE booking
  /\ Goto(w, "missed")
  /\ UNCHANGED <<inst, intent>>

\* One automatic retry, if it lands well before the deadline (autoRetryAt):
\* always when this failure started the clock, perhaps when an earlier one did.
RecordMissedDeposit(w) ==
  /\ work[w].at = "missed"
  /\ \E inTime \in {TRUE, ~ work[w].window} :
       inst' = FailedRow(w, IF work[w].attempts = 1 /\ ~ work[w].needs /\ inTime
                            THEN "SCHEDULED" ELSE "FAILED")
  /\ Done(w)
  /\ UNCHANGED <<booking, intent>>

----------------------------------------------------------------------------
(* retryInstallment: the customer pays, perhaps with another card.         *)

RetryInstallment(w, i) ==
  /\ work[w].at = "idle"
  /\ ~ Ended
  /\ inst[i].status \in {"FAILED", "SCHEDULED"}
  /\ \E card \in BOOLEAN :
       work' = [work EXCEPT ![w] =
         [Idle EXCEPT !.at = IF card THEN "newCard" ELSE "reset", !.i = i,
            !.status = inst[i].status, !.attempts = inst[i].attempts, !.card = card]]
  /\ UNCHANGED <<inst, booking, intent>>

SaveNewCard(w) ==
  /\ work[w].at = "newCard"
  /\ booking' = [booking EXCEPT !.card = TRUE]
  /\ Goto(w, "reset")
  /\ UNCHANGED <<inst, intent>>

\* A fresh attempt window, only while the row is as the customer saw it; 409
\* otherwise.
\* Mutant: the reset is by id alone.
AlwaysAsSeen(w) == TRUE

AsSeen(w) ==
  Row(w).status = work[w].status /\ Row(w).attempts = work[w].attempts

ResetAttempts(w) ==
  /\ work[w].at = "reset"
  /\ IF AsSeen(w)
     THEN /\ inst' = [inst EXCEPT ![Mine(w)].status = "SCHEDULED",
                         ![Mine(w)].attempts = 0, ![Mine(w)].again = FALSE]
          /\ work' = [work EXCEPT ![w] =
               [Idle EXCEPT !.at = "read", !.i = Mine(w), !.card = work[w].card]]
     ELSE Done(w) /\ UNCHANGED inst
  /\ UNCHANGED <<booking, intent>>

----------------------------------------------------------------------------
(* reconcilePaymentIntent: Stripe's events, late and in any order.         *)

\* An event is delivered until a handler answers it, and perhaps again.
Deliver(w, n) ==
  /\ work[w].at = "idle"
  /\ \E event \in IF Redelivery THEN intent[n].told ELSE intent[n].news :
       /\ work' = [work EXCEPT ![w] =
            [Idle EXCEPT !.at = "hook", !.i = intent[n].of, !.n = n,
               !.event = event, !.from = n]]
       /\ intent' = [intent EXCEPT ![n].news = @ \ {event}]
  /\ UNCHANGED <<inst, booking>>

\* What the handler does about the row as it finds it.
Reaction(event, status) ==
  CASE status \in {"PAID", "REFUNDED"} -> "idle"
    [] event = "succeeded" /\ status \notin {"PAID", "REFUNDED"} -> "paid"
    [] event = "requires_capture" /\ status \notin {"PAID", "REFUNDED", "PROCESSING"} -> "held"
    [] event = "canceled" /\ status = "PROCESSING" -> "hookCanceled"
    [] OTHER -> "idle"

Reconcile(w) ==
  /\ work[w].at = "hook"
  /\ LET place == Reaction(work[w].event, Row(w).status)
     IN IF place = "idle" THEN Done(w) ELSE Goto(w, place)
  /\ UNCHANGED <<inst, booking, intent>>

\* By id alone again, and whichever intent the row has now.
RecordCanceled(w) ==
  /\ work[w].at = "hookCanceled"
  /\ inst' = [inst EXCEPT ![Mine(w)].status = "FAILED"]
  /\ Done(w)
  /\ UNCHANGED <<booking, intent>>

----------------------------------------------------------------------------
(* giveBack lowers what is not paid yet, a card hold included but no       *)
(* security deposit; the whole amount calls it off.  Its claim (same       *)
(* status and amount as read) makes the update one step; a hold is then    *)
(* let go at Stripe.  Its refund of what is already paid is Settlement's.  *)

Lowerable(i) ==
  /\ ~ Ended
  /\ ~ SecurityDeposit(i)
  /\ \/ inst[i].status \in {"SCHEDULED", "FAILED"}
     \/ inst[i].status = "PROCESSING" /\ i \in Holds
  /\ inst[i].amount > 0

GiveBack(w, i) ==
  /\ work[w].at = "idle"
  /\ LockFree
  /\ Lowerable(i)
  /\ inst' = [inst EXCEPT ![i].amount = @ - 1,
                ![i].status = IF inst[i].amount = 1 THEN "CANCELLED" ELSE @]
  /\ IF inst[i].amount = 1 /\ inst[i].status = "PROCESSING" /\ inst[i].pi # None
     THEN work' = [work EXCEPT ![w] =
            [Idle EXCEPT !.at = "letGo", !.i = i, !.n = inst[i].pi]]
     ELSE UNCHANGED work
  /\ UNCHANGED <<booking, intent>>

LetGoOfHold(w) ==
  /\ work[w].at = "letGo"
  /\ Cancel(work[w].n)
  /\ Done(w)
  /\ UNCHANGED <<inst, booking>>

----------------------------------------------------------------------------
(* Time and failures.                                                      *)

\* Bound: dates hours apart do not pass while a handler, which takes seconds,
\* is at work.
Resting == ~ booking.settling /\ \A w \in Workers : work[w].at = "idle"

DueDatePasses(i) ==
  /\ Resting
  /\ ~ inst[i].due
  /\ inst' = [inst EXCEPT ![i].due = TRUE]
  /\ UNCHANGED <<booking, work, intent>>

RetryDatePasses(i) ==
  /\ Resting
  /\ inst[i].status = "SCHEDULED" /\ inst[i].attempts > 0 /\ ~ inst[i].again
  /\ inst' = [inst EXCEPT ![i].again = TRUE]
  /\ UNCHANGED <<booking, work, intent>>

DeadlinePasses ==
  /\ Resting
  /\ booking.window = "open"
  /\ booking' = [booking EXCEPT !.window = "over"]
  /\ UNCHANGED <<inst, work, intent>>

HoldExpires(n) ==
  /\ HoldsExpire
  /\ Resting
  /\ intent[n].state = "requires_capture"
  /\ Cancel(n)
  /\ UNCHANGED <<inst, booking, work>>

\* The server stops: an event it was working on is sent again.
Crash(w) ==
  /\ Crashes
  /\ work[w].at # "idle"
  /\ Done(w)
  /\ intent' = IF work[w].event = "none" THEN intent
               ELSE [intent EXCEPT ![work[w].from].news = @ \cup {work[w].event}]
  /\ UNCHANGED <<inst, booking>>

----------------------------------------------------------------------------
\* A handler's own next step.
Step(w) ==
  \/ FindNothingToCharge(w) \/ FindBookingEnded(w) \/ ReadForCharge(w)
  \/ CallOff(w) \/ ClaimAttempt(w) \/ ChargeSavedCard(w) \/ ChargeFails(w)
  \/ MarkPaid(w) \/ MarkAuthorized(w) \/ LookForUndo(w) \/ HandBack(w)
  \/ RecordHandedBack(w) \/ DropHold(w) \/ RecordDropped(w)
  \/ OnBookingCompleted(w) \/ LookForHold(w)
  \/ CaptureHold(w) \/ RecordCaptured(w) \/ RecordCaptureFailed(w)
  \/ RecordFailure(w) \/ StartWindow(w) \/ RecordMissedDeposit(w)
  \/ SaveNewCard(w) \/ ResetAttempts(w) \/ Reconcile(w) \/ RecordCanceled(w)
  \/ LetGoOfHold(w)

\* What starts a handler.
Begin(w) ==
  \/ \E i \in Installments : SelectDue(w, i) \/ RetryInstallment(w, i) \/ GiveBack(w, i)
  \/ \E n \in Intents : Deliver(w, n)
  \/ Complete(w)

Surroundings ==
  \/ \E i \in Installments : DueDatePasses(i) \/ RetryDatePasses(i)
  \/ \E n \in Intents : HoldExpires(n)
  \/ DeadlinePasses
=============================================================================
