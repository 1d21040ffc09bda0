------------------------------- MODULE Deposit -------------------------------
(***************************************************************************)
(* The security deposit of a rental: a hold on the card that the charges   *)
(* of Charging place and a cancellation (Collection) lets go of, and that  *)
(* the return of the rental settles (recordReturn in rentals.service.ts,   *)
(* settleSecurityDepositLocked in payments.service.ts).                    *)
(*                                                                         *)
(* The settlement has the booking's money lock, which no charge, retry or  *)
(* webhook takes: each of its statements and Stripe calls is a step, and   *)
(* theirs fall between them.                                               *)
(***************************************************************************)
EXTENDS Collection

CONSTANTS
  Fees,              \* damage and late fees of a return
  SettlementBreaks   \* a step of the settlement may fail or go unanswered

ASSUME DepositAssumption ==
  Fees \subseteq Nat /\ SettlementBreaks \in BOOLEAN

VARIABLE return  \* the rentalReturn row, and how far its settlement is

depositVars == <<vars, return>>

\* The rental's security deposit, if it has one.
deposit == CHOOSE i \in Holds : TRUE

ReturnPlaces ==
  {"none", "recorded", "capture", "relabel", "mark", "drop", "void",
   "recordVoid", "callOff", "ask", "done", "stopped"}

\* fees: what the return row says; n, take: the hold as read and what to capture
\* of it; kept: captured_from_deposit; asked: the fee request sent to the customer.
\* Of the past: trouble, whether Stripe did not do what it was asked ("refused")
\* or did it and the settlement does not know ("lost"); alone, whether the
\* settlement found the deposit at rest and nobody came to it meanwhile.
NoReturn == [at |-> "none", fees |-> 0, n |-> None, take |-> 0, kept |-> 0,
             asked |-> 0, trouble |-> "none", alone |-> TRUE]

DepositInit == Init /\ return = NoReturn

----------------------------------------------------------------------------
(* recordReturn.                                                           *)

\* rentalReturn.booking_id is unique: another desk's transaction fails.
NotRecorded == return.at = "none"

\* That the booking is not cancelled was checked before the photos were stored:
\* by now it may be.
RecordReturn ==
  /\ booking.rental
  /\ NotRecorded
  /\ \E fees \in Fees : return' = [return EXCEPT !.at = "recorded", !.fees = fees]
  /\ UNCHANGED vars

----------------------------------------------------------------------------
(* settleSecurityDepositLocked.                                            *)

CancellationHasLock ==
  cancelling.paid /\ ~ \E place \in {"idle", "overdue", "load", "claim", "terms"} : At(place)

\* Nobody is at the deposit, no event about it is on its way, and a hold on the
\* card is the one the row names.
AtRest ==
  /\ \A w \in Workers : Mine(w) \notin Holds
  /\ \A n \in Intents : intent[n].of \in Holds =>
       /\ intent[n].news = {}
       /\ intent[n].state = "requires_capture" =>
            inst[deposit].status = "PROCESSING" /\ inst[deposit].pi = n

Settling(place) == return.at = place

\* To the next statement; others may come to the deposit meanwhile.
SettleGoto(place) == return' = [return EXCEPT !.at = place]

UnlessHeld ==
  IF \E i \in Holds : inst[i].status \in {"SCHEDULED", "FAILED"} THEN "callOff" ELSE "ask"

\* The lock is taken, and the row read.  A charge in flight has no intent yet,
\* or still that of an earlier attempt.
LookAtDeposit ==
  /\ Settling("recorded")
  /\ LockFree /\ ~ CancellationHasLock
  /\ LET held == \E i \in Holds : inst[i].status = "PROCESSING" /\ inst[i].pi # None
         take == SmallerOf(return.fees, inst[deposit].amount)
     IN return' =
          IF held
          THEN [return EXCEPT !.at = IF take > 0 THEN "capture" ELSE "void",
                              !.n = inst[deposit].pi, !.take = take, !.alone = AtRest]
          ELSE [return EXCEPT !.at = UnlessHeld, !.alone = AtRest]
  /\ booking' = [booking EXCEPT !.settling = TRUE]
  /\ UNCHANGED <<inst, work, intent, cancelling>>

\* The capture under the key deposit-<installment>.  Any error ends in the catch,
\* also when Stripe made the capture.
CaptureDeposit ==
  /\ Settling("capture")
  /\ \/ /\ CanCapture(return.n)
        /\ Capture(return.n, return.take)
        /\ \E answered \in {TRUE, ~ SettlementBreaks} :
             return' = [return EXCEPT !.at = IF answered THEN "relabel" ELSE "drop",
                                      !.trouble = IF answered THEN @ ELSE "lost"]
     \/ /\ ~ CanCapture(return.n) \/ SettlementBreaks
        /\ return' = [return EXCEPT !.at = "drop",
                                    !.trouble = IF CanCapture(return.n) THEN "refused" ELSE @]
        /\ UNCHANGED intent
  /\ UNCHANGED <<inst, booking, work, cancelling>>

\* The database fails after the capture: the same catch.
RecordFails ==
  /\ SettlementBreaks
  /\ Settling("relabel") \/ Settling("mark")
  /\ return' = [return EXCEPT !.at = "drop", !.trouble = "lost"]
  /\ UNCHANGED vars

\* "Security deposit (kept for fees)": the row's amount becomes what is kept.
RelabelDeposit ==
  /\ Settling("relabel")
  /\ inst' = [inst EXCEPT ![deposit].amount = return.take]
  /\ SettleGoto("mark")
  /\ UNCHANGED <<booking, work, intent, cancelling>>

MarkDepositPaid ==
  /\ Settling("mark")
  /\ RecordPayment(deposit, return.n)
  /\ return' = [return EXCEPT !.at = "ask", !.kept = return.take]
  /\ UNCHANGED <<work, intent, cancelling>>

\* By id alone, wherever the settlement comes from.
CallOffDeposit ==
  /\ Settling("drop") \/ Settling("recordVoid") \/ Settling("callOff")
  /\ inst' = [inst EXCEPT ![deposit].status = "CANCELLED"]
  /\ SettleGoto("ask")
  /\ UNCHANGED <<booking, work, intent, cancelling>>

\* No fees: the hold is let go; an error is only logged.
VoidDeposit ==
  /\ Settling("void")
  /\ \/ Cancel(return.n) /\ SettleGoto("recordVoid")
     \/ /\ SettlementBreaks
        /\ return' = [return EXCEPT !.at = "recordVoid", !.trouble = "refused"]
        /\ UNCHANGED intent
  /\ UNCHANGED <<inst, booking, work, cancelling>>

\* What the deposit did not cover is asked of the customer; the lock is free.
AskForRest ==
  /\ Settling("ask")
  /\ return' = [return EXCEPT !.at = "done", !.asked = return.fees - return.kept]
  /\ booking' = [booking EXCEPT !.settling = FALSE]
  /\ UNCHANGED <<inst, work, intent, cancelling>>

\* The server stops, or the lock is never had: nothing resumes the settlement.
SettlementStops ==
  /\ SettlementBreaks
  /\ return.at \notin {"none", "done", "stopped"}
  /\ SettleGoto("stopped")
  /\ booking' = [booking EXCEPT !.settling = FALSE]
  /\ UNCHANGED <<inst, work, intent, cancelling>>

----------------------------------------------------------------------------

SettleStep ==
  \/ LookAtDeposit \/ CaptureDeposit \/ RecordFails \/ RelabelDeposit
  \/ MarkDepositPaid \/ CallOffDeposit \/ VoidDeposit \/ AskForRest
  \/ SettlementStops

\* The rest of the booking goes on; the settlement remembers who came to the
\* deposit while it had the lock.
Meanwhile ==
  /\ Next
  /\ return' = [return EXCEPT !.alone =
                  @ /\ (booking.settling => \A w \in Workers : work'[w].i \notin Holds)]

DepositNext ==
  \/ Meanwhile
  \/ RecordReturn
  \/ SettleStep

DepositSpec == DepositInit /\ [][DepositNext]_depositVars

----------------------------------------------------------------------------
(* Properties.                                                             *)

\* The intents of the deposit that were captured.
Captured == {n \in Intents : intent[n].of \in Holds /\ intent[n].state = "succeeded"}

\* The deposit of a rental is captured for the fees of its one recorded return
\* and for no more, whoever charges, retries, completes or cancels meanwhile; and
\* what is captured and what the customer is asked for make up the fees, once,
\* unless the capture was made and the settlement does not know.
FeesTakenOnce ==
  booking.rental =>
    /\ \A m, n \in Captured : m = n
    /\ \A n \in Captured :
         /\ return.at # "none" /\ intent[n].taken <= return.fees
         /\ return.trouble # "lost" => intent[n].taken + return.asked <= return.fees
    /\ return.at = "done" /\ return.trouble # "lost" =>
         return.asked = return.fees - (IF Captured = {} THEN 0 ELSE return.take)

=============================================================================
