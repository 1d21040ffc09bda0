-------------------------- MODULE Collection_proofs --------------------------
(***************************************************************************)
(* One call at a time, and no double charge, for any number of installments,*)
(* handlers, intents and retries, with repeated events and crashes, on a   *)
(* booking that has a saved card and no card hold.  Both conditions are    *)
(* needed: with CardSaved = FALSE, or with a hold, TLC finds two calls.  The*)
(* second theorem also needs that no answer of Stripe is lost.             *)
(* Then, for every booking: a cancelled booking's hold is never captured,  *)
(* and a rental's deposit is taken for the fees of its return, once        *)
(* (Deposit).  Books_proofs goes on with what rows and Stripe say.         *)
(***************************************************************************)
EXTENDS Deposit, FiniteSetTheorems, TLAPS

\* The bookings the theorems are about.
PlainBooking == Holds = {} /\ CardSaved = TRUE

\* At the start nothing is under way.
LEMMA InitIInv == ASSUME PlainBooking, Init PROVE IInv
<1> USE NoneAssumption, BoundsAssumption, FiniteAssumption
<1>1. FreshRow \in Rows
  BY DEF FreshRow, Rows, InstallmentStatus
<1>2. inst \in [Installments -> Rows]
  BY <1>1 DEF Init, ChargingInit
<1>3. booking \in BookingRows /\ booking.card
  <2>1. PICK rental \in MayBeRental :
          booking = [status |-> "ON", by |-> "nobody", window |-> "none", kind |-> "none",
                     paid |-> FALSE, card |-> CardSaved, rental |-> rental, settling |-> FALSE]
    BY DEF Init, ChargingInit
  <2>2. rental \in BOOLEAN
    BY SwitchesAssumption
  <2>3. QED BY <2>1, <2>2 DEF BookingRows, PlainBooking
<1>4. Idle \in Handlings /\ Sound(Idle) /\ Idle.at = "idle"
  BY DEF Idle, Handlings, Sound, WorkerPlaces, HoldPlaces, InstallmentStatus
<1>5. work \in [Workers -> Handlings] /\ \A w \in Workers : work[w] = Idle
  BY <1>4 DEF Init, ChargingInit
<1>6. IntentsSound
  BY DEF Init, ChargingInit, StripeInit, IntentsSound, Succeeded, Unused
<1>7. CancellingSound
  BY <1>1 DEF Init, NoCancellation, CancellingSound, CancelPlaces, Cancellers
<1>8. ChargedOnce
  BY DEF Init, ChargingInit, StripeInit, Unused, ChargedOnce, Charged
<1>9. QED
  BY <1>2, <1>3, <1>4, <1>5, <1>6, <1>7, <1>8 DEF IInv, Owns, OwnerPlaces

----------------------------------------------------------------------------
(* What a handler's step must respect.                                     *)

\* Intents keep their installments, and the step charges none.
IntentsKept ==
  \A n \in Intents :
    /\ intent[n].of \in Installments => intent'[n].of \in Installments
    /\ Charged(n)' => Charged(n) /\ intent'[n].of = intent[n].of

\* A step that charges nothing, makes no row open but its owner's and no handler
\* the owner of a row that was not open leaves what is charged closed.
LEMMA StillChargedOnce ==
  ASSUME IntentsKept, ChargedOnce,
         \A i \in Installments : Open(i)' => Open(i) \/ \E w \in Workers : Owns(work[w], i),
         \A w \in Workers, i \in Installments : Owns(work[w], i)' => Owns(work[w], i) \/ Open(i)
  PROVE  ChargedOnce'
<1>1. ASSUME NEW n \in Intents, Charged(n)'
      PROVE  /\ Charged(n) /\ intent'[n].of = intent[n].of
             /\ intent[n].of \in Installments /\ ~ Open(intent[n].of)'
             /\ \A w \in Workers : ~ Owns(work[w], intent[n].of)'
  <2>1. Charged(n) /\ intent'[n].of = intent[n].of
    BY <1>1 DEF IntentsKept
  <2>2. /\ intent[n].of \in Installments /\ ~ Open(intent[n].of)
        /\ \A w \in Workers : ~ Owns(work[w], intent[n].of)
    BY <2>1 DEF ChargedOnce
  <2>3. QED BY <2>1, <2>2
<1>2. QED BY <1>1 DEF ChargedOnce

\* A handler may open a row only if it owned it, and may then not go on as its
\* owner; it becomes no new owner.
LEMMA AnyHandlerStep ==
  ASSUME IInv, NEW w \in Workers, NEW m \in Handlings, Sound(m),
         work' = [work EXCEPT ![w] = m],
         inst' \in [Installments -> Rows],
         booking' \in BookingRows, booking'.card, IntentsSound',
         \A n \in Intents : intent[n].of \in Installments => intent'[n].of \in Installments,
         AnswersLost = FALSE => ChargedOnce' \/ IntentsKept,
         UNCHANGED cancelling,
         \A i \in Installments : Open(i)' => Open(i) \/ Owns(work[w], i),
         \A i \in Installments : Owns(m, i) => Owns(work[w], i) /\ ~ Open(i)'
  PROVE  IInv'
<1>1. work' \in [Workers -> Handlings] /\ \A v \in Workers : work'[v] = IF v = w THEN m ELSE work[v]
  BY DEF IInv
<1>2. \A v \in Workers : Sound(work[v])'
  BY <1>1 DEF IInv, Sound
<1>3. ASSUME NEW v \in Workers, NEW i \in Installments, Owns(work'[v], i)
      PROVE  Owns(work[v], i) /\ ~ Open(i)'
  <2>1. CASE v = w
    BY <1>1, <1>3, <2>1
  <2>2. CASE v # w
    <3>1. Owns(work[v], i)
      BY <1>1, <1>3, <2>2
    <3>2. ~ Open(i) /\ ~ Owns(work[w], i)
      BY <2>2, <3>1 DEF IInv
    <3>3. QED BY <3>1, <3>2
  <2>3. QED BY <2>1, <2>2
<1>4. \A v \in Workers, i \in Installments : Owns(work'[v], i) => ~ Open(i)'
  BY <1>3
<1>5. \A v, u \in Workers, i \in Installments : Owns(work'[v], i) /\ Owns(work'[u], i) => v = u
  BY <1>3 DEF IInv
<1>6. CancellingSound'
  BY DEF IInv, CancellingSound
<1>7. (\A v \in Workers, i \in Installments : Owns(work[v], i) => ~ Open(i))'
  BY <1>4 DEF Owns
<1>8. (\A v, u \in Workers, i \in Installments : Owns(work[v], i) /\ Owns(work[u], i) => v = u)'
  BY <1>5 DEF Owns
<1>9. ASSUME AnswersLost = FALSE PROVE ChargedOnce'
  <2>1. \A v \in Workers, i \in Installments : Owns(work[v], i)' => Owns(work[v], i) \/ Open(i)
    BY <1>3 DEF Owns
  <2>2. QED BY <1>9, <2>1, StillChargedOnce DEF IInv
<1>10. QED BY <1>1, <1>2, <1>6, <1>7, <1>8, <1>9 DEF IInv

\* The same for a step that charges nothing.
LEMMA HandlerStep ==
  ASSUME IInv, NEW w \in Workers, NEW m \in Handlings, Sound(m),
         work' = [work EXCEPT ![w] = m],
         inst' \in [Installments -> Rows],
         booking' \in BookingRows, booking'.card, IntentsSound', IntentsKept,
         UNCHANGED cancelling,
         \A i \in Installments : Open(i)' => Open(i) \/ Owns(work[w], i),
         \A i \in Installments : Owns(m, i) => Owns(work[w], i) /\ ~ Open(i)'
  PROVE  IInv'
<1>1. \A n \in Intents : intent[n].of \in Installments => intent'[n].of \in Installments
  BY DEF IntentsKept
<1>2. QED BY <1>1, AnyHandlerStep

\* Intents that did not change are as sound as they were.
LEMMA SameIntents ==
  ASSUME IInv, UNCHANGED intent
  PROVE  IntentsSound' /\ IntentsKept
BY DEF IInv, IntentsSound, IntentsKept, Charged

\* The same for a step of a handler that changes nothing else.
LEMMA ThinkingStep ==
  ASSUME IInv, NEW w \in Workers, NEW m \in Handlings, Sound(m),
         work' = [work EXCEPT ![w] = m], UNCHANGED <<inst, booking, intent, cancelling>>,
         \A i \in Installments : Owns(m, i) => Owns(work[w], i)
  PROVE  IInv'
<1>1. IntentsSound' /\ IntentsKept
  BY DEF IInv, IntentsSound, IntentsKept, Charged
<1>2. \A i \in Installments : Open(i)' <=> Open(i)
  BY DEF Open
<1>3. QED BY <1>1, <1>2, HandlerStep DEF IInv

\* A step of the environment or of the cancellation opens no row.
LEMMA OtherStep ==
  ASSUME IInv, UNCHANGED work, inst' \in [Installments -> Rows],
         booking' \in BookingRows, booking'.card, IntentsSound', CancellingSound',
         IntentsKept,
         \A i \in Installments : Open(i)' => Open(i)
  PROVE  IInv'
<1>1. \A w \in Workers : Sound(work[w])'
  BY DEF IInv, Sound, IntentsKept
<1>2. (\A w \in Workers, i \in Installments : Owns(work[w], i) => ~ Open(i))'
  BY DEF IInv
<1>3. (\A v, w \in Workers, i \in Installments : Owns(work[v], i) /\ Owns(work[w], i) => v = w)'
  BY DEF IInv
<1>4. ASSUME AnswersLost = FALSE PROVE ChargedOnce'
  <2>1. \A w \in Workers, i \in Installments : Owns(work[w], i)' => Owns(work[w], i)
    BY DEF Owns
  <2>2. QED BY <1>4, <2>1, StillChargedOnce DEF IInv
<1>5. QED BY <1>1, <1>2, <1>3, <1>4 DEF IInv

\* A handler at work knows its installment and has no hold.
LEMMA AtWork ==
  ASSUME IInv, NEW w \in Workers, work[w].at # "idle"
  PROVE  /\ work[w] \in Handlings /\ Sound(work[w]) /\ work[w].hold = FALSE
         /\ work[w].at \notin HoldPlaces
         /\ work[w].i \in Installments /\ Mine(w) = work[w].i
         /\ Row(w) = inst[work[w].i] /\ Row(w) \in Rows
BY DEF IInv, Sound, Handlings, Mine, Row

\* The handler is done, or goes on at a place that is no owner's.
LEMMA IdleHandling ==
  /\ Idle \in Handlings /\ Sound(Idle) /\ Idle.event = "none"
  /\ \A i : ~ Owns(Idle, i)
BY NoneAssumption
   DEF Idle, Handlings, Sound, WorkerPlaces, HoldPlaces, InstallmentStatus, Owns, OwnerPlaces

\* A handler that goes on at a place keeps its type and what it knows.
LEMMA GotoHandling ==
  ASSUME IInv, NEW w \in Workers, NEW p \in WorkerPlaces \ HoldPlaces,
         work[w].at # "idle", p \notin {"newCard", "reset"}
  PROVE  LET m == [work[w] EXCEPT !.at = p]
         IN /\ m \in Handlings /\ Sound(m)
            /\ m.at = p /\ m.i = work[w].i
            /\ Goto(w, p) => work' = [work EXCEPT ![w] = m]
<1>1. work[w] \in Handlings
  BY DEF IInv
<1>2. [work[w] EXCEPT !.at = p] \in Handlings
  BY <1>1 DEF Handlings
<1>3. Sound([work[w] EXCEPT !.at = p])
  BY <1>1 DEF IInv, Sound, Handlings
<1>4. Goto(w, p) => work' = [work EXCEPT ![w] = [work[w] EXCEPT !.at = p]]
  BY DEF Goto, IInv
<1>5. QED BY <1>1, <1>2, <1>3, <1>4 DEF Handlings

\* A handler that ends leaves everything else alone.
LEMMA DoneStep ==
  ASSUME IInv, NEW w \in Workers, Done(w), UNCHANGED <<inst, booking, intent, cancelling>>
  PROVE  IInv'
BY IdleHandling, ThinkingStep DEF Done

\* A handler that goes on at a place, an owner's only if it was one.
LEMMA GotoStep ==
  ASSUME IInv, NEW w \in Workers, NEW p \in WorkerPlaces \ HoldPlaces,
         work[w].at # "idle", p \notin {"newCard", "reset"}, Goto(w, p),
         p \in OwnerPlaces => work[w].at \in OwnerPlaces,
         UNCHANGED <<inst, booking, intent, cancelling>>
  PROVE  IInv'
<1> DEFINE m == [work[w] EXCEPT !.at = p]
<1>1. m \in Handlings /\ Sound(m) /\ m.at = p /\ m.i = work[w].i /\ work' = [work EXCEPT ![w] = m]
  BY GotoHandling
<1>2. \A i \in Installments : Owns(m, i) => Owns(work[w], i)
  BY <1>1 DEF Owns
<1> HIDE DEF m
<1>3. QED BY <1>1, <1>2, ThinkingStep

\* A change of one row that keeps its type.
LEMMA RowUpdate ==
  ASSUME inst \in [Installments -> Rows], NEW i \in Installments, NEW r \in Rows,
         inst' = [inst EXCEPT ![i] = r]
  PROVE  /\ inst' \in [Installments -> Rows]
         /\ \A j \in Installments : inst'[j] = IF j = i THEN r ELSE inst[j]
OBVIOUS

----------------------------------------------------------------------------
(* chargeInstallment.                                                      *)

\* Picking an installment and reading it (runDueCharges, chargeInstallment).
LEMMA ReadingSteps ==
  ASSUME PlainBooking, IInv, NEW w \in Workers, UNCHANGED cancelling,
         \/ \E i \in Installments : SelectDue(w, i)
         \/ FindNothingToCharge(w)
         \/ FindBookingEnded(w)
         \/ ReadForCharge(w)
  PROVE  IInv'
<1>1. ASSUME NEW i \in Installments, SelectDue(w, i) PROVE IInv'
  <2> DEFINE m == [Idle EXCEPT !.at = "read", !.i = i]
  <2>2. "read" \in WorkerPlaces \ HoldPlaces /\ "read" \notin OwnerPlaces
    BY DEF WorkerPlaces, HoldPlaces, OwnerPlaces
  <2>4. m \in Handlings /\ m.at = "read" /\ m.i = i /\ m.event = "none"
    BY <2>2, IdleHandling DEF Handlings
  <2>5. work' = [work EXCEPT ![w] = m]
    BY <1>1 DEF SelectDue, m
  <2> HIDE DEF m
  <2>6. Sound(m) /\ \A j \in Installments : ~ Owns(m, j)
    BY <2>2, <2>4 DEF Sound, Owns
  <2>7. QED BY <1>1, <2>4, <2>5, <2>6, ThinkingStep DEF SelectDue
<1>2. CASE FindNothingToCharge(w)
  BY <1>2, DoneStep DEF FindNothingToCharge
<1>3. CASE FindBookingEnded(w)
  <2>1. "callOff" \in WorkerPlaces \ HoldPlaces
    BY DEF WorkerPlaces, HoldPlaces
  <2>2. QED BY <1>3, <2>1, GotoStep DEF FindBookingEnded, OwnerPlaces
<1>4. CASE ReadForCharge(w)
  <2> DEFINE m == AsRead(w, "claim")
  <2>1. HasCard(w)
    BY DEF HasCard, IInv
  <2>2. work' = [work EXCEPT ![w] = m]
    BY <1>4, <2>1 DEF ReadForCharge
  <2>3. work[w] \in Handlings /\ work[w].at = "read" /\ Sound(work[w])
    BY <1>4 DEF ReadForCharge, IInv
  <2>4. Row(w) \in Rows
    BY <2>3 DEF Row, Sound, IInv
  <2>5. m \in Handlings /\ m.at = "claim" /\ m.i = work[w].i /\ m.event = work[w].event
          /\ m.from = work[w].from
    <3>1. PICK a \in BOOLEAN : a = (booking.window # "none")
      OBVIOUS
    <3>2. PICK b \in BOOLEAN : b = (booking.status = "ON")
      OBVIOUS
    <3>3. CaptureManually(Mine(w)) = FALSE
      BY DEF CaptureManually, PlainBooking
    <3>4. ("claim" = "fail") = FALSE
      OBVIOUS
    <3>5. m = [work[w] EXCEPT !.at = "claim", !.attempts = Row(w).attempts + 1,
                 !.amount = Row(w).amount, !.window = a, !.on = b, !.needs = FALSE,
                 !.hold = FALSE]
      BY <3>1, <3>2, <3>3, <3>4 DEF AsRead
    <3>6. Row(w).attempts + 1 \in Int /\ Row(w).amount \in Int
      BY <2>4 DEF Rows
    <3>7. "claim" \in WorkerPlaces \ HoldPlaces
      BY DEF WorkerPlaces, HoldPlaces
    <3> HIDE DEF m
    <3>8. QED BY <2>3, <3>5, <3>6, <3>7 DEF Handlings
  <2>6. Sound(m)
    BY <2>3, <2>5 DEF Sound
  <2>7. \A j \in Installments : ~ Owns(m, j)
    BY <2>5 DEF Owns, OwnerPlaces
  <2> HIDE DEF m
  <2>8. QED BY <1>4, <2>2, <2>5, <2>6, <2>7, ThinkingStep DEF ReadForCharge
<1>5. QED BY <1>1, <1>2, <1>3, <1>4

\* A row of an ended booking is called off by id alone: it is not open then.
LEMMA CallOffStep ==
  ASSUME IInv, NEW w \in Workers, CallOff(w), UNCHANGED cancelling
  PROVE  IInv'
<1> DEFINE i == work[w].i
           r == [inst[i] EXCEPT !.status = "CANCELLED"]
<1>1. i \in Installments /\ inst[i] \in Rows /\ work[w].at = "callOff"
  BY DEF CallOff, IInv, Sound
<1>2. r \in Rows /\ r.status = "CANCELLED"
  BY <1>1 DEF Rows, InstallmentStatus
<1>3. inst' = [inst EXCEPT ![i] = r]
  BY DEF CallOff, Mine, IInv
<1> HIDE DEF i, r
<1>4. inst' \in [Installments -> Rows] /\ \A j \in Installments : inst'[j] = IF j = i THEN r ELSE inst[j]
  BY <1>1, <1>2, <1>3, RowUpdate DEF IInv
<1>5. \A j \in Installments : Open(j)' => Open(j)
  BY <1>2, <1>4 DEF Open, OpenStatus
<1>6. IntentsSound' /\ IntentsKept
  BY SameIntents DEF CallOff
<1>7. QED BY <1>4, <1>5, <1>6, IdleHandling, HandlerStep DEF CallOff, Done, IInv

\* The claim is the only step by which a handler comes to own its installment.
LEMMA ClaimStep ==
  ASSUME IInv, NEW w \in Workers, ClaimAttempt(w), UNCHANGED cancelling
  PROVE  IInv'
<1> DEFINE i == work[w].i
           r == [inst[i] EXCEPT !.status = "PROCESSING", !.attempts = work[w].attempts]
           m == [work[w] EXCEPT !.at = "call"]
<1>1. i \in Installments /\ inst[i] \in Rows /\ work[w].at = "claim" /\ work[w] \in Handlings
  BY DEF ClaimAttempt, IInv, Sound
<1>2. CASE Claimable(w)
  <2>1. r \in Rows /\ r.status = "PROCESSING"
    BY <1>1 DEF Rows, Handlings, InstallmentStatus
  <2>2. inst' = [inst EXCEPT ![i] = r]
    BY <1>2 DEF ClaimAttempt, Mine, IInv
  <2>3. Open(i) /\ inst[i].status = "SCHEDULED"
    BY <1>2 DEF Claimable, Row, Open, OpenStatus
  <2>4. "call" \in WorkerPlaces \ HoldPlaces
    BY DEF WorkerPlaces, HoldPlaces
  <2>5. m \in Handlings /\ Sound(m) /\ m.at = "call" /\ m.i = i /\ work' = [work EXCEPT ![w] = m]
    BY <1>1, <1>2, <2>4, GotoHandling DEF ClaimAttempt
  <2> HIDE DEF i, r, m
  <2>6. inst' \in [Installments -> Rows] /\ \A j \in Installments : inst'[j] = IF j = i THEN r ELSE inst[j]
    BY <1>1, <2>1, <2>2, RowUpdate DEF IInv
  <2>7. work' \in [Workers -> Handlings] /\ \A v \in Workers : work'[v] = IF v = w THEN m ELSE work[v]
    BY <2>5 DEF IInv
  <2>8. \A v \in Workers : ~ Owns(work[v], i)
    BY <1>1, <2>3 DEF IInv
  <2>9. ASSUME NEW v \in Workers, NEW j \in Installments, Owns(work'[v], j)
        PROVE  /\ inst'[j].status \notin OpenStatus
               /\ v = w <=> j = i
    <3>1. CASE v = w
      BY <2>1, <2>5, <2>6, <2>7, <2>9, <3>1 DEF Owns, OpenStatus
    <3>2. CASE v # w
      <4>1. Owns(work[v], j)
        BY <2>7, <2>9, <3>2
      <4>2. j # i /\ ~ Open(j)
        BY <2>8, <4>1 DEF IInv
      <4>3. QED BY <2>6, <3>2, <4>2 DEF Open
    <3>3. QED BY <3>1, <3>2
  <2>10. (\A v \in Workers, j \in Installments : Owns(work[v], j) => ~ Open(j))'
    BY <2>9 DEF Open
  <2>11. ASSUME NEW v \in Workers, NEW u \in Workers, NEW j \in Installments,
                Owns(work'[v], j), Owns(work'[u], j)
         PROVE  v = u
    <3>1. CASE j = i
      BY <2>9, <2>11, <3>1
    <3>2. CASE j # i
      BY <2>7, <2>9, <2>11, <3>2 DEF IInv
    <3>3. QED BY <3>1, <3>2
  <2>12. \A v \in Workers : Sound(work[v])'
    BY <2>5, <2>7 DEF IInv, Sound, ClaimAttempt
  <2>13. IntentsSound' /\ CancellingSound'
    BY DEF ClaimAttempt, IInv, IntentsSound, CancellingSound
  <2>14. booking' \in BookingRows /\ booking'.card
    BY DEF ClaimAttempt, IInv
  <2>15. (\A v, u \in Workers, j \in Installments : Owns(work[v], j) /\ Owns(work[u], j) => v = u)'
    BY <2>11
  <2>16. ASSUME AnswersLost = FALSE PROVE ChargedOnce'
    <3>1. IntentsKept
      BY SameIntents DEF ClaimAttempt
    <3>2. \A j \in Installments : Open(j)' => Open(j)
      BY <2>1, <2>6 DEF Open, OpenStatus
    <3>3. \A v \in Workers, j \in Installments : Owns(work[v], j)' => Owns(work[v], j) \/ Open(j)
      <4>1. ASSUME NEW v \in Workers, NEW j \in Installments, Owns(work'[v], j)
            PROVE  Owns(work[v], j) \/ Open(j)
        BY <2>3, <2>7, <2>9, <4>1
      <4>2. QED BY <4>1 DEF Owns
    <3>4. QED BY <2>16, <3>1, <3>2, <3>3, StillChargedOnce DEF IInv
  <2>17. QED BY <2>6, <2>7, <2>10, <2>12, <2>13, <2>14, <2>15, <2>16 DEF IInv
<1>3. CASE ~ Claimable(w)
  BY <1>3, DoneStep DEF ClaimAttempt
<1>4. QED BY <1>2, <1>3

----------------------------------------------------------------------------
(* The charge and what is recorded of it.                                  *)

\* A handler that is done, after a step that opens no row but its own.
LEMMA DoneAfter ==
  ASSUME IInv, NEW w \in Workers, Done(w),
         inst' \in [Installments -> Rows],
         booking' \in BookingRows, booking'.card, IntentsSound',
         IntentsKept,
         UNCHANGED cancelling,
         \A i \in Installments : Open(i)' => Open(i) \/ Owns(work[w], i)
  PROVE  IInv'
BY IdleHandling, HandlerStep DEF Done

\* A handler that goes on at a place that is no owner's, the same.
LEMMA GotoAfter ==
  ASSUME IInv, NEW w \in Workers, NEW p \in WorkerPlaces \ HoldPlaces,
         work[w].at # "idle", p \notin {"newCard", "reset"} \cup OwnerPlaces, Goto(w, p),
         inst' \in [Installments -> Rows],
         booking' \in BookingRows, booking'.card, IntentsSound',
         IntentsKept,
         UNCHANGED cancelling,
         \A i \in Installments : Open(i)' => Open(i) \/ Owns(work[w], i)
  PROVE  IInv'
<1> DEFINE m == [work[w] EXCEPT !.at = p]
<1>1. m \in Handlings /\ Sound(m) /\ m.at = p /\ work' = [work EXCEPT ![w] = m]
  BY GotoHandling
<1>2. \A i \in Installments : ~ Owns(m, i)
  BY <1>1 DEF Owns
<1> HIDE DEF m
<1>3. QED BY <1>1, <1>2, HandlerStep

\* Without a hold there is nothing to capture after the undo.
LEMMA AfterUndoIsDone ==
  ASSUME IInv, NEW w \in Workers, work[w].at # "idle", AfterUndo(w)
  PROVE  Done(w)
BY AtWork DEF AfterUndo

\* A change of one intent that has an installment, or has no event.
LEMMA IntentUpdate ==
  ASSUME IInv, NEW n \in Intents, NEW r \in Succeeded,
         intent' = [intent EXCEPT ![n] = r],
         r.of = intent[n].of, r.state = intent[n].state,
         r.told # {} \/ r.news # {} => r.of \in Installments
  PROVE  /\ IntentsSound'
         /\ IntentsKept
<1>1. intent' \in [Intents -> Succeeded] /\ \A k \in Intents : intent'[k] = IF k = n THEN r ELSE intent[k]
  BY DEF IInv, IntentsSound
<1>2. (\A k \in Intents : intent[k].told # {} \/ intent[k].news # {} => intent[k].of \in Installments)'
  BY <1>1 DEF IInv, IntentsSound
<1>3. IntentsKept
  BY <1>1 DEF IntentsKept, Charged
<1>4. QED BY <1>1, <1>2, <1>3 DEF IntentsSound

\* No intent of the booking holds money without taking it.
LEMMA CancelDoesNothing ==
  ASSUME IInv, NEW n, Cancel(n)
  PROVE  UNCHANGED intent
BY DEF Cancel, IInv, IntentsSound, Succeeded

\* The call to Stripe: the owner charges, and is one no more if it succeeds.
LEMMA ChargeSteps ==
  ASSUME IInv, NEW w \in Workers, UNCHANGED cancelling,
         ChargeSavedCard(w) \/ ChargeFails(w)
  PROVE  IInv'
<1>1. work[w] \in Handlings /\ work[w].at = "call" /\ Sound(work[w]) /\ work[w].hold = FALSE
        /\ work[w].i \in Installments
  BY AtWork DEF ChargeSavedCard, ChargeFails
<1>2. {"fail", "paid"} \subseteq WorkerPlaces \ HoldPlaces
  BY DEF WorkerPlaces, HoldPlaces
<1>3. \A i \in Installments : Owns(work[w], i) <=> i = work[w].i
  BY <1>1 DEF Owns, OwnerPlaces
<1>4. ASSUME NEW n \in Intents, NEW p \in {"fail", "paid"}, intent[n].state = "unused",
             intent' = [intent EXCEPT ![n] = Created(Mine(w), work[w].amount, "succeeded")],
             work' = [work EXCEPT ![w] = [work[w] EXCEPT !.n = n, !.at = p]],
             UNCHANGED <<inst, booking>>, AnswersLost = FALSE => p = "paid"
      PROVE  IInv'
  <2> DEFINE r == Created(Mine(w), work[w].amount, "succeeded")
             m == [work[w] EXCEPT !.n = n, !.at = p]
  <2>1. r \in Succeeded /\ r.of = work[w].i
    <3> DEFINE q == [Unused EXCEPT !.of = Mine(w), !.taken = work[w].amount]
    <3>1. Unused \in Succeeded
      BY DEF Unused, Succeeded
    <3>2. work[w].amount \in Int
      BY <1>1 DEF Handlings
    <3>3. q \in Succeeded /\ q.of = work[w].i
      BY <1>1, <3>1, <3>2 DEF Succeeded, Mine
    <3>4. PICK t \in SUBSET {"succeeded"}, u \in SUBSET {"succeeded"} :
            t = q.told \cup {"succeeded"} /\ u = q.news \cup {"succeeded"}
      BY <3>3 DEF Succeeded
    <3>5. r = [q EXCEPT !.state = "succeeded", !.told = t, !.news = u]
      BY <3>4 DEF Created, Becomes
    <3> HIDE DEF q, r
    <3>6. QED BY <1>1, <3>3, <3>5 DEF Succeeded
  <2>2. m \in Handlings /\ m.at = p /\ m.i = work[w].i /\ m.event = work[w].event /\ m.from = work[w].from
    BY <1>1, <1>2 DEF Handlings
  <2>3. work' = [work EXCEPT ![w] = m] /\ intent' = [intent EXCEPT ![n] = r]
    BY <1>4
  <2> HIDE DEF r, m
  <2>4. Sound(m) /\ \A i \in Installments : Owns(m, i) => Owns(work[w], i)
    BY <1>1, <1>3, <2>2 DEF Sound, Owns
  <2>5. \A i \in Installments : Open(i)' <=> Open(i)
    BY <1>4 DEF Open
  <2>6. IntentsSound'
    <3>1. intent' \in [Intents -> Succeeded] /\ \A k \in Intents : intent'[k] = IF k = n THEN r ELSE intent[k]
      BY <2>1, <2>3 DEF IInv, IntentsSound
    <3>2. (\A k \in Intents : intent[k].told # {} \/ intent[k].news # {} => intent[k].of \in Installments)'
      BY <1>1, <2>1, <3>1 DEF IInv, IntentsSound
    <3>3. QED BY <3>1, <3>2 DEF IntentsSound
  <2>10. \A k \in Intents : intent[k].of \in Installments => intent'[k].of \in Installments
    BY <1>1, <2>1, <2>3 DEF IInv, IntentsSound
  <2>7. inst' \in [Installments -> Rows] /\ booking' \in BookingRows /\ booking'.card
    BY <1>4 DEF IInv
  <2>8. \A i \in Installments : Owns(m, i) => Owns(work[w], i) /\ ~ Open(i)'
    BY <2>4, <2>5 DEF IInv
  <2>11. ASSUME AnswersLost = FALSE PROVE ChargedOnce'
    <3>1. /\ ~ Open(work[w].i)
          /\ \A v \in Workers \ {w} : ~ Owns(work[v], work[w].i)
      BY <1>1, <1>3 DEF IInv
    <3>2. m.at = "paid" /\ \A i \in Installments : ~ Owns(m, i)
      BY <1>4, <2>2, <2>11 DEF Owns, OwnerPlaces
    <3>3. \A v \in Workers : work'[v] = IF v = w THEN m ELSE work[v]
      BY <2>3 DEF IInv
    <3>4. \A v \in Workers : ~ Owns(work'[v], work[w].i)
      BY <1>1, <3>1, <3>2, <3>3
    <3>5. \A k \in Intents : intent'[k] = IF k = n THEN r ELSE intent[k]
      BY <2>3 DEF IInv, IntentsSound
    <3>6. \A k \in Intents : Charged(k) => intent[k].of # work[w].i
      BY <1>1, <1>3, <2>11 DEF IInv, ChargedOnce
    <3>7. ASSUME NEW k \in Intents, intent'[k].state = "succeeded"
          PROVE  /\ k # n => Charged(k) /\ intent'[k] = intent[k]
                 /\ intent'[k].of \in Installments /\ inst'[intent'[k].of].status \notin OpenStatus
                 /\ \A v \in Workers : ~ Owns(work'[v], intent'[k].of)
      <4>1. CASE k = n
        BY <1>1, <1>4, <2>1, <3>1, <3>4, <3>5, <4>1 DEF Open
      <4>2. CASE k # n
        <5>1. Charged(k) /\ intent'[k] = intent[k]
          BY <3>5, <3>7, <4>2 DEF Charged
        <5>2. /\ intent[k].of \in Installments /\ ~ Open(intent[k].of)
              /\ \A v \in Workers : ~ Owns(work[v], intent[k].of)
          BY <2>11, <5>1 DEF IInv, ChargedOnce
        <5>3. \A v \in Workers : ~ Owns(work'[v], intent[k].of)
          BY <3>2, <3>3, <5>2
        <5>4. QED BY <1>4, <5>1, <5>2, <5>3 DEF Open
      <4>3. QED BY <4>1, <4>2
    <3>8. ASSUME NEW k \in Intents, NEW l \in Intents, intent'[k].state = "succeeded",
                 intent'[l].state = "succeeded", intent'[k].of = intent'[l].of
          PROVE  k = l
      <4>1. CASE k # n /\ l # n
        BY <2>11, <3>7, <3>8, <4>1 DEF IInv, ChargedOnce
      <4>2. CASE k = n \/ l = n
        BY <2>1, <3>5, <3>6, <3>7, <3>8, <4>2
      <4>3. QED BY <4>1, <4>2
    <3>9. QED BY <3>7, <3>8 DEF ChargedOnce, Charged, Open, Owns
  <2>9. QED BY <2>2, <2>3, <2>4, <2>5, <2>6, <2>7, <2>8, <2>10, <2>11, AnyHandlerStep
<1>5. CASE ChargeSavedCard(w)
  <2>1. PICK n \in Intents, lost \in {FALSE, AnswersLost} :
          /\ intent[n].state = "unused"
          /\ intent' = [intent EXCEPT ![n] = Created(Mine(w), work[w].amount,
                           IF work[w].hold THEN "requires_capture" ELSE "succeeded")]
          /\ work' = [work EXCEPT ![w] = [work[w] EXCEPT !.n = n,
                !.at = IF lost THEN "fail" ELSE IF work[w].hold THEN "held" ELSE "paid"]]
    BY <1>5 DEF ChargeSavedCard, IInv
  <2>2. PICK p \in {"fail", "paid"} : p = IF lost THEN "fail" ELSE "paid"
    OBVIOUS
  <2>3. ASSUME AnswersLost = FALSE PROVE p = "paid"
    <3>1. lost = FALSE
      BY <2>3, Zenon
    <3>2. ~ lost
      BY <3>1, Zenon
    <3>3. QED BY <2>2, <3>2, Zenon
  <2>4. QED BY <1>1, <1>4, <1>5, <2>1, <2>2, <2>3 DEF ChargeSavedCard
<1>6. CASE ChargeFails(w)
  <2>1. PICK needs \in BOOLEAN, n \in {Dud, None} :
          work' = [work EXCEPT ![w] = [work[w] EXCEPT !.at = "fail", !.needs = needs, !.n = n]]
    BY <1>6 DEF ChargeFails, IInv
  <2> DEFINE m == [work[w] EXCEPT !.at = "fail", !.needs = needs, !.n = n]
  <2>2. m \in Handlings /\ m.at = "fail" /\ m.i = work[w].i /\ m.event = work[w].event /\ m.from = work[w].from
    BY <1>1, <1>2 DEF Handlings
  <2>3. work' = [work EXCEPT ![w] = m]
    BY <2>1
  <2> HIDE DEF m
  <2>4. Sound(m) /\ \A i \in Installments : Owns(m, i) => Owns(work[w], i)
    BY <1>1, <1>3, <2>2 DEF Sound, Owns
  <2>5. QED BY <1>6, <2>2, <2>3, <2>4, ThinkingStep DEF ChargeFails
<1>7. QED BY <1>5, <1>6

\* A recorded payment opens no row.
LEMMA PaymentRecorded ==
  ASSUME IInv, NEW i \in Installments, NEW n \in Intents \cup {Dud, None}, RecordPayment(i, n)
  PROVE  /\ inst' \in [Installments -> Rows]
         /\ booking' \in BookingRows /\ booking'.card
         /\ \A j \in Installments : Open(j)' => Open(j)
<1>1. CASE inst[i].status = "PAID"
  BY <1>1 DEF RecordPayment, IInv, Open
<1>2. CASE inst[i].status # "PAID"
  <2>1. PICK k \in Int : k = Second(inst[i].rows)
    BY DEF Second
  <2> DEFINE r == [inst[i] EXCEPT !.status = "PAID", !.pi = n, !.rows = k, !.again = FALSE]
  <2>2. inst' = [inst EXCEPT ![i] = r]
    BY <1>2, <2>1 DEF RecordPayment, IInv
  <2>3. inst[i] \in Rows
    BY DEF IInv
  <2>4. r \in Rows /\ r.status = "PAID"
    BY <2>3 DEF Rows, InstallmentStatus
  <2> HIDE DEF r
  <2>5. inst' \in [Installments -> Rows] /\ \A j \in Installments : inst'[j] = IF j = i THEN r ELSE inst[j]
    BY <2>2, <2>4, RowUpdate DEF IInv
  <2>6. booking' \in BookingRows /\ booking'.card
    BY <1>2 DEF RecordPayment, WindowAfterPaying, IInv, BookingRows
  <2>7. QED BY <2>4, <2>5, <2>6 DEF Open, OpenStatus
<1>3. QED BY <1>1, <1>2

\* The payment is recorded; the handler goes on to look for an undo.
LEMMA MarkPaidStep ==
  ASSUME IInv, NEW w \in Workers, UNCHANGED cancelling, MarkPaid(w)
  PROVE  IInv'
<1>1. work[w] \in Handlings /\ work[w].at = "paid" /\ Sound(work[w]) /\ work[w].i \in Installments
        /\ Mine(w) = work[w].i
  BY AtWork DEF MarkPaid
<1>2. work[w].n \in Intents \cup {Dud, None}
  BY <1>1 DEF Handlings
<1>3. /\ inst' \in [Installments -> Rows] /\ booking' \in BookingRows /\ booking'.card
      /\ \A j \in Installments : Open(j)' => Open(j)
  BY <1>1, <1>2, PaymentRecorded DEF MarkPaid
<1> DEFINE m == [Idle EXCEPT !.at = "undo", !.i = work[w].i, !.hold = work[w].hold,
                             !.event = work[w].event, !.from = work[w].from]
<1>4. "undo" \in WorkerPlaces \ HoldPlaces /\ "undo" \notin OwnerPlaces
  BY DEF WorkerPlaces, HoldPlaces, OwnerPlaces
<1>5. m \in Handlings /\ m.at = "undo" /\ m.i = work[w].i /\ m.event = work[w].event
        /\ m.from = work[w].from
  BY <1>1, <1>4, IdleHandling DEF Handlings
<1>6. work' = [work EXCEPT ![w] = m]
  BY DEF MarkPaid, Forward
<1> HIDE DEF m
<1>7. Sound(m) /\ \A j \in Installments : ~ Owns(m, j)
  BY <1>1, <1>4, <1>5 DEF Sound, Owns
<1>8. IntentsSound' /\ IntentsKept
  BY SameIntents DEF MarkPaid
<1>9. QED BY <1>3, <1>5, <1>6, <1>7, <1>8, HandlerStep

----------------------------------------------------------------------------
(* undoIfBookingEnded.                                                     *)

\* undoIfBookingEnded and captureIfCompleted make no row open.
LEMMA UndoSteps ==
  ASSUME PlainBooking, IInv, NEW w \in Workers, UNCHANGED cancelling,
         \/ LookForUndo(w) \/ HandBack(w) \/ RecordHandedBack(w)
         \/ DropHold(w) \/ RecordDropped(w) \/ LookForHold(w)
  PROVE  IInv'
<1>1. /\ work[w] \in Handlings /\ Sound(work[w]) /\ work[w].at \notin {"idle"} \cup OwnerPlaces
      /\ work[w].i \in Installments /\ Mine(w) = work[w].i
      /\ Row(w) = inst[work[w].i] /\ Row(w) \in Rows
  BY AtWork DEF LookForUndo, HandBack, RecordHandedBack, DropHold, RecordDropped, LookForHold, OwnerPlaces
<1>2. {"handBack", "recordBack", "dropHold", "recordDrop"} \subseteq WorkerPlaces \ HoldPlaces
        /\ {"handBack", "recordBack", "dropHold", "recordDrop"} \cap OwnerPlaces = {}
  BY DEF WorkerPlaces, HoldPlaces, OwnerPlaces
<1>3. AfterUndo(w) => Done(w)
  BY <1>1, AfterUndoIsDone
<1>4. CASE LookForUndo(w)
  <2>1. CASE NothingToUndo(w)
    BY <1>3, <1>4, <2>1, DoneStep DEF LookForUndo
  <2>2. CASE ~ NothingToUndo(w)
    <3>1. PICK p \in {"handBack", "dropHold"} :
            p = IF Row(w).status = "PAID" THEN "handBack" ELSE "dropHold"
      OBVIOUS
    <3>2. PICK a \in Int : a = Left(Mine(w))
      BY <1>1 DEF Left, Rows
    <3>3. Row(w).pi \in Intents \cup {Dud, None}
      BY <1>1 DEF Rows
    <3> DEFINE m == [work[w] EXCEPT !.at = p, !.n = Row(w).pi, !.amount = a]
    <3>4. work' = [work EXCEPT ![w] = m]
      BY <1>4, <2>2, <3>1, <3>2 DEF LookForUndo, IInv
    <3>5. m \in Handlings /\ m.at = p /\ m.i = work[w].i /\ m.event = work[w].event
            /\ m.from = work[w].from
      BY <1>1, <1>2, <3>1, <3>2, <3>3 DEF Handlings
    <3> HIDE DEF m
    <3>6. Sound(m) /\ \A j \in Installments : ~ Owns(m, j)
      BY <1>1, <1>2, <3>1, <3>5 DEF Sound, Owns
    <3>7. QED BY <1>4, <3>4, <3>5, <3>6, ThinkingStep DEF LookForUndo
  <2>3. QED BY <2>1, <2>2
<1>5. CASE HandBack(w)
  <2>1. /\ inst' \in [Installments -> Rows] /\ booking' \in BookingRows /\ booking'.card
        /\ \A j \in Installments : Open(j)' => Open(j)
    BY <1>5 DEF HandBack, IInv, Open
  <2>2. IntentsSound' /\ IntentsKept
    <3>1. CASE UNCHANGED intent
      BY <3>1, SameIntents
    <3>2. CASE ~ UNCHANGED intent
      <4> DEFINE n == work[w].n
                 r == [intent[n] EXCEPT !.back = intent[n].back + work[w].amount,
                                        !.undone = work[w].amount]
      <4>1. CanRefund(n, work[w].amount) /\ intent' = [intent EXCEPT ![n] = r]
        BY <1>5, <3>2 DEF HandBack, IInv, IntentsSound
      <4>2. n \in Intents /\ intent[n] \in Succeeded /\ work[w].amount \in Int
        BY <1>1, <4>1 DEF CanRefund, IInv, IntentsSound, Handlings
      <4>3. intent[n].back + work[w].amount \in Int
        BY <4>2 DEF Succeeded
      <4>4. r \in Succeeded /\ r.of = intent[n].of /\ r.state = intent[n].state /\ r.told = intent[n].told /\ r.news = intent[n].news
        BY <4>2, <4>3 DEF Succeeded
      <4>5. r.told # {} \/ r.news # {} => r.of \in Installments
        BY <4>2, <4>4 DEF IInv, IntentsSound
      <4> HIDE DEF n, r
      <4>6. QED BY <4>1, <4>2, <4>4, <4>5, IntentUpdate
    <3>3. QED BY <3>1, <3>2
  <2>3. CASE Goto(w, "recordBack")
    BY <1>1, <1>2, <2>1, <2>2, <2>3, GotoAfter
  <2>4. CASE AfterUndo(w)
    BY <1>3, <2>1, <2>2, <2>4, DoneAfter
  <2>5. QED BY <1>5, <2>3, <2>4 DEF HandBack
<1>6. CASE RecordHandedBack(w)
  <2>1. inst' \in [Installments -> Rows] /\ \A j \in Installments : Open(j)' => Open(j)
    <3>1. CASE UNCHANGED inst
      BY <3>1 DEF IInv, Open
    <3>2. CASE ~ UNCHANGED inst
      <4> DEFINE i == work[w].i
                 r == [inst[i] EXCEPT !.status = "REFUNDED",
                                      !.refunded = inst[i].refunded + work[w].amount]
      <4>1. inst' = [inst EXCEPT ![i] = r]
        BY <1>1, <1>6, <3>2 DEF RecordHandedBack, IInv
      <4>2. inst[i].refunded + work[w].amount \in Int
        <5>1. inst[i] \in Rows
          BY <1>1
        <5>2. inst[i].refunded \in Int
          BY <5>1 DEF Rows
        <5>3. work[w].amount \in Int
          BY <1>1 DEF Handlings
        <5>4. QED BY <5>2, <5>3
      <4>3. r \in Rows /\ r.status = "REFUNDED"
        BY <1>1, <4>2 DEF Rows, InstallmentStatus
      <4>4. i \in Installments
        BY <1>1
      <4> HIDE DEF i, r
      <4>5. inst' \in [Installments -> Rows] /\ \A j \in Installments : inst'[j] = IF j = i THEN r ELSE inst[j]
        BY <4>1, <4>3, <4>4, RowUpdate DEF IInv
      <4>6. QED BY <4>3, <4>5 DEF Open, OpenStatus
    <3>3. QED BY <3>1, <3>2
  <2>2. QED BY <1>3, <1>6, <2>1, SameIntents, DoneAfter DEF RecordHandedBack, IInv
<1>7. CASE DropHold(w)
  <2>1. UNCHANGED <<inst, booking, intent>>
    BY <1>7, CancelDoesNothing DEF DropHold
  <2>2. CASE Goto(w, "recordDrop")
    BY <1>1, <1>2, <2>1, <2>2, GotoStep
  <2>3. CASE AfterUndo(w)
    BY <1>3, <2>1, <2>3, DoneStep
  <2>4. QED BY <1>7, <2>2, <2>3 DEF DropHold
<1>8. CASE RecordDropped(w)
  <2> DEFINE i == work[w].i
             r == [inst[i] EXCEPT !.status = "CANCELLED"]
  <2>1. inst' = [inst EXCEPT ![i] = r] /\ i \in Installments
    BY <1>1, <1>8 DEF RecordDropped, IInv
  <2>2. r \in Rows /\ r.status = "CANCELLED"
    BY <1>1 DEF Rows, InstallmentStatus
  <2> HIDE DEF i, r
  <2>3. inst' \in [Installments -> Rows] /\ \A j \in Installments : inst'[j] = IF j = i THEN r ELSE inst[j]
    BY <2>1, <2>2, RowUpdate DEF IInv
  <2>4. \A j \in Installments : Open(j)' => Open(j)
    BY <2>2, <2>3 DEF Open, OpenStatus
  <2>5. QED BY <1>3, <1>8, <2>3, <2>4, SameIntents, DoneAfter DEF RecordDropped, IInv
<1>9. CASE LookForHold(w)
  <2>1. ~ HoldToCapture(w)
    BY DEF HoldToCapture, PlainBooking
  <2>2. QED BY <1>9, <2>1, DoneStep DEF LookForHold
<1>10. QED BY <1>4, <1>5, <1>6, <1>7, <1>8, <1>9

----------------------------------------------------------------------------
(* Failures, the customer's retries and the events.                        *)

\* An attempt is answered as a failure by the handler that owns it.
LEMMA FailureSteps ==
  ASSUME IInv, NEW w \in Workers, UNCHANGED cancelling,
         RecordFailure(w) \/ StartWindow(w) \/ RecordMissedDeposit(w)
  PROVE  IInv'
<1>1. /\ work[w] \in Handlings /\ Sound(work[w]) /\ work[w].at \in {"fail", "missed"}
      /\ work[w].i \in Installments /\ Mine(w) = work[w].i
  BY AtWork DEF RecordFailure, StartWindow, RecordMissedDeposit
<1>2. \A i \in Installments : Owns(work[w], i) <=> i = work[w].i
  BY <1>1 DEF Owns, OwnerPlaces
<1>3. ASSUME NEW s \in {"FAILED", "SCHEDULED"}, inst' = FailedRow(w, s),
             Done(w), UNCHANGED <<booking, intent>>
      PROVE  IInv'
  <2> DEFINE i == work[w].i
  <2>1. inst[i] \in Rows
    BY <1>1 DEF IInv
  <2>2. PICK p \in Intents \cup {Dud, None} : p = IF work[w].n = Dud THEN Dud ELSE inst[i].pi
    BY <2>1 DEF Rows
  <2>3. work[w].attempts \in Int
    BY <1>1 DEF Handlings
  <2> DEFINE r == [inst[i] EXCEPT !.status = s, !.attempts = work[w].attempts,
                                  !.again = FALSE, !.pi = p]
  <2>4. inst' = [inst EXCEPT ![i] = r]
    BY <1>1, <1>3, <2>2 DEF FailedRow, IInv
  <2>5. r \in Rows
    BY <2>1, <2>3 DEF Rows, InstallmentStatus
  <2>6. i \in Installments
    BY <1>1
  <2> HIDE DEF i, r
  <2>7. inst' \in [Installments -> Rows] /\ \A j \in Installments : inst'[j] = IF j = i THEN r ELSE inst[j]
    BY <2>4, <2>5, <2>6, RowUpdate DEF IInv
  <2>8. \A j \in Installments : Open(j)' => Open(j) \/ Owns(work[w], j)
    BY <1>2, <2>7 DEF Open, i
  <2>9. QED BY <1>3, <2>7, <2>8, SameIntents, DoneAfter DEF IInv
<1>4. CASE RecordFailure(w)
  BY <1>3, <1>4 DEF RecordFailure
<1>5. CASE RecordMissedDeposit(w)
  <2>1. PICK s \in {"FAILED", "SCHEDULED"} : inst' = FailedRow(w, s)
    BY <1>5 DEF RecordMissedDeposit
  <2>2. QED BY <1>3, <1>5, <2>1 DEF RecordMissedDeposit
<1>6. CASE StartWindow(w)
  <2> DEFINE m == [work[w] EXCEPT !.at = "missed"]
  <2>1. "missed" \in WorkerPlaces \ HoldPlaces
    BY DEF WorkerPlaces, HoldPlaces
  <2>2. m \in Handlings /\ Sound(m) /\ m.i = work[w].i /\ work' = [work EXCEPT ![w] = m]
    BY <1>1, <1>6, <2>1, GotoHandling DEF StartWindow
  <2> HIDE DEF m
  <2>3. booking' \in BookingRows /\ booking'.card
    <3>1. DueKind[Mine(w)] \in {"deposit", "balance", "none"}
      BY <1>1, DueKindAssumption
    <3>2. QED BY <1>6, <3>1 DEF StartWindow, IInv, BookingRows
  <2>4. inst' \in [Installments -> Rows] /\ \A j \in Installments : Open(j)' <=> Open(j)
    BY <1>6 DEF StartWindow, IInv, Open
  <2>5. \A j \in Installments : Owns(m, j) => Owns(work[w], j) /\ ~ Open(j)'
    BY <1>2, <2>2, <2>4 DEF Owns, IInv
  <2>6. IntentsSound' /\ IntentsKept
    BY <1>6, SameIntents DEF StartWindow
  <2>7. QED BY <2>2, <2>3, <2>4, <2>5, <2>6, HandlerStep
<1>7. QED BY <1>4, <1>5, <1>6

\* retryInstallment: the reset opens only a row that was open.
LEMMA RetrySteps ==
  ASSUME IInv, NEW w \in Workers, UNCHANGED cancelling,
         (\E i \in Installments : RetryInstallment(w, i)) \/ SaveNewCard(w) \/ ResetAttempts(w)
  PROVE  IInv'
<1>1. ASSUME NEW i \in Installments, RetryInstallment(w, i) PROVE IInv'
  <2>1. PICK card \in BOOLEAN :
          work' = [work EXCEPT ![w] =
            [Idle EXCEPT !.at = IF card THEN "newCard" ELSE "reset", !.i = i,
               !.status = inst[i].status, !.attempts = inst[i].attempts, !.card = card]]
    BY <1>1 DEF RetryInstallment
  <2>2. PICK p \in {"newCard", "reset"} : p = IF card THEN "newCard" ELSE "reset"
    OBVIOUS
  <2>3. inst[i] \in Rows
    BY DEF IInv
  <2>4. inst[i].attempts \in Int /\ inst[i].status \in InstallmentStatus /\ inst[i].status \in OpenStatus
    BY <1>1, <2>3 DEF RetryInstallment, Rows, OpenStatus
  <2> DEFINE m == [Idle EXCEPT !.at = p, !.i = i, !.status = inst[i].status,
                               !.attempts = inst[i].attempts, !.card = card]
  <2>5. p \in WorkerPlaces \ HoldPlaces /\ p \notin OwnerPlaces /\ p # "idle"
    BY DEF WorkerPlaces, HoldPlaces, OwnerPlaces
  <2>6. m \in Handlings /\ m.at = p /\ m.i = i /\ m.event = "none" /\ m.status = inst[i].status
    BY <2>4, <2>5, IdleHandling DEF Handlings
  <2>7. work' = [work EXCEPT ![w] = m]
    BY <2>1, <2>2
  <2> HIDE DEF m
  <2>8. Sound(m) /\ \A j \in Installments : ~ Owns(m, j)
    BY <2>4, <2>5, <2>6 DEF Sound, Owns
  <2>9. QED BY <1>1, <2>6, <2>7, <2>8, ThinkingStep DEF RetryInstallment
<1>2. CASE SaveNewCard(w)
  <2> DEFINE m == [work[w] EXCEPT !.at = "reset"]
  <2>1. work[w] \in Handlings /\ Sound(work[w]) /\ work[w].at = "newCard"
    BY <1>2, AtWork DEF SaveNewCard
  <2>2. "reset" \in WorkerPlaces \ HoldPlaces /\ "reset" \notin OwnerPlaces
    BY DEF WorkerPlaces, HoldPlaces, OwnerPlaces
  <2>3. m \in Handlings /\ m.at = "reset" /\ m.i = work[w].i /\ m.status = work[w].status
          /\ m.event = work[w].event /\ m.from = work[w].from
    BY <2>1, <2>2 DEF Handlings
  <2>4. work' = [work EXCEPT ![w] = m]
    BY <1>2 DEF SaveNewCard, Goto, IInv
  <2> HIDE DEF m
  <2>5. Sound(m) /\ \A j \in Installments : ~ Owns(m, j)
    BY <2>1, <2>2, <2>3 DEF Sound, Owns
  <2>6. booking' \in BookingRows /\ booking'.card
    BY <1>2 DEF SaveNewCard, IInv, BookingRows
  <2>7. inst' \in [Installments -> Rows] /\ \A j \in Installments : Open(j)' <=> Open(j)
    BY <1>2 DEF SaveNewCard, IInv, Open
  <2>8. IntentsSound' /\ IntentsKept
    BY <1>2, SameIntents DEF SaveNewCard
  <2>9. QED BY <2>3, <2>4, <2>5, <2>6, <2>7, <2>8, HandlerStep
<1>3. CASE ResetAttempts(w)
  <2>1. /\ work[w] \in Handlings /\ Sound(work[w]) /\ work[w].at = "reset"
        /\ work[w].i \in Installments /\ Mine(w) = work[w].i
        /\ Row(w) = inst[work[w].i]
    BY <1>3, AtWork DEF ResetAttempts
  <2>2. CASE AsSeen(w)
    <3>1. PICK i \in Installments : i = work[w].i /\ Open(i)
      BY <2>1, <2>2 DEF AsSeen, Sound, Open
    <3>2. inst[i] \in Rows
      BY DEF IInv
    <3>zero. PICK zero \in Int : zero = 0
      OBVIOUS
    <3> DEFINE r == [inst[i] EXCEPT !.status = "SCHEDULED", !.attempts = zero, !.again = FALSE]
               m == [Idle EXCEPT !.at = "read", !.i = i, !.card = work[w].card]
    <3>3. r \in Rows
      BY <3>2 DEF Rows, InstallmentStatus
    <3>4. inst' = [inst EXCEPT ![i] = r]
      <4>1. inst' = [inst EXCEPT ![i].status = "SCHEDULED", ![i].attempts = zero, ![i].again = FALSE]
        BY <1>3, <2>1, <2>2, <3>1, <3>zero, Zenon DEF ResetAttempts
      <4>2. QED BY <4>1 DEF IInv
    <3>5. "read" \in WorkerPlaces \ HoldPlaces /\ "read" \notin OwnerPlaces
      BY DEF WorkerPlaces, HoldPlaces, OwnerPlaces
    <3>6. work[w].card \in BOOLEAN
      BY <2>1 DEF Handlings
    <3>7. m \in Handlings /\ m.at = "read" /\ m.i = i /\ m.event = "none"
      BY <3>5, <3>6, IdleHandling DEF Handlings
    <3>8. work' = [work EXCEPT ![w] = m]
      BY <1>3, <2>1, <2>2, <3>1 DEF ResetAttempts
    <3> HIDE DEF r, m
    <3>9. Sound(m) /\ \A j \in Installments : ~ Owns(m, j)
      BY <3>1, <3>5, <3>7 DEF Sound, Owns
    <3>10. inst' \in [Installments -> Rows] /\ \A j \in Installments : inst'[j] = IF j = i THEN r ELSE inst[j]
      BY <3>1, <3>3, <3>4, RowUpdate DEF IInv
    <3>11. \A j \in Installments : Open(j)' => Open(j)
      BY <3>1, <3>10 DEF Open
    <3>12. QED BY <1>3, <3>7, <3>8, <3>9, <3>10, <3>11, SameIntents, HandlerStep DEF ResetAttempts, IInv
  <2>3. CASE ~ AsSeen(w)
    BY <1>3, <2>3, DoneStep DEF ResetAttempts
  <2>4. QED BY <2>2, <2>3
<1>4. QED BY <1>1, <1>2, <1>3

\* Events are delivered and answered, and handlers crash.
LEMMA EventSteps ==
  ASSUME IInv, NEW w \in Workers, UNCHANGED cancelling,
         (\E n \in Intents : Deliver(w, n)) \/ Reconcile(w) \/ Crash(w)
  PROVE  IInv'
<1>1. ASSUME NEW n \in Intents, Deliver(w, n) PROVE IInv'
  <2>1. intent[n] \in Succeeded
    BY DEF IInv, IntentsSound
  <2>2. PICK e \in intent[n].told \cup intent[n].news :
          /\ work' = [work EXCEPT ![w] =
               [Idle EXCEPT !.at = "hook", !.i = intent[n].of, !.n = n, !.event = e, !.from = n]]
          /\ intent' = [intent EXCEPT ![n].news = intent[n].news \ {e}]
    BY <1>1 DEF Deliver, IInv, IntentsSound
  <2>3. e = "succeeded" /\ intent[n].of \in Installments
    BY <2>1, <2>2 DEF Succeeded, IInv, IntentsSound
  <2> DEFINE m == [Idle EXCEPT !.at = "hook", !.i = intent[n].of, !.n = n, !.event = e, !.from = n]
             r == [intent[n] EXCEPT !.news = intent[n].news \ {e}]
  <2>4. "hook" \in WorkerPlaces \ HoldPlaces /\ "hook" \notin OwnerPlaces
    BY DEF WorkerPlaces, HoldPlaces, OwnerPlaces
  <2>5. m \in Handlings /\ m.at = "hook" /\ m.i = intent[n].of /\ m.from = n
    BY <2>3, <2>4, IdleHandling DEF Handlings
  <2>6. r \in Succeeded /\ r.of = intent[n].of /\ r.state = intent[n].state
    BY <2>1 DEF Succeeded
  <2>7. work' = [work EXCEPT ![w] = m] /\ intent' = [intent EXCEPT ![n] = r]
    BY <2>2 DEF IInv, IntentsSound
  <2> HIDE DEF m, r
  <2>8. Sound(m) /\ \A j \in Installments : ~ Owns(m, j)
    BY <2>3, <2>4, <2>5 DEF Sound, Owns
  <2>9. IntentsSound' /\ IntentsKept
    BY <2>3, <2>6, <2>7, IntentUpdate
  <2>10. /\ inst' \in [Installments -> Rows] /\ booking' \in BookingRows /\ booking'.card
         /\ \A j \in Installments : Open(j)' <=> Open(j)
    BY <1>1 DEF Deliver, IInv, Open
  <2>11. QED BY <2>5, <2>7, <2>8, <2>9, <2>10, HandlerStep
<1>2. CASE Reconcile(w)
  <2>1. work[w] \in Handlings /\ work[w].at = "hook"
    BY <1>2, AtWork DEF Reconcile
  <2>2. Reaction(work[w].event, Row(w).status) \in {"idle", "paid"}
    <3>1. work[w].event \notin {"requires_capture", "canceled"}
      BY <2>1 DEF Handlings
    <3>2. QED BY <3>1 DEF Reaction
  <2>3. "paid" \in WorkerPlaces \ HoldPlaces
    BY DEF WorkerPlaces, HoldPlaces
  <2>4. CASE Done(w)
    BY <1>2, <2>4, DoneStep DEF Reconcile
  <2>5. CASE Goto(w, "paid")
    BY <1>2, <2>1, <2>3, <2>5, GotoStep DEF Reconcile, OwnerPlaces
  <2>6. QED BY <1>2, <2>2, <2>4, <2>5 DEF Reconcile
<1>3. CASE Crash(w)
  <2>1. work[w] \in Handlings /\ Sound(work[w]) /\ Done(w)
    BY <1>3, AtWork DEF Crash
  <2>2. IntentsSound' /\ IntentsKept
    <3>1. CASE work[w].event = "none"
      BY <1>3, <3>1, SameIntents DEF Crash
    <3>2. CASE work[w].event # "none"
      <4> DEFINE n == work[w].from
                 r == [intent[n] EXCEPT !.news = intent[n].news \cup {work[w].event}]
      <4>1. n \in Intents /\ intent[n].of \in Installments /\ work[w].event = "succeeded"
        BY <2>1, <3>2 DEF Sound, Handlings
      <4>2. intent[n] \in Succeeded
        BY <4>1 DEF IInv, IntentsSound
      <4>3. r \in Succeeded /\ r.of = intent[n].of /\ r.state = intent[n].state
        BY <4>1, <4>2 DEF Succeeded
      <4>4. intent' = [intent EXCEPT ![n] = r]
        BY <1>3, <3>2, <4>1 DEF Crash, IInv, IntentsSound
      <4> HIDE DEF n, r
      <4>5. QED BY <4>1, <4>3, <4>4, IntentUpdate
    <3>3. QED BY <3>1, <3>2
  <2>3. /\ inst' \in [Installments -> Rows] /\ booking' \in BookingRows /\ booking'.card
        /\ \A j \in Installments : Open(j)' <=> Open(j)
    BY <1>3 DEF Crash, IInv, Open
  <2>4. QED BY <2>1, <2>2, <2>3, DoneAfter
<1>4. QED BY <1>1, <1>2, <1>3

\* The steps of a hold: no handler is at one of their places.
LEMMA NoHoldSteps ==
  ASSUME IInv, NEW w \in Workers
  PROVE  ~ (\/ MarkAuthorized(w) \/ OnBookingCompleted(w) \/ CaptureHold(w) \/ RecordCaptured(w)
            \/ RecordCaptureFailed(w) \/ RecordCanceled(w) \/ LetGoOfHold(w))
BY AtWork
   DEF MarkAuthorized, OnBookingCompleted, CaptureHold, RecordCaptured, RecordCaptureFailed,
       RecordCanceled, LetGoOfHold, HoldPlaces

----------------------------------------------------------------------------
(* Everyone else.                                                          *)

\* What leaves the intents alone and opens no row.
LEMMA RowsAndBooking ==
  ASSUME IInv, UNCHANGED <<work, intent>>, inst' \in [Installments -> Rows],
         booking' \in BookingRows, booking'.card, CancellingSound',
         \A i \in Installments : Open(i)' => Open(i)
  PROVE  IInv'
BY SameIntents, OtherStep

\* What changes nothing but where the cancellation is.
LEMMA CancellingOnly ==
  ASSUME IInv, UNCHANGED <<inst, booking, work, intent>>, CancellingSound'
  PROVE  IInv'
<1>1. inst' \in [Installments -> Rows] /\ booking' \in BookingRows /\ booking'.card
  BY DEF IInv
<1>2. \A i \in Installments : Open(i)' => Open(i)
  BY DEF Open
<1>3. QED BY <1>1, <1>2, RowsAndBooking

\* The cancellation that did not move keeps its type.
LEMMA SameCancelling ==
  ASSUME IInv, UNCHANGED cancelling
  PROVE  CancellingSound'
BY DEF IInv, CancellingSound

\* A row is called off, or otherwise not opened, by someone who is no handler.
LEMMA RowClosed ==
  ASSUME IInv, NEW i \in Installments, NEW r \in Rows, inst' = [inst EXCEPT ![i] = r],
         r.status \in OpenStatus => Open(i),
         UNCHANGED <<booking, work, intent>>, CancellingSound'
  PROVE  IInv'
<1>1. inst' \in [Installments -> Rows] /\ \A j \in Installments : inst'[j] = IF j = i THEN r ELSE inst[j]
  BY RowUpdate DEF IInv
<1>2. \A j \in Installments : Open(j)' => Open(j)
  BY <1>1 DEF Open
<1>3. booking' \in BookingRows /\ booking'.card
  BY DEF IInv
<1>4. QED BY <1>1, <1>2, <1>3, RowsAndBooking

\* Dates pass, the job is completed, and the vendor lowers a charge.
LEMMA SurroundingSteps ==
  ASSUME PlainBooking, IInv, UNCHANGED cancelling,
         \/ Surroundings
         \/ \E w \in Workers : Complete(w)
         \/ \E w \in Workers, i \in Installments : GiveBack(w, i)
  PROVE  IInv'
<1>1. CancellingSound'
  BY SameCancelling
<1>2. ASSUME NEW i \in Installments, DueDatePasses(i) PROVE IInv'
  <2> DEFINE r == [inst[i] EXCEPT !.due = TRUE]
  <2>1. inst[i] \in Rows
    BY DEF IInv
  <2>2. r \in Rows /\ r.status = inst[i].status
    BY <2>1 DEF Rows
  <2>3. inst' = [inst EXCEPT ![i] = r]
    BY <1>2 DEF DueDatePasses, IInv
  <2> HIDE DEF r
  <2>4. QED BY <1>1, <1>2, <2>2, <2>3, RowClosed DEF DueDatePasses, Open
<1>3. ASSUME NEW i \in Installments, RetryDatePasses(i) PROVE IInv'
  <2> DEFINE r == [inst[i] EXCEPT !.again = TRUE]
  <2>1. inst[i] \in Rows
    BY DEF IInv
  <2>2. r \in Rows /\ r.status = inst[i].status
    BY <2>1 DEF Rows
  <2>3. inst' = [inst EXCEPT ![i] = r]
    BY <1>3 DEF RetryDatePasses, IInv
  <2> HIDE DEF r
  <2>4. QED BY <1>1, <1>3, <2>2, <2>3, RowClosed DEF RetryDatePasses, Open
<1>4. ASSUME NEW n \in Intents, HoldExpires(n) PROVE IInv'
  BY <1>4 DEF HoldExpires, IInv, IntentsSound, Succeeded
<1>5. CASE DeadlinePasses
  <2>1. booking' \in BookingRows /\ booking'.card
    BY <1>5 DEF DeadlinePasses, IInv, BookingRows
  <2>2. inst' \in [Installments -> Rows] /\ \A i \in Installments : Open(i)' <=> Open(i)
    BY <1>5 DEF DeadlinePasses, IInv, Open
  <2>3. QED BY <1>1, <1>5, <2>1, <2>2, RowsAndBooking DEF DeadlinePasses
<1>6. ASSUME NEW w \in Workers, Complete(w) PROVE IInv'
  <2>1. booking' \in BookingRows /\ booking'.card
    BY <1>6 DEF Complete, IInv, BookingRows
  <2>2. inst' \in [Installments -> Rows] /\ \A i \in Installments : Open(i)' <=> Open(i)
    BY <1>6 DEF Complete, IInv, Open
  <2>3. UNCHANGED <<work, intent>>
    BY <1>6 DEF Complete, PlainBooking
  <2>4. QED BY <1>1, <2>1, <2>2, <2>3, RowsAndBooking
<1>7. ASSUME NEW w \in Workers, NEW i \in Installments, GiveBack(w, i) PROVE IInv'
  <2>1. inst[i] \in Rows
    BY DEF IInv
  <2>2. Open(i)
    BY <1>7 DEF GiveBack, Lowerable, PlainBooking, Open, OpenStatus
  <2>3. PICK s \in InstallmentStatus : s = IF inst[i].amount = 1 THEN "CANCELLED" ELSE inst[i].status
    BY <2>1 DEF Rows, InstallmentStatus
  <2>4. inst[i].amount - 1 \in Int
    BY <2>1 DEF Rows
  <2> DEFINE r == [inst[i] EXCEPT !.amount = inst[i].amount - 1, !.status = s]
  <2>5. inst' = [inst EXCEPT ![i] = r]
    BY <1>7, <2>3 DEF GiveBack, IInv
  <2>6. r \in Rows
    BY <2>1, <2>4 DEF Rows
  <2> HIDE DEF r
  <2>7. UNCHANGED <<work, booking, intent>>
    BY <1>7, <2>2 DEF GiveBack, Open, OpenStatus
  <2>8. QED BY <1>1, <2>2, <2>5, <2>6, <2>7, RowClosed
<1>8. QED BY <1>2, <1>3, <1>4, <1>5, <1>6, <1>7 DEF Surroundings

----------------------------------------------------------------------------
(* The cancellation.                                                       *)

\* Where the cancellation may go without touching what it read.
Places == CancelPlaces \ {"voided", "dropped", "refunded"}

\* The cancellation's moves keep its type.
LEMMA CancelMoves ==
  ASSUME IInv
  PROVE  /\ CancelDone => CancellingSound'
         /\ \A p \in Places : CancelGoto(p) => CancellingSound'
         /\ cancelling.todo # <<>> =>
              /\ \A p \in CancelPlaces : CancelGoto(p) => CancellingSound'
              /\ \A p \in Places : NextVisit(p) => CancellingSound'
              /\ Visited \in Installments /\ SeenRow \in Rows
              /\ Tail(cancelling.todo) \in Seq(Installments)
<1> DEFINE C == [at : CancelPlaces, by : Cancellers, paid : BOOLEAN,
                 seen : [Installments -> Rows], todo : Seq(Installments), left : Int]
<1>1. cancelling \in C
  BY DEF IInv, CancellingSound
<1>2. CancelDone => CancellingSound'
  <2>1. FreshRow \in Rows
    BY NoneAssumption, BoundsAssumption DEF FreshRow, Rows, InstallmentStatus
  <2>2. NoCancellation \in C /\ NoCancellation.at = "idle"
    BY <2>1 DEF NoCancellation, CancelPlaces, Cancellers
  <2>3. QED BY <2>2 DEF CancelDone, CancellingSound
<1>3. ASSUME NEW p \in CancelPlaces, CancelGoto(p) PROVE cancelling' \in C /\ cancelling'.at = p
                                                      /\ cancelling'.todo = cancelling.todo
  BY <1>1, <1>3 DEF CancelGoto
<1>4. \A p \in Places : CancelGoto(p) => CancellingSound'
  BY <1>3 DEF CancellingSound, Places
<1>5. ASSUME cancelling.todo # <<>>
      PROVE  /\ \A p \in CancelPlaces : CancelGoto(p) => CancellingSound'
             /\ \A p \in Places : NextVisit(p) => CancellingSound'
             /\ Visited \in Installments /\ SeenRow \in Rows
             /\ Tail(cancelling.todo) \in Seq(Installments)
  <2>1. \A p \in CancelPlaces : CancelGoto(p) => CancellingSound'
    BY <1>3, <1>5 DEF CancellingSound
  <2>2. cancelling.todo \in Seq(Installments)
    BY <1>1
  <2>3. Visited \in Installments /\ Tail(cancelling.todo) \in Seq(Installments)
    BY <1>5, <2>2 DEF Visited
  <2>4. SeenRow \in Rows
    BY <1>1, <2>3 DEF SeenRow
  <2>5. ASSUME NEW p \in Places, NextVisit(p) PROVE CancellingSound'
    <3>1. PICK t \in Seq(Installments) : t = Tail(cancelling.todo)
      BY <2>3
    <3>2. cancelling' = [cancelling EXCEPT !.at = p, !.todo = t]
      BY <2>5, <3>1 DEF NextVisit
    <3>3. QED BY <1>1, <3>2 DEF CancellingSound, Places
  <2>6. QED BY <2>1, <2>3, <2>4, <2>5
<1>6. QED BY <1>2, <1>4, <1>5

\* The rows the cancellation writes.
LEMMA CalledOff ==
  ASSUME IInv, NEW i \in Installments, UNCHANGED <<booking, work, intent>>, CancellingSound',
         UNCHANGED inst \/ inst' = [inst EXCEPT ![i].status = "CANCELLED"]
  PROVE  IInv'
<1>1. CASE UNCHANGED inst
  BY <1>1, CancellingOnly
<1>2. CASE inst' = [inst EXCEPT ![i].status = "CANCELLED"]
  <2> DEFINE r == [inst[i] EXCEPT !.status = "CANCELLED"]
  <2>1. inst' = [inst EXCEPT ![i] = r]
    BY <1>2 DEF IInv
  <2>2. inst[i] \in Rows
    BY DEF IInv
  <2>3. r \in Rows /\ r.status = "CANCELLED"
    BY <2>2 DEF Rows, InstallmentStatus
  <2> HIDE DEF r
  <2>4. QED BY <2>1, <2>3, RowClosed DEF OpenStatus
<1>3. QED BY <1>1, <1>2

\* The cancellation reads.
LEMMA StartSteps ==
  ASSUME IInv, LoadToCancel \/ SelectOverdue \/ LoadForNonPayment \/ SetTerms
               \/ LookForOpen \/ ReadForRefund
  PROVE  IInv'
<1> DEFINE C == [at : CancelPlaces, by : Cancellers, paid : BOOLEAN,
                 seen : [Installments -> Rows], todo : Seq(Installments), left : Int]
<1>1. UNCHANGED <<inst, booking, work, intent>>
  BY DEF LoadToCancel, SelectOverdue, LoadForNonPayment, SetTerms, LookForOpen, ReadForRefund,
         chargingVars
<1>2. cancelling \in C /\ booking.paid \in BOOLEAN /\ inst \in [Installments -> Rows]
  BY DEF IInv, CancellingSound, BookingRows
<1>3. NoCancellation \in C
  <2>1. FreshRow \in Rows
    BY NoneAssumption, BoundsAssumption DEF FreshRow, Rows, InstallmentStatus
  <2>2. QED BY <2>1 DEF NoCancellation, CancelPlaces, Cancellers
<1>4. {"claim", "overdue", "load", "look", "void", "refund"} \subseteq Places
        /\ Places \subseteq CancelPlaces /\ Places \cap {"voided", "dropped", "refunded"} = {}
  BY DEF Places, CancelPlaces
<1>5. {"CUSTOMER", "VENDOR", "SYSTEM"} \subseteq Cancellers
  BY DEF Cancellers
<1>6. CancellingSound'
  <2>1. CASE LoadToCancel
    <3>1. PICK by \in {"CUSTOMER", "VENDOR"} :
            cancelling' = [NoCancellation EXCEPT !.at = "claim", !.by = by, !.paid = booking.paid]
      BY <2>1, RequestersAssumption DEF LoadToCancel
    <3>2. QED BY <1>2, <1>3, <1>4, <1>5, <3>1 DEF CancellingSound
  <2>2. CASE SelectOverdue
    <3>1. PICK p \in {"overdue", "load"} :
            cancelling' = [NoCancellation EXCEPT !.by = "SYSTEM", !.at = p]
      BY <2>2 DEF SelectOverdue
    <3>2. QED BY <1>3, <1>4, <1>5, <3>1 DEF CancellingSound
  <2>3. CASE LoadForNonPayment
    <3>1. CASE CancelDone
      BY <3>1, CancelMoves
    <3>2. CASE cancelling' = [cancelling EXCEPT !.at = "claim", !.paid = booking.paid]
      BY <1>2, <1>4, <3>2 DEF CancellingSound
    <3>3. QED BY <2>3, <3>1, <3>2 DEF LoadForNonPayment
  <2>4. CASE SetTerms
    <3>1. MaxTotal \in Int
      <4>1. Cardinality(Installments) \in Nat
        BY FiniteAssumption, FS_CardinalityType
      <4>2. MaxAmount \in Nat
        BY BoundsAssumption
      <4>3. QED BY <4>1, <4>2 DEF MaxTotal
    <3>2. PICK total \in 0..MaxTotal :
            cancelling' = [cancelling EXCEPT !.at = "look", !.left = total]
      BY <2>4 DEF SetTerms
    <3>3. total \in Int
      BY <3>1, <3>2
    <3>4. QED BY <1>2, <1>4, <3>2, <3>3 DEF CancellingSound
  <2>5. CASE LookForOpen
    BY <1>2, <1>4, <2>5, NewestAssumption DEF LookForOpen, CancellingSound
  <2>6. CASE ReadForRefund
    BY <1>2, <1>4, <2>6, NewestAssumption DEF ReadForRefund, CancellingSound
  <2>7. QED BY <2>1, <2>2, <2>3, <2>4, <2>5, <2>6
<1>7. QED BY <1>1, <1>6, CancellingOnly

\* The cancellation claims the booking, or closes its window.
LEMMA BookingSteps ==
  ASSUME IInv, ClearWindow \/ ClaimCancellation
  PROVE  IInv'
<1>1. inst' \in [Installments -> Rows] /\ \A i \in Installments : Open(i)' <=> Open(i)
  BY DEF ClearWindow, ClaimCancellation, IInv, Open
<1>2. cancelling.by \in Cancellers
  BY DEF IInv, CancellingSound
<1>3. booking' \in BookingRows /\ booking'.card
  BY <1>2 DEF ClearWindow, ClaimCancellation, IInv, BookingRows
<1>4. {"terms", "look"} \subseteq Places
  BY DEF Places, CancelPlaces
<1>5. CancellingSound'
  BY <1>4, CancelMoves DEF ClearWindow, ClaimCancellation
<1>6. QED BY <1>1, <1>3, <1>5, RowsAndBooking DEF ClearWindow, ClaimCancellation

\* The cancellation calls rows off (voidOpenCharges, refundParts).
LEMMA VisitSteps ==
  ASSUME IInv,
         \/ VoidUnpaid \/ VoidNothing \/ VoidHold \/ RecordVoidedHold \/ VoidDone
         \/ RefundCallsOff \/ RefundDropsHold \/ RecordDroppedHold \/ RefundNothing
         \/ RefundDone \/ CrashCancelling
  PROVE  IInv'
<1>1. {"void", "refund", "refundRead"} \subseteq Places /\ {"voided", "dropped"} \subseteq CancelPlaces
  BY DEF Places, CancelPlaces
<1>2. cancelling.at \in {"voided", "dropped", "refunded"} => cancelling.todo # <<>>
  BY DEF IInv, CancellingSound
<1>3. CASE VoidUnpaid \/ RecordVoidedHold \/ RefundCallsOff \/ RecordDroppedHold
  <2>1. cancelling.todo # <<>>
    BY <1>2, <1>3 DEF VoidUnpaid, RecordVoidedHold, RefundCallsOff, RecordDroppedHold, At
  <2>2. CancellingSound' /\ Visited \in Installments
    BY <1>1, <1>3, <2>1, CancelMoves DEF VoidUnpaid, RecordVoidedHold, RefundCallsOff, RecordDroppedHold
  <2>3. UNCHANGED inst \/ inst' = [inst EXCEPT ![Visited].status = "CANCELLED"]
    BY <1>3 DEF VoidUnpaid, RecordVoidedHold, RefundCallsOff, RecordDroppedHold, CallOffAsSeen
  <2>4. UNCHANGED <<booking, work, intent>>
    BY <1>3 DEF VoidUnpaid, RecordVoidedHold, RefundCallsOff, RecordDroppedHold
  <2>5. QED BY <2>2, <2>3, <2>4, CalledOff
<1>4. CASE VoidNothing \/ RefundNothing
  BY <1>1, <1>4, CancelMoves, CancellingOnly DEF VoidNothing, RefundNothing, chargingVars
<1>5. CASE VoidHold \/ RefundDropsHold
  <2>1. CancellingSound'
    BY <1>1, <1>5, CancelMoves DEF VoidHold, RefundDropsHold
  <2>2. UNCHANGED <<inst, booking, work, intent>>
    BY <1>5, CancelDoesNothing DEF VoidHold, RefundDropsHold
  <2>3. QED BY <2>1, <2>2, CancellingOnly
<1>6. CASE VoidDone \/ RefundDone \/ CrashCancelling
  BY <1>1, <1>6, CancelMoves, CancellingOnly DEF VoidDone, RefundDone, CrashCancelling, chargingVars
<1>7. QED BY <1>3, <1>4, <1>5, <1>6

\* The cancellation refunds what is paid (refundParts).
LEMMA RefundSteps ==
  ASSUME IInv, RefundAtStripe \/ RecordRefund
  PROVE  IInv'
<1>1. cancelling.todo # <<>>
  BY DEF RefundAtStripe, RecordRefund, At, IInv, CancellingSound
<1>2. Visited \in Installments /\ SeenRow \in Rows /\ Tail(cancelling.todo) \in Seq(Installments)
  BY <1>1, CancelMoves
<1>3. Take \in Int
  <2>1. SeenRow.amount \in Int /\ SeenRow.refunded \in Int
    BY <1>2 DEF Rows
  <2>2. SeenLeft \in Int
    BY <2>1 DEF SeenLeft
  <2>3. cancelling.left \in Int
    BY DEF IInv, CancellingSound
  <2>4. QED BY <2>2, <2>3 DEF Take, SmallerOf
<1>4. CASE RefundAtStripe
  <2>1. CancellingSound'
    <3>1. "refunded" \in CancelPlaces
      BY DEF CancelPlaces
    <3>2. QED BY <1>1, <1>4, <3>1, CancelMoves DEF RefundAtStripe
  <2>2. IntentsSound' /\ IntentsKept
    <3>1. CASE UNCHANGED intent
      BY <3>1, SameIntents
    <3>2. CASE ~ UNCHANGED intent
      <4> DEFINE n == SeenRow.pi
                 r == [intent[n] EXCEPT !.back = intent[n].back + Take]
      <4>1. n \in Intents /\ intent' = [intent EXCEPT ![n] = r]
        BY <1>4, <3>2 DEF RefundAtStripe, CanRefund, IInv, IntentsSound
      <4>2. intent[n] \in Succeeded
        BY <4>1 DEF IInv, IntentsSound
      <4>3. intent[n].back + Take \in Int
        BY <1>3, <4>2 DEF Succeeded
      <4>4. r \in Succeeded /\ r.of = intent[n].of /\ r.state = intent[n].state /\ r.told = intent[n].told /\ r.news = intent[n].news
        BY <4>2, <4>3 DEF Succeeded
      <4>5. r.told # {} \/ r.news # {} => r.of \in Installments
        BY <4>1, <4>4 DEF IInv, IntentsSound
      <4> HIDE DEF n, r
      <4>6. QED BY <4>1, <4>4, <4>5, IntentUpdate
    <3>3. QED BY <3>1, <3>2
  <2>3. /\ inst' \in [Installments -> Rows] /\ booking' \in BookingRows /\ booking'.card
        /\ \A i \in Installments : Open(i)' => Open(i)
    BY <1>4 DEF RefundAtStripe, IInv, Open
  <2>4. QED BY <1>4, <2>1, <2>2, <2>3, OtherStep DEF RefundAtStripe
<1>5. CASE RecordRefund
  <2>1. CancellingSound'
    <3>1. cancelling.left - Take \in Int
      BY <1>3 DEF IInv, CancellingSound
    <3>2. "refund" \in CancelPlaces
      BY DEF CancelPlaces
    <3>3. PICK t \in Seq(Installments) : t = Tail(cancelling.todo)
      BY <1>2
    <3>4. PICK l \in Int : l = cancelling.left - Take
      BY <3>1
    <3>5. cancelling' = [cancelling EXCEPT !.at = "refund", !.todo = t, !.left = l]
      BY <1>5, <3>3, <3>4 DEF RecordRefund
    <3>6. QED BY <3>2, <3>5 DEF IInv, CancellingSound
  <2>2. PICK s \in {"REFUNDED", "PAID"} : s = IF Take >= SeenLeft THEN "REFUNDED" ELSE "PAID"
    OBVIOUS
  <2>3. PICK i \in Installments : i = Visited
    BY <1>2
  <2>4. inst[i] \in Rows
    BY DEF IInv
  <2>5. inst[i].refunded \in Int
    BY <2>4 DEF Rows
  <2>6. PICK a \in Int : a = inst[i].refunded + Take
    BY <1>3, <2>5
  <2> DEFINE r == [inst[i] EXCEPT !.refunded = a, !.status = s]
  <2>7. inst' = [inst EXCEPT ![i] = r]
    BY <1>5, <2>2, <2>3, <2>6 DEF RecordRefund, IInv
  <2>8. r \in Rows /\ r.status = s
    BY <2>4 DEF Rows, InstallmentStatus
  <2> HIDE DEF r
  <2>9. QED BY <1>5, <2>1, <2>7, <2>8, RowClosed DEF RecordRefund, OpenStatus
<1>6. QED BY <1>4, <1>5

----------------------------------------------------------------------------
(* The theorems.                                                           *)

\* Every step keeps the invariant.
LEMMA StepIInv ==
  ASSUME PlainBooking, IInv, [Next]_vars
  PROVE  IInv'
<1>1. ASSUME NEW w \in Workers, Begin(w), UNCHANGED cancelling PROVE IInv'
  <2>1. ASSUME NEW i \in Installments, SelectDue(w, i) PROVE IInv'
    BY <1>1, <2>1, ReadingSteps
  <2>2. ASSUME NEW i \in Installments, RetryInstallment(w, i) PROVE IInv'
    BY <1>1, <2>2, RetrySteps
  <2>3. ASSUME NEW i \in Installments, GiveBack(w, i) PROVE IInv'
    BY <1>1, <2>3, SurroundingSteps
  <2>4. ASSUME NEW n \in Intents, Deliver(w, n) PROVE IInv'
    BY <1>1, <2>4, EventSteps
  <2>5. CASE Complete(w)
    BY <1>1, <2>5, SurroundingSteps
  <2>6. QED BY <1>1, <2>1, <2>2, <2>3, <2>4, <2>5 DEF Begin
<1>2. ASSUME NEW w \in Workers, Step(w), UNCHANGED cancelling PROVE IInv'
  <2>1. CASE FindNothingToCharge(w) \/ FindBookingEnded(w) \/ ReadForCharge(w)
    BY <1>2, <2>1, ReadingSteps
  <2>2. CASE CallOff(w) \/ ClaimAttempt(w)
    BY <1>2, <2>2, CallOffStep, ClaimStep
  <2>3. CASE ChargeSavedCard(w) \/ ChargeFails(w) \/ MarkPaid(w)
    BY <1>2, <2>3, ChargeSteps, MarkPaidStep
  <2>4. CASE \/ LookForUndo(w) \/ HandBack(w) \/ RecordHandedBack(w)
             \/ DropHold(w) \/ RecordDropped(w) \/ LookForHold(w)
    BY <1>2, <2>4, UndoSteps
  <2>5. CASE RecordFailure(w) \/ StartWindow(w) \/ RecordMissedDeposit(w)
    BY <1>2, <2>5, FailureSteps
  <2>6. CASE SaveNewCard(w) \/ ResetAttempts(w)
    BY <1>2, <2>6, RetrySteps
  <2>7. CASE Reconcile(w)
    BY <1>2, <2>7, EventSteps
  <2>8. QED BY <1>2, <2>1, <2>2, <2>3, <2>4, <2>5, <2>6, <2>7, NoHoldSteps DEF Step
<1>3. ASSUME NEW w \in Workers, Crash(w), UNCHANGED cancelling PROVE IInv'
  BY <1>3, EventSteps
<1>4. CASE Surroundings /\ UNCHANGED cancelling
  BY <1>4, SurroundingSteps
<1>5. CASE LoadToCancel \/ SelectOverdue \/ CancelStep \/ CrashCancelling
  BY <1>5, StartSteps, BookingSteps, VisitSteps, RefundSteps DEF CancelStep
<1>6. CASE UNCHANGED vars
  <2>1. UNCHANGED <<inst, booking, work, intent, cancelling>>
    BY <1>6 DEF vars
  <2>2. QED BY <2>1, SameCancelling, CancellingOnly
<1>7. QED BY <1>1, <1>2, <1>3, <1>4, <1>5, <1>6 DEF Next

\* The rows, Stripe's intents, the handlers and a cancellation keep their types, no two
\* handlers own one installment's attempt, and one intent at most is charged for it
\* (chargeInstallment's claim, retryInstallment's compare-and-set).
THEOREM IInvHolds == ASSUME PlainBooking PROVE Spec => []IInv
<1>1. Init => IInv
  BY InitIInv
<1>2. IInv /\ [Next]_vars => IInv'
  BY StepIInv
<1>3. QED BY <1>1, <1>2, PTL DEF Spec

\* A charge under way at Stripe is the only one of its installment
\* (chargeInstallment's claim).
THEOREM OneCall == ASSUME PlainBooking PROVE Spec => []OneCallAtATime
<1>1. IInv => OneCallAtATime
  <2> SUFFICES ASSUME IInv, NEW v \in Workers, NEW w \in Workers,
                      work[v].at = "call", work[w].at = "call", Mine(v) = Mine(w)
               PROVE  v = w
    BY DEF OneCallAtATime
  <2>1. work[v].i \in Installments
    BY DEF IInv, Sound
  <2>2. Owns(work[v], work[v].i) /\ Owns(work[w], work[v].i)
    BY DEF Owns, OwnerPlaces, Mine
  <2>3. QED BY <2>1, <2>2 DEF IInv
<1>2. QED BY <1>1, IInvHolds, PTL

\* However the sweep, the customer's retries, the events and crashes fall
\* together, an installment is charged once, as long as the answer of every
\* charge reaches its handler (chargeInstallment, markPaid, retryInstallment).
THEOREM NoDoubleCharge ==
  ASSUME PlainBooking, AnswersLost = FALSE PROVE Spec => []NeverChargedTwice
<1>1. IInv => NeverChargedTwice
  <2> SUFFICES ASSUME IInv, NEW m \in Intents, NEW n \in Intents,
                      Live(m), Live(n), intent[m].of = intent[n].of
               PROVE  m = n
    BY DEF NeverChargedTwice
  <2>1. \A k \in Intents : intent[k].state \in {"unused", "succeeded"}
    BY DEF IInv, IntentsSound, Succeeded
  <2>2. Charged(m) /\ Charged(n)
    BY <2>1 DEF Live, Kept, Charged
  <2>3. QED BY <2>2 DEF IInv, ChargedOnce
<1>2. QED BY <1>1, IInvHolds, PTL

----------------------------------------------------------------------------
(* Captures, for every booking: with holds or without, whatever is lost.   *)

\* A hold is about to be captured only after the job was completed, and a completed
\* booking is never cancelled.  The rest says that the records have their fields.
CaptureInv ==
  /\ "status" \in DOMAIN booking
  /\ DOMAIN work = Workers /\ \A w \in Workers : "at" \in DOMAIN work[w]
  /\ DOMAIN intent = Intents /\ \A n \in Intents : "state" \in DOMAIN intent[n]
  /\ \A w \in Workers : work[w].at = "holds" => booking.status = "COMPLETED"

\* What a step may make of the handlers, of the booking and of the intents.
WorkFits ==
  /\ DOMAIN work' = Workers
  /\ \A v \in Workers : /\ "at" \in DOMAIN work'[v]
                        /\ work'[v].at = "holds" =>
                             work[v].at = "holds" \/ booking.status = "COMPLETED"
BookingFits ==
  /\ "status" \in DOMAIN booking'
  /\ booking.status = "COMPLETED" => booking'.status = "COMPLETED"
IntentsFit ==
  /\ DOMAIN intent' = Intents
  /\ \A n \in Intents : /\ "state" \in DOMAIN intent'[n]
                        /\ intent'[n].state = "succeeded" =>
                             intent[n].state \in {"succeeded", "unused"}

\* A handler that does not go to "holds".
LEMMA WorkMoves ==
  ASSUME CaptureInv, NEW w \in Workers, NEW m, work' = [work EXCEPT ![w] = m],
         "at" \in DOMAIN m, m.at = "holds" => booking.status = "COMPLETED"
  PROVE  WorkFits
<1>1. DOMAIN work' = Workers
  BY DEF CaptureInv
<1>2. \A v \in Workers : work'[v] = IF v = w THEN m ELSE work[v]
  BY DEF CaptureInv
<1>3. QED BY <1>1, <1>2 DEF WorkFits, CaptureInv

\* The ways a handler goes on.
LEMMA WorkGoesOn ==
  ASSUME CaptureInv, NEW w \in Workers
  PROVE  /\ Done(w) => WorkFits
         /\ \A p : p # "holds" => (Goto(w, p) => WorkFits) /\ (Forward(w, p) => WorkFits)
         /\ AfterUndo(w) => WorkFits
         /\ UNCHANGED work => WorkFits
<1>1. ASSUME Done(w) PROVE WorkFits
  <2>1. PICK m : m = Idle
    OBVIOUS
  <2>2. "at" \in DOMAIN m /\ m.at # "holds"
    BY <2>1 DEF Idle
  <2>3. QED BY <1>1, <2>1, <2>2, WorkMoves DEF Done
<1>2. ASSUME NEW p, p # "holds", Goto(w, p) PROVE WorkFits
  <2>1. PICK m : m = [work[w] EXCEPT !.at = p]
    OBVIOUS
  <2>2. "at" \in DOMAIN m /\ m.at # "holds"
    BY <1>2, <2>1 DEF CaptureInv
  <2>3. work' = [work EXCEPT ![w] = m]
    BY <1>2, <2>1 DEF Goto, CaptureInv
  <2>4. QED BY <2>2, <2>3, WorkMoves
<1>3. ASSUME NEW p, p # "holds", Forward(w, p) PROVE WorkFits
  <2>1. PICK m : m = [Idle EXCEPT !.at = p, !.i = work[w].i, !.hold = work[w].hold,
                                  !.event = work[w].event, !.from = work[w].from]
    OBVIOUS
  <2>2. "at" \in DOMAIN m /\ m.at # "holds"
    BY <1>3, <2>1 DEF Idle
  <2>3. QED BY <1>3, <2>1, <2>2, WorkMoves DEF Forward
<1>4. ASSUME AfterUndo(w) PROVE WorkFits
  BY <1>1, <1>3, <1>4 DEF AfterUndo
<1>5. ASSUME UNCHANGED work PROVE WorkFits
  BY <1>5 DEF WorkFits, CaptureInv
<1>6. QED BY <1>1, <1>2, <1>3, <1>4, <1>5

\* Only LookForHold goes to "holds", and only of a completed booking.
LEMMA WorkStep ==
  ASSUME CaptureInv, NEW w \in Workers, Begin(w) \/ Step(w) \/ Crash(w)
  PROVE  WorkFits
<1>1. CASE FindNothingToCharge(w) \/ FindBookingEnded(w) \/ CallOff(w) \/ ClaimAttempt(w)
           \/ MarkPaid(w) \/ HandBack(w) \/ RecordHandedBack(w) \/ DropHold(w)
           \/ RecordDropped(w) \/ CaptureHold(w) \/ RecordCaptured(w)
           \/ RecordCaptureFailed(w) \/ RecordFailure(w) \/ StartWindow(w)
           \/ RecordMissedDeposit(w) \/ SaveNewCard(w) \/ RecordCanceled(w)
           \/ OnBookingCompleted(w) \/ LetGoOfHold(w) \/ Crash(w)
  BY <1>1, WorkGoesOn
     DEF FindNothingToCharge, FindBookingEnded, CallOff, ClaimAttempt, MarkPaid, HandBack,
         RecordHandedBack, DropHold, RecordDropped, CaptureHold, RecordCaptured,
         RecordCaptureFailed, RecordFailure, StartWindow, RecordMissedDeposit, SaveNewCard,
         RecordCanceled, OnBookingCompleted, LetGoOfHold, Crash
<1>2. CASE MarkAuthorized(w)
  <2>1. PICK p \in {"undo", "capture"} : Forward(w, p)
    BY <1>2 DEF MarkAuthorized
  <2>2. QED BY <2>1, WorkGoesOn
<1>3. CASE Reconcile(w)
  <2>1. PICK p : p = Reaction(work[w].event, Row(w).status)
    OBVIOUS
  <2>2. p # "holds"
    BY <2>1 DEF Reaction
  <2>3. Done(w) \/ Goto(w, p)
    BY <1>3, <2>1 DEF Reconcile
  <2>4. QED BY <2>2, <2>3, WorkGoesOn
<1>4. CASE ReadForCharge(w)
  <2>1. PICK p \in {"claim", "fail"} : work' = [work EXCEPT ![w] = AsRead(w, p)]
    BY <1>4 DEF ReadForCharge
  <2>2. PICK m : m = AsRead(w, p)
    OBVIOUS
  <2>3. "at" \in DOMAIN m /\ m.at # "holds"
    BY <2>1, <2>2 DEF AsRead, CaptureInv
  <2>4. QED BY <2>1, <2>2, <2>3, WorkMoves
<1>5. CASE ChargeSavedCard(w)
  <2>1. PICK n \in Intents, p \in {"fail", "held", "paid"} :
          work' = [work EXCEPT ![w] = [work[w] EXCEPT !.n = n, !.at = p]]
    BY <1>5 DEF ChargeSavedCard, CaptureInv
  <2>2. PICK m : m = [work[w] EXCEPT !.n = n, !.at = p]
    OBVIOUS
  <2>3. "at" \in DOMAIN m /\ m.at # "holds"
    BY <2>1, <2>2 DEF CaptureInv
  <2>4. QED BY <2>1, <2>2, <2>3, WorkMoves
<1>6. CASE ChargeFails(w)
  <2>1. PICK needs, n :
          work' = [work EXCEPT ![w] = [work[w] EXCEPT !.at = "fail", !.needs = needs, !.n = n]]
    BY <1>6 DEF ChargeFails, CaptureInv
  <2>2. PICK m : m = [work[w] EXCEPT !.at = "fail", !.needs = needs, !.n = n]
    OBVIOUS
  <2>3. "at" \in DOMAIN m /\ m.at # "holds"
    BY <2>2 DEF CaptureInv
  <2>4. QED BY <2>1, <2>2, <2>3, WorkMoves
<1>7. CASE LookForUndo(w)
  <2>1. CASE NothingToUndo(w)
    BY <1>7, <2>1, WorkGoesOn DEF LookForUndo
  <2>2. CASE ~ NothingToUndo(w)
    <3>1. PICK p \in {"handBack", "dropHold"} :
            p = IF Row(w).status = "PAID" THEN "handBack" ELSE "dropHold"
      OBVIOUS
    <3>2. PICK n, a : n = Row(w).pi /\ a = Left(Mine(w))
      OBVIOUS
    <3>3. /\ p \in {"handBack", "dropHold"}
          /\ work' = [work EXCEPT ![w] = [work[w] EXCEPT !.at = p, !.n = n, !.amount = a]]
      BY <1>7, <2>2, <3>1, <3>2 DEF LookForUndo, CaptureInv
    <3>4. PICK m : m = [work[w] EXCEPT !.at = p, !.n = n, !.amount = a]
      OBVIOUS
    <3>5. "at" \in DOMAIN m /\ m.at # "holds"
      BY <3>3, <3>4 DEF CaptureInv
    <3>6. QED BY <3>3, <3>4, <3>5, WorkMoves
  <2>3. QED BY <2>1, <2>2
<1>8. CASE LookForHold(w)
  <2>1. CASE HoldToCapture(w)
    <3>1. PICK n, a :
            work' = [work EXCEPT ![w] = [work[w] EXCEPT !.at = "holds", !.n = n, !.amount = a]]
      BY <1>8, <2>1 DEF LookForHold, CaptureInv
    <3>2. PICK m : m = [work[w] EXCEPT !.at = "holds", !.n = n, !.amount = a]
      OBVIOUS
    <3>3. "at" \in DOMAIN m /\ booking.status = "COMPLETED"
      BY <2>1, <3>2 DEF CaptureInv, HoldToCapture
    <3>4. QED BY <3>1, <3>2, <3>3, WorkMoves
  <2>2. CASE ~ HoldToCapture(w)
    BY <1>8, <2>2, WorkGoesOn DEF LookForHold
  <2>3. QED BY <2>1, <2>2
<1>9. CASE ResetAttempts(w)
  <2>1. CASE AsSeen(w)
    <3>1. PICK m : m = [Idle EXCEPT !.at = "read", !.i = Mine(w), !.card = work[w].card]
      OBVIOUS
    <3>2. "at" \in DOMAIN m /\ m.at # "holds"
      BY <3>1 DEF Idle
    <3>3. QED BY <1>9, <2>1, <3>1, <3>2, WorkMoves DEF ResetAttempts
  <2>2. CASE ~ AsSeen(w)
    BY <1>9, <2>2, WorkGoesOn DEF ResetAttempts
  <2>3. QED BY <2>1, <2>2
<1>10. ASSUME NEW i \in Installments, SelectDue(w, i) PROVE WorkFits
  <2>1. PICK m : m = [Idle EXCEPT !.at = "read", !.i = i]
    OBVIOUS
  <2>2. "at" \in DOMAIN m /\ m.at # "holds"
    BY <2>1 DEF Idle
  <2>3. QED BY <1>10, <2>1, <2>2, WorkMoves DEF SelectDue
<1>11. ASSUME NEW i \in Installments, RetryInstallment(w, i) PROVE WorkFits
  <2>1. PICK card \in BOOLEAN :
          work' = [work EXCEPT ![w] =
            [Idle EXCEPT !.at = IF card THEN "newCard" ELSE "reset", !.i = i,
               !.status = inst[i].status, !.attempts = inst[i].attempts, !.card = card]]
    BY <1>11 DEF RetryInstallment
  <2>2. PICK p \in {"newCard", "reset"} : p = IF card THEN "newCard" ELSE "reset"
    OBVIOUS
  <2>3. PICK m : m = [Idle EXCEPT !.at = p, !.i = i, !.status = inst[i].status,
                                  !.attempts = inst[i].attempts, !.card = card]
    OBVIOUS
  <2>4. "at" \in DOMAIN m /\ m.at # "holds"
    BY <2>2, <2>3 DEF Idle
  <2>5. QED BY <2>1, <2>2, <2>3, <2>4, WorkMoves
<1>12. ASSUME NEW i \in Installments, GiveBack(w, i) PROVE WorkFits
  <2>1. PICK m : m = [Idle EXCEPT !.at = "letGo", !.i = i, !.n = inst[i].pi]
    OBVIOUS
  <2>2. "at" \in DOMAIN m /\ m.at # "holds"
    BY <2>1 DEF Idle
  <2>3. UNCHANGED work \/ work' = [work EXCEPT ![w] = m]
    BY <1>12, <2>1 DEF GiveBack
  <2>4. QED BY <2>2, <2>3, WorkMoves, WorkGoesOn
<1>13. ASSUME NEW n \in Intents, Deliver(w, n) PROVE WorkFits
  <2>1. PICK e : work' = [work EXCEPT ![w] = [Idle EXCEPT !.at = "hook", !.i = intent[n].of,
                                                          !.n = n, !.event = e, !.from = n]]
    BY <1>13 DEF Deliver
  <2>2. PICK m : m = [Idle EXCEPT !.at = "hook", !.i = intent[n].of, !.n = n, !.event = e,
                                  !.from = n]
    OBVIOUS
  <2>3. "at" \in DOMAIN m /\ m.at # "holds"
    BY <2>2 DEF Idle
  <2>4. QED BY <2>1, <2>2, <2>3, WorkMoves
<1>14. CASE Complete(w)
  <2>1. CASE UNCHANGED work
    BY <2>1, WorkGoesOn
  <2>2. CASE ~ UNCHANGED work
    <3>1. PICK i : work' = [work EXCEPT ![w] = [Idle EXCEPT !.at = "complete", !.i = i]]
      BY <1>14, <2>2 DEF Complete
    <3>2. PICK m : m = [Idle EXCEPT !.at = "complete", !.i = i]
      OBVIOUS
    <3>3. "at" \in DOMAIN m /\ m.at # "holds"
      BY <3>2 DEF Idle
    <3>4. QED BY <3>1, <3>2, <3>3, WorkMoves
  <2>3. QED BY <2>1, <2>2
<1>15. CASE Begin(w)
  BY <1>10, <1>11, <1>12, <1>13, <1>14, <1>15 DEF Begin
<1>16. QED BY <1>1, <1>2, <1>3, <1>4, <1>5, <1>6, <1>7, <1>8, <1>9, <1>15 DEF Step

\* A booking that is completed stays so.
LEMMA BookingStep ==
  ASSUME CaptureInv, Next
  PROVE  BookingFits
<1>1. CASE UNCHANGED booking
  BY <1>1 DEF BookingFits, CaptureInv
<1>2. CASE ClearWindow \/ ClaimCancellation \/ DeadlinePasses
  BY <1>2 DEF ClearWindow, ClaimCancellation, Cancellable, DeadlinePasses, BookingFits, CaptureInv
<1>3. CASE \E w \in Workers : Complete(w) \/ StartWindow(w) \/ SaveNewCard(w)
  BY <1>3 DEF Complete, StartWindow, SaveNewCard, BookingFits, CaptureInv
<1>4. CASE \E w \in Workers : MarkPaid(w) \/ RecordCaptured(w)
  <2>1. PICK i : booking' = booking \/ booking' = WindowAfterPaying(i)
    BY <1>4 DEF MarkPaid, RecordCaptured, RecordPayment
  <2>2. QED BY <2>1 DEF WindowAfterPaying, BookingFits, CaptureInv
<1>5. ASSUME NEW w \in Workers, Begin(w) \/ Crash(w) PROVE BookingFits
  BY <1>1, <1>3, <1>5 DEF Begin, SelectDue, RetryInstallment, GiveBack, Deliver, Crash
<1>6. ASSUME NEW w \in Workers, Step(w) PROVE BookingFits
  BY <1>1, <1>3, <1>4, <1>6
     DEF Step, FindNothingToCharge, FindBookingEnded, ReadForCharge, CallOff, ClaimAttempt,
         ChargeSavedCard, ChargeFails, MarkAuthorized, LookForUndo, HandBack,
         RecordHandedBack, DropHold, RecordDropped, OnBookingCompleted, LookForHold, CaptureHold,
         RecordCaptureFailed, RecordFailure, RecordMissedDeposit, ResetAttempts, Reconcile,
         RecordCanceled, LetGoOfHold
<1>7. CASE Surroundings
  BY <1>1, <1>2, <1>7 DEF Surroundings, DueDatePasses, RetryDatePasses, HoldExpires
<1>8. CASE LoadToCancel \/ SelectOverdue \/ CancelStep \/ CrashCancelling
  BY <1>1, <1>2, <1>8
     DEF LoadToCancel, SelectOverdue, CancelStep, CrashCancelling, LoadForNonPayment, SetTerms,
         LookForOpen, VoidUnpaid, VoidNothing, VoidHold, RecordVoidedHold, VoidDone,
         ReadForRefund, RefundCallsOff, RefundDropsHold, RecordDroppedHold, RefundNothing,
         RefundAtStripe, RecordRefund, RefundDone, chargingVars
<1>9. QED BY <1>5, <1>6, <1>7, <1>8 DEF Next

\* One intent becomes r.
LEMMA IntentMoves ==
  ASSUME CaptureInv, NEW x, NEW r, intent' = [intent EXCEPT ![x] = r],
         x \in Intents => /\ "state" \in DOMAIN r
                          /\ r.state = "succeeded" => intent[x].state \in {"succeeded", "unused"}
  PROVE  IntentsFit
<1>1. DOMAIN intent' = Intents
  BY DEF CaptureInv
<1>2. \A n \in Intents : intent'[n] = IF n = x THEN r ELSE intent[n]
  BY DEF CaptureInv
<1>3. ASSUME NEW n \in Intents
      PROVE  /\ "state" \in DOMAIN intent'[n]
             /\ intent'[n].state = "succeeded" => intent[n].state \in {"succeeded", "unused"}
  <2>1. CASE n = x
    <3>1. intent'[x] = r /\ x \in Intents
      BY <1>2, <2>1
    <3>2. /\ "state" \in DOMAIN r
          /\ r.state = "succeeded" => intent[x].state \in {"succeeded", "unused"}
      BY <3>1
    <3>3. QED BY <2>1, <3>1, <3>2
  <2>2. CASE n # x
    BY <1>2, <2>2 DEF CaptureInv
  <2>3. QED BY <2>1, <2>2
<1>4. QED BY <1>1, <1>3 DEF IntentsFit

\* Stripe cancels an intent, or does nothing.
LEMMA IntentCancelled ==
  ASSUME CaptureInv, NEW x, Cancel(x)
  PROVE  IntentsFit
<1>1. CASE UNCHANGED intent
  BY <1>1 DEF IntentsFit, CaptureInv
<1>2. CASE ~ UNCHANGED intent
  <2>1. PICK r : r = Becomes(intent[x], "canceled")
    OBVIOUS
  <2>2. intent' = [intent EXCEPT ![x] = r] /\ x \in Intents
    BY <1>2, <2>1 DEF Cancel, CaptureInv
  <2>3. "state" \in DOMAIN r /\ r.state = "canceled"
    BY <2>1, <2>2 DEF Becomes, CaptureInv
  <2>4. QED BY <2>2, <2>3, IntentMoves
<1>3. QED BY <1>1, <1>2

\* Nothing but a capture turns a hold into a charge.
LEMMA IntentStep ==
  ASSUME CaptureInv, Next, \A w \in Workers : ~ CaptureHold(w)
  PROVE  IntentsFit
<1>1. CASE UNCHANGED intent
  BY <1>1 DEF IntentsFit, CaptureInv
<1>2. CASE VoidHold \/ RefundDropsHold \/ (\E n \in Intents : HoldExpires(n))
           \/ \E w \in Workers : DropHold(w) \/ LetGoOfHold(w)
  BY <1>2, IntentCancelled DEF VoidHold, RefundDropsHold, HoldExpires, DropHold, LetGoOfHold
<1>3. CASE RefundAtStripe /\ ~ UNCHANGED intent
  <2>1. PICK r : r = [intent[SeenRow.pi] EXCEPT !.back = intent[SeenRow.pi].back + Take]
    OBVIOUS
  <2>2. intent' = [intent EXCEPT ![SeenRow.pi] = r]
    BY <1>3, <2>1 DEF RefundAtStripe, CaptureInv
  <2>3. SeenRow.pi \in Intents => "state" \in DOMAIN r /\ r.state = intent[SeenRow.pi].state
    BY <2>1 DEF CaptureInv
  <2>4. QED BY <2>2, <2>3, IntentMoves
<1>4. ASSUME NEW w \in Workers, HandBack(w), ~ UNCHANGED intent PROVE IntentsFit
  <2>1. PICK n : n = work[w].n
    OBVIOUS
  <2>2. PICK a : a = work[w].amount
    OBVIOUS
  <2>3. n \in Intents /\ intent' = [intent EXCEPT ![n].back = intent[n].back + a, ![n].undone = a]
    BY <1>4, <2>1, <2>2 DEF HandBack, CanRefund
  <2>4. PICK r : r = [intent[n] EXCEPT !.back = intent[n].back + a, !.undone = a]
    OBVIOUS
  <2>5. intent' = [intent EXCEPT ![n] = r]
    BY <2>3, <2>4 DEF CaptureInv
  <2>6. "state" \in DOMAIN r /\ r.state = intent[n].state
    BY <2>3, <2>4 DEF CaptureInv
  <2>7. QED BY <2>3, <2>5, <2>6, IntentMoves
<1>5. ASSUME NEW w \in Workers, ChargeSavedCard(w) PROVE IntentsFit
  <2>1. PICK n, s :
          /\ n \in Intents
          /\ intent[n].state = "unused"
          /\ intent' = [intent EXCEPT ![n] = Created(Mine(w), work[w].amount, s)]
    BY <1>5 DEF ChargeSavedCard
  <2>2. PICK r : r = Created(Mine(w), work[w].amount, s)
    OBVIOUS
  <2>3. "state" \in DOMAIN r
    BY <2>2 DEF Created, Becomes, Unused
  <2>4. QED BY <2>1, <2>2, <2>3, IntentMoves
<1>6. ASSUME NEW w \in Workers, Crash(w) \/ \E n \in Intents : Deliver(w, n),
             ~ UNCHANGED intent
      PROVE  IntentsFit
  <2>1. PICK x, e : intent' = [intent EXCEPT ![x] = [intent[x] EXCEPT !.news = e]]
    <3>1. CASE Crash(w)
      <4>1. PICK x : x = work[w].from
        OBVIOUS
      <4>2. intent' = [intent EXCEPT ![x] = [intent[x] EXCEPT
                         !.news = intent[x].news \cup {work[w].event}]]
        BY <1>6, <3>1, <4>1 DEF Crash, CaptureInv
      <4>3. QED BY <4>2
    <3>2. CASE \E n \in Intents : Deliver(w, n)
      <4>1. PICK n \in Intents : Deliver(w, n)
        BY <3>2
      <4>2. PICK e : intent' = [intent EXCEPT ![n] = [intent[n] EXCEPT
                                                       !.news = intent[n].news \ {e}]]
        BY <4>1 DEF Deliver, CaptureInv
      <4>3. QED BY <4>2
    <3>3. QED BY <1>6, <3>1, <3>2
  <2>2. PICK r : r = [intent[x] EXCEPT !.news = e]
    OBVIOUS
  <2>3. x \in Intents => "state" \in DOMAIN r /\ r.state = intent[x].state
    BY <2>2 DEF CaptureInv
  <2>4. QED BY <2>1, <2>2, <2>3, IntentMoves
<1>7. ASSUME NEW w \in Workers, Begin(w) \/ Crash(w) PROVE IntentsFit
  BY <1>1, <1>6, <1>7 DEF Begin, SelectDue, RetryInstallment, GiveBack, Complete
<1>8. ASSUME NEW w \in Workers, Step(w) PROVE IntentsFit
  BY <1>1, <1>2, <1>4, <1>5, <1>8
     DEF Step, FindNothingToCharge, FindBookingEnded, ReadForCharge, CallOff, ClaimAttempt,
         ChargeFails, MarkPaid, MarkAuthorized, LookForUndo,
         RecordHandedBack, RecordDropped, OnBookingCompleted, LookForHold, RecordCaptured,
         RecordCaptureFailed, RecordFailure, StartWindow, RecordMissedDeposit, SaveNewCard,
         ResetAttempts, Reconcile, RecordCanceled
<1>9. CASE Surroundings
  BY <1>1, <1>2, <1>9 DEF Surroundings, DueDatePasses, RetryDatePasses, DeadlinePasses
<1>10. CASE LoadToCancel \/ SelectOverdue \/ CancelStep \/ CrashCancelling
  BY <1>1, <1>2, <1>3, <1>10
     DEF LoadToCancel, SelectOverdue, CancelStep, CrashCancelling, ClearWindow,
         LoadForNonPayment, ClaimCancellation, SetTerms, LookForOpen, VoidUnpaid, VoidNothing,
         RecordVoidedHold, VoidDone, ReadForRefund, RefundCallsOff, RecordDroppedHold,
         RefundNothing, RecordRefund, RefundDone, chargingVars
<1>11. QED BY <1>7, <1>8, <1>9, <1>10 DEF Next

\* A capture leaves the fields of the intents.
LEMMA CaptureStep ==
  ASSUME CaptureInv, NEW w \in Workers, CaptureHold(w)
  PROVE  DOMAIN intent' = Intents /\ \A n \in Intents : "state" \in DOMAIN intent'[n]
<1>1. CASE UNCHANGED intent
  BY <1>1 DEF CaptureInv
<1>2. CASE ~ UNCHANGED intent
  <2>1. PICK n : n = work[w].n
    OBVIOUS
  <2>2. PICK r : r = Becomes([intent[n] EXCEPT !.taken = work[w].amount], "succeeded")
    OBVIOUS
  <2>3. intent' = [intent EXCEPT ![n] = r] /\ n \in Intents
    BY <1>2, <2>1, <2>2 DEF CaptureHold, Capture, CanCapture, CaptureInv
  <2>4. "state" \in DOMAIN r
    BY <2>2, <2>3 DEF Becomes, CaptureInv
  <2>5. QED BY <2>3, <2>4 DEF CaptureInv
<1>3. QED BY <1>1, <1>2

\* Every step keeps the invariant.
LEMMA StepCaptureInv ==
  ASSUME CaptureInv, [Next]_vars
  PROVE  CaptureInv'
<1>1. CASE Next
  <2>1. WorkFits
    <3>1. CASE UNCHANGED work
      BY <3>1 DEF WorkFits, CaptureInv
    <3>2. CASE ~ UNCHANGED work
      <4>1. PICK w \in Workers : Begin(w) \/ Step(w) \/ Crash(w)
        BY <1>1, <3>2
           DEF Next, Surroundings, DueDatePasses, RetryDatePasses, HoldExpires, DeadlinePasses,
               LoadToCancel, SelectOverdue, CancelStep, CrashCancelling, ClearWindow,
               LoadForNonPayment, ClaimCancellation, SetTerms, LookForOpen, VoidUnpaid,
               VoidNothing, VoidHold, RecordVoidedHold, VoidDone, ReadForRefund,
               RefundCallsOff, RefundDropsHold, RecordDroppedHold, RefundNothing,
               RefundAtStripe, RecordRefund, RefundDone, chargingVars
      <4>2. QED BY <4>1, WorkStep
    <3>3. QED BY <3>1, <3>2
  <2>2. BookingFits
    BY <1>1, BookingStep
  <2>3. DOMAIN intent' = Intents /\ \A n \in Intents : "state" \in DOMAIN intent'[n]
    BY <1>1, IntentStep, CaptureStep DEF IntentsFit
  <2>4. QED BY <2>1, <2>2, <2>3 DEF WorkFits, BookingFits, CaptureInv
<1>2. CASE UNCHANGED vars
  BY <1>2 DEF vars, CaptureInv
<1>3. QED BY <1>1, <1>2

\* A hold of a cancelled booking is never captured, for every booking, with crashes,
\* lost answers and repeated events (captureIfCompleted, onBookingCompleted, captureHold).
THEOREM NoLateCapture == Spec => CancelledNeverCaptured
<1>1. Init => CaptureInv
  BY DEF Init, ChargingInit, StripeInit, Idle, Unused, CaptureInv
<1>2. CaptureInv /\ [Next]_vars => CaptureInv'
  BY StepCaptureInv
<1>3. ASSUME CaptureInv, [Next]_vars
      PROVE  [\A n \in Intents : Ended /\ ~ booking.rental /\ intent[n].state = "requires_capture"
                                => intent'[n].state # "succeeded"]_vars
  <2> SUFFICES ASSUME Next, NEW n \in Intents, Ended, intent[n].state = "requires_capture"
               PROVE  intent'[n].state # "succeeded"
    BY <1>3
  <2>1. \A w \in Workers : ~ CaptureHold(w)
    BY <1>3 DEF CaptureHold, CaptureInv, Ended
  <2>2. QED BY <1>3, <2>1, IntentStep DEF IntentsFit
<1>4. QED BY <1>1, <1>2, <1>3, PTL DEF Spec, CancelledNeverCaptured

----------------------------------------------------------------------------
(* The fees of a rental's return (Deposit), for every booking.             *)

\* Intent n was made for installment i.
MadeFor(n, i) == intent[n].state # "unused" /\ intent[n].of = i

\* Every intent that was made is some installment's, and only those have events.
IntentTells(r) ==
  /\ "of" \in DOMAIN r /\ "state" \in DOMAIN r /\ "taken" \in DOMAIN r
  /\ "told" \in DOMAIN r /\ "news" \in DOMAIN r
  /\ r.state # "unused" => r.of \in Installments
  /\ r.state = "unused" => r.told = {} /\ r.news = {}

\* A row names an intent of its own installment.
RowTells(i, r) ==
  /\ "pi" \in DOMAIN r /\ "amount" \in DOMAIN r /\ r.amount \in Int
  /\ r.pi \in Intents => MadeFor(r.pi, i)

\* A handler works with an intent of its installment; it holds a rental's deposit
\* where it charges it, and never captures it.
MemoryTells(m) ==
  /\ "at" \in DOMAIN m /\ "i" \in DOMAIN m /\ "n" \in DOMAIN m
  /\ "hold" \in DOMAIN m /\ "event" \in DOMAIN m /\ "from" \in DOMAIN m
  /\ m.at # "idle" => m.i \in Installments
  /\ m.n \in Intents => MadeFor(m.n, m.i)
  /\ m.event # "none" /\ m.from \in Intents => intent[m.from].state # "unused"
  /\ booking.rental => /\ m.at # "holds"
                       /\ m.at \in {"claim", "call"} /\ m.i \in Holds => m.hold = TRUE

\* A settlement captures no more than the fees, of an intent of the deposit.
ReturnTells ==
  /\ "at" \in DOMAIN return /\ "fees" \in DOMAIN return /\ "n" \in DOMAIN return
  /\ "take" \in DOMAIN return /\ "kept" \in DOMAIN return /\ "asked" \in DOMAIN return
  /\ "trouble" \in DOMAIN return /\ "alone" \in DOMAIN return
  /\ return.fees \in Int /\ return.take \in Int
  /\ 0 <= return.fees /\ return.take <= return.fees
  /\ return.at = "none" => return.take = 0
  /\ return.n \in Intents => intent[return.n].state # "unused" /\ intent[return.n].of \in Holds

\* The places of a settlement that may have captured, and what it captured, kept
\* and asked for on its way.
CapturePlaces == {"relabel", "mark", "drop", "ask", "done", "stopped"}
FeesAddUp ==
  /\ \A n \in Captured :
       n = return.n /\ intent[n].taken = return.take /\ return.at \in CapturePlaces
  /\ return.at \in {"relabel", "mark"} => Captured # {}
  /\ return.at \notin {"ask", "done", "stopped"} => return.kept = 0
  /\ return.at # "done" => return.asked = 0
  /\ return.at = "drop" /\ Captured # {} => return.trouble = "lost"
  /\ return.at \in {"ask", "done"} /\ return.trouble # "lost" =>
       return.kept = IF Captured = {} THEN 0 ELSE return.take
  /\ return.at = "done" => return.asked = return.fees - return.kept

RowsTell == DOMAIN inst = Installments /\ \A i \in Installments : RowTells(i, inst[i])
MemoriesTell == DOMAIN work = Workers /\ \A w \in Workers : MemoryTells(work[w])
IntentsTell == DOMAIN intent = Intents /\ \A n \in Intents : IntentTells(intent[n])

\* The inductive invariant: what is captured of a rental's deposit, its one
\* settlement captured.
DepositInv ==
  /\ "rental" \in DOMAIN booking
  /\ RowsTell /\ MemoriesTell /\ IntentsTell /\ ReturnTells
  /\ booking.rental => FeesAddUp

----------------------------------------------------------------------------
(* What Stripe's intents may become.                                       *)

\* Intents stay what they were made for.
IntentsGrow ==
  /\ IntentsTell'
  /\ \A n \in Intents : intent[n].state # "unused" =>
       intent'[n].state # "unused" /\ intent'[n].of = intent[n].of

\* No money of a deposit is captured, or given a new amount.
Taken(n) == intent[n].of \in Holds /\ intent[n].state = "succeeded"
NoCapture ==
  \A n \in Intents : (Taken(n)' <=> Taken(n)) /\ (Taken(n) => intent'[n].taken = intent[n].taken)

\* One intent becomes r.
LEMMA IntentGrows ==
  ASSUME IntentsTell, NEW x, NEW r, intent' = [intent EXCEPT ![x] = r],
         x \in Intents => /\ IntentTells(r)
                          /\ intent[x].state # "unused" =>
                               r.state # "unused" /\ r.of = intent[x].of
  PROVE  /\ IntentsGrow
         /\ (x \in Intents => /\ r.of \in Holds /\ r.state = "succeeded" <=> Taken(x)
                              /\ Taken(x) => r.taken = intent[x].taken)
              => NoCapture
<1>1. DOMAIN intent' = Intents /\ \A n \in Intents : intent'[n] = IF n = x THEN r ELSE intent[n]
  BY DEF IntentsTell
<1>2. \A n \in Intents : IntentTells(intent[n])
  BY DEF IntentsTell
<1>3. ASSUME NEW n \in Intents
      PROVE  /\ IntentTells(intent'[n])
             /\ intent[n].state # "unused" =>
                  intent'[n].state # "unused" /\ intent'[n].of = intent[n].of
  <2>1. CASE n = x
    BY <1>1, <2>1
  <2>2. CASE n # x
    BY <1>1, <1>2, <2>2
  <2>3. QED BY <2>1, <2>2
<1>4. IntentsGrow
  BY <1>1, <1>3 DEF IntentsGrow, IntentsTell, IntentTells
<1>5. ASSUME x \in Intents => /\ r.of \in Holds /\ r.state = "succeeded" <=> Taken(x)
                              /\ Taken(x) => r.taken = intent[x].taken
      PROVE  NoCapture
  BY <1>1, <1>5 DEF NoCapture, Taken
<1>6. QED BY <1>4, <1>5

\* Nothing changes at Stripe.
LEMMA IntentsRest ==
  ASSUME IntentsTell, UNCHANGED intent
  PROVE  IntentsGrow /\ NoCapture
BY DEF IntentsGrow, IntentsTell, IntentTells, NoCapture, Taken

\* Stripe cancels an intent, or does nothing.
LEMMA CancelGrows ==
  ASSUME IntentsTell, NEW x, Cancel(x)
  PROVE  IntentsGrow /\ NoCapture
<1>1. CASE UNCHANGED intent
  BY <1>1, IntentsRest
<1>2. CASE ~ UNCHANGED intent
  <2>1. PICK r : r = Becomes(intent[x], "canceled")
    OBVIOUS
  <2>2. intent' = [intent EXCEPT ![x] = r] /\ x \in Intents /\ intent[x].state = "requires_capture"
    BY <1>2, <2>1 DEF Cancel, IntentsTell
  <2>3. IntentTells(intent[x])
    BY <2>2 DEF IntentsTell
  <2>4. /\ IntentTells(r) /\ r.state = "canceled" /\ r.of = intent[x].of
    BY <2>1, <2>2, <2>3 DEF Becomes, IntentTells
  <2>5. QED BY <2>2, <2>4, IntentGrows DEF Taken
<1>3. QED BY <1>1, <1>2

\* What is only counted, or only told.
LEMMA IntentKeeps ==
  ASSUME IntentsTell, NEW x, NEW r, intent' = [intent EXCEPT ![x] = r],
         x \in Intents => /\ IntentTells(r) /\ r.state = intent[x].state /\ r.of = intent[x].of
                          /\ r.taken = intent[x].taken
  PROVE  IntentsGrow /\ NoCapture
BY IntentGrows DEF Taken

\* A charge of a rental's deposit is a hold, and nobody but its settlement captures it.
LEMMA StripeStep ==
  ASSUME DepositInv, Next
  PROVE  IntentsGrow /\ (booking.rental => NoCapture)
<1>0. IntentsTell
  BY DEF DepositInv
<1>1. CASE UNCHANGED intent
  BY <1>0, <1>1, IntentsRest
<1>2. CASE VoidHold \/ RefundDropsHold \/ (\E n \in Intents : HoldExpires(n))
           \/ \E w \in Workers : DropHold(w) \/ LetGoOfHold(w)
  BY <1>0, <1>2, CancelGrows DEF VoidHold, RefundDropsHold, HoldExpires, DropHold, LetGoOfHold
<1>3. CASE RefundAtStripe /\ ~ UNCHANGED intent
  <2>1. PICK x : x = SeenRow.pi
    OBVIOUS
  <2>2. PICK r : r = [intent[x] EXCEPT !.back = intent[x].back + Take]
    OBVIOUS
  <2>3. intent' = [intent EXCEPT ![x] = r]
    BY <1>0, <1>3, <2>1, <2>2 DEF RefundAtStripe, IntentsTell, CanRefund
  <2>4. x \in Intents => /\ IntentTells(r) /\ r.state = intent[x].state /\ r.of = intent[x].of
                         /\ r.taken = intent[x].taken
    BY <1>0, <2>2 DEF IntentsTell, IntentTells
  <2>5. QED BY <1>0, <2>3, <2>4, IntentKeeps
<1>4. ASSUME NEW w \in Workers, HandBack(w), ~ UNCHANGED intent
      PROVE  IntentsGrow /\ NoCapture
  <2>1. PICK n : n = work[w].n
    OBVIOUS
  <2>2. PICK a : a = work[w].amount
    OBVIOUS
  <2>3. n \in Intents /\ intent' = [intent EXCEPT ![n].back = intent[n].back + a, ![n].undone = a]
    BY <1>4, <2>1, <2>2 DEF HandBack, CanRefund
  <2>4. PICK r : r = [intent[n] EXCEPT !.back = intent[n].back + a, !.undone = a]
    OBVIOUS
  <2>5. intent' = [intent EXCEPT ![n] = r]
    BY <1>0, <2>3, <2>4 DEF IntentsTell
  <2>6. /\ IntentTells(r) /\ r.state = intent[n].state /\ r.of = intent[n].of
        /\ r.taken = intent[n].taken
    BY <1>0, <2>3, <2>4 DEF IntentsTell, IntentTells
  <2>7. QED BY <1>0, <2>5, <2>6, IntentKeeps
<1>5. ASSUME NEW w \in Workers, ChargeSavedCard(w)
      PROVE  IntentsGrow /\ (booking.rental => NoCapture)
  <2>1. PICK n, s :
          /\ n \in Intents /\ intent[n].state = "unused"
          /\ s = IF work[w].hold THEN "requires_capture" ELSE "succeeded"
          /\ intent' = [intent EXCEPT ![n] = Created(Mine(w), work[w].amount, s)]
    BY <1>5 DEF ChargeSavedCard
  <2>2. PICK i : i = work[w].i
    OBVIOUS
  <2>3. PICK a : a = work[w].amount
    OBVIOUS
  <2>4. PICK r : r = Created(i, a, s)
    OBVIOUS
  <2>5. /\ "of" \in DOMAIN r /\ "state" \in DOMAIN r /\ "taken" \in DOMAIN r
        /\ "told" \in DOMAIN r /\ "news" \in DOMAIN r /\ r.state = s /\ r.of = i
    BY <2>4 DEF Created, Becomes, Unused
  <2>6. MemoryTells(work[w]) /\ work[w].at = "call"
    BY <1>5 DEF DepositInv, MemoriesTell, ChargeSavedCard
  <2>7. IntentTells(r)
    BY <2>1, <2>2, <2>5, <2>6 DEF IntentTells, MemoryTells
  <2>8. ~ Taken(n)
    BY <2>1 DEF Taken
  <2>9. booking.rental /\ r.of \in Holds => r.state # "succeeded"
    BY <2>1, <2>2, <2>5, <2>6 DEF MemoryTells
  <2>10. intent' = [intent EXCEPT ![n] = r]
    BY <2>1, <2>2, <2>3, <2>4 DEF Mine
  <2>11. QED BY <1>0, <2>1, <2>7, <2>8, <2>9, <2>10, IntentGrows
<1>6. ASSUME NEW w \in Workers, Crash(w) \/ \E n \in Intents : Deliver(w, n),
             ~ UNCHANGED intent
      PROVE  IntentsGrow /\ NoCapture
  <2>1. PICK x, e : /\ intent' = [intent EXCEPT ![x] = [intent[x] EXCEPT !.news = e]]
                    /\ x \in Intents => intent[x].state # "unused"
    <3>1. CASE Crash(w)
      <4>1. PICK x : x = work[w].from
        OBVIOUS
      <4>2. intent' = [intent EXCEPT ![x] = [intent[x] EXCEPT
                         !.news = intent[x].news \cup {work[w].event}]]
        BY <1>0, <1>6, <3>1, <4>1 DEF Crash, IntentsTell
      <4>3. x \in Intents => intent[x].state # "unused"
        BY <1>6, <3>1, <4>1 DEF Crash, DepositInv, MemoriesTell, MemoryTells
      <4>4. QED BY <4>2, <4>3
    <3>2. CASE \E n \in Intents : Deliver(w, n)
      <4>1. PICK n \in Intents : Deliver(w, n)
        BY <3>2
      <4>2. PICK e : /\ intent' = [intent EXCEPT ![n] = [intent[n] EXCEPT
                                                       !.news = intent[n].news \ {e}]]
                     /\ e \in intent[n].told \/ e \in intent[n].news
        BY <1>0, <4>1 DEF Deliver, IntentsTell
      <4>3. intent[n].state # "unused"
        BY <1>0, <4>2 DEF IntentsTell, IntentTells
      <4>4. QED BY <4>2, <4>3
    <3>3. QED BY <1>6, <3>1, <3>2
  <2>2. PICK r : r = [intent[x] EXCEPT !.news = e]
    OBVIOUS
  <2>3. x \in Intents => /\ IntentTells(r) /\ r.state = intent[x].state /\ r.of = intent[x].of
                         /\ r.taken = intent[x].taken
    BY <1>0, <2>1, <2>2 DEF IntentsTell, IntentTells
  <2>4. intent' = [intent EXCEPT ![x] = r]
    BY <2>1, <2>2
  <2>5. QED BY <1>0, <2>3, <2>4, IntentKeeps
<1>7. ASSUME NEW w \in Workers, CaptureHold(w), ~ UNCHANGED intent
      PROVE  IntentsGrow /\ ~ booking.rental
  <2>1. PICK n : n = work[w].n
    OBVIOUS
  <2>2. PICK r : r = Becomes([intent[n] EXCEPT !.taken = work[w].amount], "succeeded")
    OBVIOUS
  <2>3. /\ intent' = [intent EXCEPT ![n] = r] /\ n \in Intents
        /\ intent[n].state = "requires_capture"
    BY <1>0, <1>7, <2>1, <2>2 DEF CaptureHold, Capture, CanCapture, IntentsTell
  <2>4. IntentTells(intent[n])
    BY <1>0, <2>3 DEF IntentsTell
  <2>5. IntentTells(r) /\ r.state = "succeeded" /\ r.of = intent[n].of
    BY <2>2, <2>3, <2>4 DEF Becomes, IntentTells
  <2>6. ~ booking.rental
    BY <1>7 DEF CaptureHold, DepositInv, MemoriesTell, MemoryTells
  <2>7. QED BY <1>0, <2>3, <2>5, <2>6, IntentGrows
<1>8. ASSUME NEW w \in Workers, Begin(w) \/ Crash(w)
      PROVE  IntentsGrow /\ NoCapture
  BY <1>0, IntentsRest, <1>6, <1>8 DEF Begin, SelectDue, RetryInstallment, GiveBack, Complete
<1>9. ASSUME NEW w \in Workers, Step(w)
      PROVE  IntentsGrow /\ (booking.rental => NoCapture)
  BY <1>1, <1>2, <1>4, <1>5, <1>7, <1>9
     DEF Step, FindNothingToCharge, FindBookingEnded, ReadForCharge, CallOff, ClaimAttempt,
         ChargeFails, MarkPaid, MarkAuthorized, LookForUndo,
         RecordHandedBack, RecordDropped, OnBookingCompleted, LookForHold, RecordCaptured,
         RecordCaptureFailed, RecordFailure, StartWindow, RecordMissedDeposit, SaveNewCard,
         ResetAttempts, Reconcile, RecordCanceled
<1>10. CASE Surroundings
  BY <1>1, <1>2, <1>10 DEF Surroundings, DueDatePasses, RetryDatePasses, DeadlinePasses
<1>11. CASE LoadToCancel \/ SelectOverdue \/ CancelStep \/ CrashCancelling
  BY <1>1, <1>2, <1>3, <1>11
     DEF LoadToCancel, SelectOverdue, CancelStep, CrashCancelling, ClearWindow,
         LoadForNonPayment, ClaimCancellation, SetTerms, LookForOpen, VoidUnpaid, VoidNothing,
         RecordVoidedHold, VoidDone, ReadForRefund, RefundCallsOff, RecordDroppedHold,
         RefundNothing, RecordRefund, RefundDone, chargingVars
<1>12. QED BY <1>8, <1>9, <1>10, <1>11 DEF Next

----------------------------------------------------------------------------
(* What the handlers, the rows and the booking may become.                 *)

\* A rental stays one.
RentalStays == "rental" \in DOMAIN booking' /\ booking'.rental = booking.rental

\* What was made for an installment stays so.
LEMMA StillMadeFor ==
  ASSUME IntentsGrow, NEW n \in Intents, NEW i, MadeFor(n, i)
  PROVE  MadeFor(n, i)'
BY DEF IntentsGrow, MadeFor

\* What a handler remembers without moving stays true.
LEMMA StillRemembered ==
  ASSUME IntentsGrow, RentalStays, NEW m, MemoryTells(m)
  PROVE  MemoryTells(m)'
<1>1. m.n \in Intents => MadeFor(m.n, m.i)'
  BY DEF MemoryTells, IntentsGrow, MadeFor
<1>2. m.event # "none" /\ m.from \in Intents => intent'[m.from].state # "unused"
  BY DEF MemoryTells, IntentsGrow
<1>3. QED BY <1>1, <1>2 DEF MemoryTells, RentalStays

\* The handler w goes on with m.
LEMMA OneMemory ==
  ASSUME MemoriesTell, IntentsGrow, RentalStays, NEW w \in Workers, NEW m,
         work' = [work EXCEPT ![w] = m], MemoryTells(m)'
  PROVE  MemoriesTell'
<1>1. DOMAIN work' = Workers /\ \A v \in Workers : work'[v] = IF v = w THEN m ELSE work[v]
  BY DEF MemoriesTell
<1>2. ASSUME NEW v \in Workers PROVE MemoryTells(work[v])'
  <2>1. PICK k : k = work[v]
    OBVIOUS
  <2>2. MemoryTells(k)'
    BY <2>1, StillRemembered DEF MemoriesTell
  <2>3. CASE v = w
    <3>1. work'[v] = m
      BY <1>1, <2>3
    <3>2. QED BY <3>1 DEF MemoryTells, MadeFor
  <2>4. CASE v # w
    <3>1. work'[v] = k
      BY <1>1, <2>1, <2>4
    <3>2. QED BY <2>2, <3>1 DEF MemoryTells, MadeFor
  <2>5. QED BY <2>3, <2>4
<1>3. QED BY <1>1, <1>2 DEF MemoriesTell

\* Nobody moves.
LEMMA MemoriesRest ==
  ASSUME MemoriesTell, IntentsGrow, RentalStays, UNCHANGED work
  PROVE  MemoriesTell'
<1>1. ASSUME NEW v \in Workers PROVE MemoryTells(work[v])'
  <2>1. PICK k : k = work[v]
    OBVIOUS
  <2>2. MemoryTells(k)'
    BY <2>1, StillRemembered DEF MemoriesTell
  <2>3. work'[v] = k
    BY <2>1
  <2>4. QED BY <2>2, <2>3 DEF MemoryTells, MadeFor
<1>2. QED BY <1>1 DEF MemoriesTell

\* The ways a handler goes on.
LEMMA GoesOnTelling ==
  ASSUME MemoriesTell, IntentsGrow, RentalStays, NEW w \in Workers
  PROVE  /\ Done(w) => MemoriesTell'
         /\ work[w].at # "idle" =>
              /\ \A p : p \notin {"holds", "claim", "call"} =>
                   (Goto(w, p) => MemoriesTell') /\ (Forward(w, p) => MemoriesTell')
              /\ AfterUndo(w) => MemoriesTell'
         /\ work[w].at = "claim" /\ Goto(w, "call") => MemoriesTell'
         /\ UNCHANGED work => MemoriesTell'
<1>0. MemoryTells(work[w])
  BY DEF MemoriesTell
<1>1. ASSUME Done(w) PROVE MemoriesTell'
  <2>1. PICK m : m = Idle
    OBVIOUS
  <2>2. MemoryTells(m)
    BY <2>1, NoneAssumption DEF Idle, MemoryTells
  <2>3. QED BY <1>1, <2>1, <2>2, OneMemory, StillRemembered DEF Done
<1>2. ASSUME NEW p, Goto(w, p), work[w].at # "idle",
             p \in {"holds", "claim", "call"} => work[w].at = "claim" /\ p = "call"
      PROVE  MemoriesTell'
  <2>1. PICK m : m = [work[w] EXCEPT !.at = p]
    OBVIOUS
  <2>2. MemoryTells(m)
    BY <1>0, <1>2, <2>1 DEF MemoryTells
  <2>3. work' = [work EXCEPT ![w] = m]
    BY <1>2, <2>1 DEF Goto, MemoriesTell
  <2>4. QED BY <2>2, <2>3, OneMemory, StillRemembered
<1>3. ASSUME NEW p, p \notin {"holds", "claim", "call"}, Forward(w, p), work[w].at # "idle"
      PROVE  MemoriesTell'
  <2>1. PICK m : m = [Idle EXCEPT !.at = p, !.i = work[w].i, !.hold = work[w].hold,
                                  !.event = work[w].event, !.from = work[w].from]
    OBVIOUS
  <2>2. MemoryTells(m)
    BY <1>0, <1>3, <2>1, NoneAssumption DEF Idle, MemoryTells
  <2>3. QED BY <1>3, <2>1, <2>2, OneMemory, StillRemembered DEF Forward
<1>4. ASSUME AfterUndo(w), work[w].at # "idle" PROVE MemoriesTell'
  BY <1>1, <1>3, <1>4 DEF AfterUndo
<1>5. ASSUME work[w].at # "idle", NEW p, p \notin {"holds", "claim", "call"}
      PROVE  (Goto(w, p) => MemoriesTell') /\ (Forward(w, p) => MemoriesTell')
  <2>1. ASSUME Goto(w, p) PROVE MemoriesTell'
    BY <1>2, <1>5, <2>1
  <2>2. ASSUME Forward(w, p) PROVE MemoriesTell'
    BY <1>3, <1>5, <2>2
  <2>3. QED BY <2>1, <2>2
<1>6. work[w].at = "claim" /\ Goto(w, "call") => MemoriesTell'
  BY <1>2
<1>7. UNCHANGED work => MemoriesTell'
  BY MemoriesRest
<1>8. QED BY <1>1, <1>4, <1>5, <1>6, <1>7

\* A handler that begins at p, at installment i and about intent n, if any.
Begins(m, p, i, n) ==
  /\ "at" \in DOMAIN m /\ "i" \in DOMAIN m /\ "n" \in DOMAIN m
  /\ "hold" \in DOMAIN m /\ "event" \in DOMAIN m /\ "from" \in DOMAIN m
  /\ m.at = p /\ m.i = i /\ m.n = n /\ (m.event = "none" \/ m.from = n)

LEMMA BeginsTelling ==
  ASSUME MemoriesTell, IntentsGrow, RentalStays, NEW w \in Workers, NEW m,
         NEW p, NEW i \in Installments, NEW n,
         p \notin {"holds", "claim", "call"}, n \in Intents => MadeFor(n, i),
         work' = [work EXCEPT ![w] = m], Begins(m, p, i, n)
  PROVE  MemoriesTell'
<1>1. MemoryTells(m)
  BY DEF MemoryTells, Begins, MadeFor
<1>2. QED BY <1>1, OneMemory, StillRemembered

\* What a handler remembers is of its installment, whatever it does.
LEMMA MemoriesStep ==
  ASSUME DepositInv, IntentsGrow, RentalStays,
         NEW w \in Workers, Begin(w) \/ Step(w) \/ Crash(w)
  PROVE  MemoriesTell'
<1>0. MemoriesTell /\ IntentsTell /\ RowsTell /\ MemoryTells(work[w])
  BY DEF DepositInv, MemoriesTell
<1>1. CASE FindNothingToCharge(w) \/ FindBookingEnded(w) \/ CallOff(w) \/ ClaimAttempt(w)
           \/ MarkPaid(w) \/ HandBack(w) \/ RecordHandedBack(w) \/ DropHold(w)
           \/ RecordDropped(w) \/ CaptureHold(w) \/ RecordCaptured(w)
           \/ RecordCaptureFailed(w) \/ RecordFailure(w) \/ StartWindow(w)
           \/ RecordMissedDeposit(w) \/ SaveNewCard(w) \/ RecordCanceled(w)
           \/ OnBookingCompleted(w) \/ LetGoOfHold(w) \/ Crash(w)
  BY <1>0, <1>1, GoesOnTelling
     DEF FindNothingToCharge, FindBookingEnded, CallOff, ClaimAttempt, MarkPaid, HandBack,
         RecordHandedBack, DropHold, RecordDropped, CaptureHold, RecordCaptured,
         RecordCaptureFailed, RecordFailure, StartWindow, RecordMissedDeposit, SaveNewCard,
         RecordCanceled, OnBookingCompleted, LetGoOfHold, Crash
<1>2. CASE MarkAuthorized(w)
  <2>1. PICK p \in {"undo", "capture"} : Forward(w, p)
    BY <1>2 DEF MarkAuthorized
  <2>2. QED BY <1>0, <1>2, <2>1, GoesOnTelling DEF MarkAuthorized
<1>3. CASE Reconcile(w)
  <2>1. PICK p : p = Reaction(work[w].event, Row(w).status)
    OBVIOUS
  <2>2. p \notin {"holds", "claim", "call"}
    BY <2>1 DEF Reaction
  <2>3. Done(w) \/ Goto(w, p)
    BY <1>3, <2>1 DEF Reconcile
  <2>4. QED BY <1>0, <1>3, <2>2, <2>3, GoesOnTelling DEF Reconcile
<1>4. CASE ReadForCharge(w)
  <2>1. PICK p \in {"claim", "fail"} : work' = [work EXCEPT ![w] = AsRead(w, p)]
    BY <1>4 DEF ReadForCharge
  <2>2. PICK m : m = AsRead(w, p)
    OBVIOUS
  <2>3. PICK h \in BOOLEAN : h = CaptureManually(Mine(w))
    BY DEF CaptureManually
  <2>4. /\ "at" \in DOMAIN m /\ "i" \in DOMAIN m /\ "n" \in DOMAIN m
        /\ "hold" \in DOMAIN m /\ "event" \in DOMAIN m /\ "from" \in DOMAIN m
        /\ m.at = p /\ m.i = work[w].i /\ m.n = work[w].n /\ m.hold = h
        /\ m.event = work[w].event /\ m.from = work[w].from
    BY <1>0, <2>2, <2>3 DEF AsRead, MemoryTells
  <2>5. booking.rental /\ m.i \in Holds => m.hold = TRUE
    BY <2>3, <2>4 DEF CaptureManually, SecurityDeposit, Mine
  <2>6. work[w].at # "idle"
    BY <1>4 DEF ReadForCharge
  <2>7. MemoryTells(m)
    BY <1>0, <2>1, <2>4, <2>5, <2>6 DEF MemoryTells
  <2>8. QED BY <1>0, <2>1, <2>2, <2>7, OneMemory, StillRemembered
<1>5. CASE ChargeSavedCard(w)
  <2>1. PICK n \in Intents, p \in {"fail", "held", "paid"}, s \in {"requires_capture", "succeeded"} :
          /\ work' = [work EXCEPT ![w] = [work[w] EXCEPT !.n = n, !.at = p]]
          /\ intent' = [intent EXCEPT ![n] = Created(Mine(w), work[w].amount, s)]
    BY <1>0, <1>5 DEF ChargeSavedCard, MemoriesTell
  <2>2. PICK m : m = [work[w] EXCEPT !.n = n, !.at = p]
    OBVIOUS
  <2>3. MadeFor(n, work[w].i)'
    <3>1. intent'[n] = Created(Mine(w), work[w].amount, s)
      BY <1>0, <2>1 DEF IntentsTell
    <3>2. intent'[n].state = s /\ intent'[n].of = Mine(w)
      BY <3>1 DEF Created, Becomes, Unused
    <3>3. PICK i : i = work[w].i
      OBVIOUS
    <3>4. MadeFor(n, i)'
      BY <2>1, <3>2, <3>3 DEF MadeFor, Mine
    <3>5. work'[w].i = work[w].i
      BY <1>0, <2>1 DEF MemoriesTell, MemoryTells
    <3>6. QED BY <3>3, <3>4, <3>5 DEF MadeFor
  <2>4. PICK i, e, f : i = work[w].i /\ e = work[w].event /\ f = work[w].from
    OBVIOUS
  <2>5. /\ "at" \in DOMAIN m /\ "i" \in DOMAIN m /\ "n" \in DOMAIN m
        /\ "hold" \in DOMAIN m /\ "event" \in DOMAIN m /\ "from" \in DOMAIN m
        /\ m.at = p /\ m.i = i /\ m.n = n /\ m.event = e /\ m.from = f /\ i \in Installments
    BY <1>0, <1>5, <2>2, <2>4 DEF MemoryTells, ChargeSavedCard
  <2>6. MadeFor(n, i)'
    BY <2>3, <2>4, <1>0, <2>1 DEF MadeFor, MemoriesTell, MemoryTells
  <2>7. e # "none" /\ f \in Intents => intent'[f].state # "unused"
    BY <1>0, <2>4 DEF MemoryTells, IntentsGrow
  <2>8. MemoryTells(m)'
    BY <2>1, <2>5, <2>6, <2>7 DEF MemoryTells
  <2>9. QED BY <1>0, <2>1, <2>2, <2>8, OneMemory
<1>6. CASE ChargeFails(w)
  <2>1. PICK needs \in BOOLEAN, n \in {Dud, None} :
          work' = [work EXCEPT ![w] = [work[w] EXCEPT !.at = "fail", !.needs = needs, !.n = n]]
    BY <1>6 DEF ChargeFails
  <2>2. PICK m : m = [work[w] EXCEPT !.at = "fail", !.needs = needs, !.n = n]
    OBVIOUS
  <2>3. work[w].at # "idle" /\ n \notin Intents
    BY <1>6, <2>1, NoneAssumption DEF ChargeFails
  <2>4. MemoryTells(m)
    BY <1>0, <2>2, <2>3 DEF MemoryTells
  <2>5. QED BY <1>0, <2>1, <2>2, <2>4, OneMemory, StillRemembered
<1>7. CASE LookForUndo(w)
  <2>1. CASE NothingToUndo(w)
    BY <1>0, <1>7, <2>1, GoesOnTelling DEF LookForUndo
  <2>2. CASE ~ NothingToUndo(w)
    <3>1. PICK p \in {"handBack", "dropHold"} :
            p = IF Row(w).status = "PAID" THEN "handBack" ELSE "dropHold"
      OBVIOUS
    <3>2. PICK n, a : n = Row(w).pi /\ a = Left(Mine(w))
      OBVIOUS
    <3>3. work' = [work EXCEPT ![w] = [work[w] EXCEPT !.at = p, !.n = n, !.amount = a]]
      BY <1>0, <1>7, <2>2, <3>1, <3>2 DEF LookForUndo, MemoriesTell
    <3>4. PICK m : m = [work[w] EXCEPT !.at = p, !.n = n, !.amount = a]
      OBVIOUS
    <3>5. work[w].at # "idle" /\ work[w].i \in Installments
      BY <1>0, <1>7 DEF LookForUndo, MemoryTells
    <3>6. n \in Intents => MadeFor(n, work[w].i)
      BY <1>0, <3>2, <3>5 DEF RowsTell, RowTells, Row, Mine
    <3>7. MemoryTells(m)
      BY <1>0, <3>1, <3>4, <3>5, <3>6 DEF MemoryTells
    <3>8. QED BY <1>0, <3>3, <3>4, <3>7, OneMemory, StillRemembered
  <2>3. QED BY <2>1, <2>2
<1>8. CASE LookForHold(w)
  <2>1. CASE HoldToCapture(w)
    <3>1. PICK n, a : n = Row(w).pi /\ a = Row(w).amount
      OBVIOUS
    <3>2. work' = [work EXCEPT ![w] = [work[w] EXCEPT !.at = "holds", !.n = n, !.amount = a]]
      BY <1>0, <1>8, <2>1, <3>1 DEF LookForHold, MemoriesTell
    <3>3. PICK m : m = [work[w] EXCEPT !.at = "holds", !.n = n, !.amount = a]
      OBVIOUS
    <3>4. work[w].at # "idle" /\ work[w].i \in Installments
      BY <1>0, <1>8 DEF LookForHold, MemoryTells
    <3>5. n \in Intents => MadeFor(n, work[w].i)
      BY <1>0, <3>1, <3>4 DEF RowsTell, RowTells, Row, Mine
    <3>6. ~ booking.rental
      BY <2>1 DEF HoldToCapture, SecurityDeposit
    <3>7. MemoryTells(m)
      BY <1>0, <3>3, <3>4, <3>5, <3>6 DEF MemoryTells
    <3>8. QED BY <1>0, <3>2, <3>3, <3>7, OneMemory, StillRemembered
  <2>2. CASE ~ HoldToCapture(w)
    BY <1>0, <1>8, <2>2, GoesOnTelling DEF LookForHold
  <2>3. QED BY <2>1, <2>2
<1>9. CASE ResetAttempts(w)
  <2>1. CASE AsSeen(w)
    <3>1. PICK m : m = [Idle EXCEPT !.at = "read", !.i = Mine(w), !.card = work[w].card]
      OBVIOUS
    <3>2. Mine(w) \in Installments
      BY <1>0, <1>9 DEF ResetAttempts, MemoryTells, Mine
    <3>3. Begins(m, "read", Mine(w), None) /\ None \notin Intents
      BY <3>1, NoneAssumption DEF Begins, Idle
    <3>4. work' = [work EXCEPT ![w] = m]
      BY <1>9, <2>1, <3>1 DEF ResetAttempts
    <3>5. QED BY <1>0, <3>2, <3>3, <3>4, BeginsTelling
  <2>2. CASE ~ AsSeen(w)
    BY <1>0, <1>9, <2>2, GoesOnTelling DEF ResetAttempts
  <2>3. QED BY <2>1, <2>2
<1>10. ASSUME NEW i \in Installments, SelectDue(w, i) PROVE MemoriesTell'
  <2>1. PICK m : m = [Idle EXCEPT !.at = "read", !.i = i]
    OBVIOUS
  <2>2. Begins(m, "read", i, None) /\ None \notin Intents
    BY <2>1, NoneAssumption DEF Begins, Idle
  <2>3. work' = [work EXCEPT ![w] = m]
    BY <1>10, <2>1 DEF SelectDue
  <2>4. QED BY <1>0, <2>2, <2>3, BeginsTelling
<1>11. ASSUME NEW i \in Installments, RetryInstallment(w, i) PROVE MemoriesTell'
  <2>1. PICK card \in BOOLEAN :
          work' = [work EXCEPT ![w] =
            [Idle EXCEPT !.at = IF card THEN "newCard" ELSE "reset", !.i = i,
               !.status = inst[i].status, !.attempts = inst[i].attempts, !.card = card]]
    BY <1>11 DEF RetryInstallment
  <2>2. PICK p \in {"newCard", "reset"} : p = IF card THEN "newCard" ELSE "reset"
    OBVIOUS
  <2>3. PICK m : m = [Idle EXCEPT !.at = p, !.i = i, !.status = inst[i].status,
                                  !.attempts = inst[i].attempts, !.card = card]
    OBVIOUS
  <2>4. Begins(m, p, i, None) /\ None \notin Intents
    BY <2>3, NoneAssumption DEF Begins, Idle
  <2>5. work' = [work EXCEPT ![w] = m]
    BY <2>1, <2>2, <2>3
  <2>6. QED BY <1>0, <2>2, <2>4, <2>5, BeginsTelling
<1>12. ASSUME NEW i \in Installments, GiveBack(w, i) PROVE MemoriesTell'
  <2>1. PICK m : m = [Idle EXCEPT !.at = "letGo", !.i = i, !.n = inst[i].pi]
    OBVIOUS
  <2>2. UNCHANGED work \/ work' = [work EXCEPT ![w] = m]
    BY <1>12, <2>1 DEF GiveBack
  <2>3. inst[i].pi \in Intents => MadeFor(inst[i].pi, i)
    BY <1>0 DEF RowsTell, RowTells
  <2>4. CASE work' = [work EXCEPT ![w] = m]
    <3>1. PICK n : n = inst[i].pi
      OBVIOUS
    <3>2. Begins(m, "letGo", i, n)
      BY <2>1, <3>1 DEF Begins, Idle
    <3>3. n \in Intents => MadeFor(n, i)
      BY <2>3, <3>1
    <3>4. QED BY <1>0, <2>4, <3>2, <3>3, BeginsTelling
  <2>5. QED BY <1>0, <2>2, <2>4, MemoriesRest
<1>13. ASSUME NEW n \in Intents, Deliver(w, n) PROVE MemoriesTell'
  <2>1. PICK e : /\ work' = [work EXCEPT ![w] = [Idle EXCEPT !.at = "hook", !.i = intent[n].of,
                                                          !.n = n, !.event = e, !.from = n]]
                 /\ e \in intent[n].told \/ e \in intent[n].news
    BY <1>13 DEF Deliver
  <2>2. intent[n].state # "unused" /\ intent[n].of \in Installments
    BY <1>0, <2>1 DEF IntentsTell, IntentTells
  <2>3. PICK i : i = intent[n].of
    OBVIOUS
  <2>4. PICK m : m = [Idle EXCEPT !.at = "hook", !.i = i, !.n = n, !.event = e, !.from = n]
    OBVIOUS
  <2>5. MadeFor(n, i)
    BY <2>2, <2>3 DEF MadeFor
  <2>6. Begins(m, "hook", i, n)
    BY <2>4 DEF Begins, Idle
  <2>7. work' = [work EXCEPT ![w] = m]
    BY <2>1, <2>3, <2>4
  <2>8. QED BY <1>0, <2>2, <2>3, <2>5, <2>6, <2>7, BeginsTelling
<1>14. CASE Complete(w)
  <2>1. CASE UNCHANGED work
    BY <1>0, <2>1, MemoriesRest
  <2>2. CASE ~ UNCHANGED work
    <3>1. PICK i \in Holds : work' = [work EXCEPT ![w] = [Idle EXCEPT !.at = "complete", !.i = i]]
      BY <1>14, <2>2 DEF Complete
    <3>2. PICK m : m = [Idle EXCEPT !.at = "complete", !.i = i]
      OBVIOUS
    <3>3. i \in Installments
      BY HoldsAssumption
    <3>4. Begins(m, "complete", i, None) /\ None \notin Intents
      BY <3>2, NoneAssumption DEF Begins, Idle
    <3>5. work' = [work EXCEPT ![w] = m]
      BY <3>1, <3>2
    <3>6. QED BY <1>0, <3>3, <3>4, <3>5, BeginsTelling
  <2>3. QED BY <2>1, <2>2
<1>15. CASE Begin(w)
  BY <1>10, <1>11, <1>12, <1>13, <1>14, <1>15 DEF Begin
<1>16. QED BY <1>1, <1>2, <1>3, <1>4, <1>5, <1>6, <1>7, <1>8, <1>9, <1>15 DEF Step

\* What a row of installment i may become: it names the same intent, one that was
\* made for i, or none.
RowSettles(i, r) ==
  /\ "pi" \in DOMAIN r /\ "amount" \in DOMAIN r /\ r.amount \in Int
  /\ r.pi = inst[i].pi \/ r.pi \notin Intents \/ MadeFor(r.pi, i)

LEMMA RowMoves ==
  ASSUME RowsTell, IntentsGrow, NEW i, NEW r, inst' = [inst EXCEPT ![i] = r],
         i \in Installments => RowSettles(i, r)
  PROVE  RowsTell'
<1>1. /\ DOMAIN inst' = Installments
      /\ \A j \in Installments : inst'[j] = IF j = i THEN r ELSE inst[j]
  BY DEF RowsTell
<1>2. ASSUME NEW j \in Installments PROVE RowTells(j, inst[j]')
  <2>0. RowTells(j, inst[j])
    BY DEF RowsTell
  <2>1. CASE j = i
    BY <1>1, <2>0, <2>1 DEF RowTells, RowSettles
  <2>2. CASE j # i
    BY <1>1, <2>0, <2>2 DEF RowTells
  <2>3. QED BY <2>1, <2>2
<1>3. ASSUME NEW j \in Installments PROVE RowTells(j, inst[j])'
  BY <1>2, IntentsGrow DEF RowTells, IntentsGrow, MadeFor
<1>4. QED BY <1>1, <1>3 DEF RowsTell

LEMMA RowsRest ==
  ASSUME RowsTell, IntentsGrow, UNCHANGED inst
  PROVE  RowsTell'
BY DEF RowsTell, RowTells, IntentsGrow, MadeFor

\* A row changes, but for its amount and the intent it names.
LEMMA RowKeeps ==
  ASSUME RowsTell, IntentsGrow, NEW i, NEW r, inst' = [inst EXCEPT ![i] = r],
         i \in Installments =>
           DOMAIN r = DOMAIN inst[i] /\ r.pi = inst[i].pi /\ r.amount = inst[i].amount
  PROVE  RowsTell'
BY RowMoves DEF RowsTell, RowTells, RowSettles

\* A payment by the row's own intent, or another of its installment, is recorded.
LEMMA PaymentTells ==
  ASSUME RowsTell, IntentsGrow, NEW i, NEW n, RecordPayment(i, n),
         n \in Intents /\ i \in Installments => MadeFor(n, i)
  PROVE  RowsTell'
<1>1. CASE UNCHANGED inst
  BY <1>1, RowsRest
<1>2. CASE ~ UNCHANGED inst
  <2>1. PICK k : k = Second(inst[i].rows)
    OBVIOUS
  <2>2. inst' = [inst EXCEPT ![i].status = "PAID", ![i].pi = n, ![i].rows = k, ![i].again = FALSE]
    BY <1>2, <2>1 DEF RecordPayment
  <2>3. PICK r : r = [inst[i] EXCEPT !.status = "PAID", !.pi = n, !.rows = k, !.again = FALSE]
    OBVIOUS
  <2>4. inst' = [inst EXCEPT ![i] = r]
    BY <2>2, <2>3 DEF RowsTell
  <2>5. i \in Installments => RowSettles(i, r)
    BY <2>3 DEF RowsTell, RowTells, RowSettles
  <2>6. QED BY <2>4, <2>5, RowMoves
<1>3. QED BY <1>1, <1>2

\* The rows name intents of their own installment, whoever writes them.
LEMMA RowsStep ==
  ASSUME DepositInv, IntentsGrow, Next
  PROVE  RowsTell'
<1>0. RowsTell /\ MemoriesTell
  BY DEF DepositInv
<1>1. CASE UNCHANGED inst
  BY <1>0, <1>1, RowsRest
<1>2. ASSUME NEW i, NEW s, inst' = [inst EXCEPT ![i].status = s]
      PROVE  RowsTell'
  <2>1. PICK r : r = [inst[i] EXCEPT !.status = s]
    OBVIOUS
  <2>2. inst' = [inst EXCEPT ![i] = r]
    BY <1>0, <1>2, <2>1 DEF RowsTell
  <2>3. QED BY <1>0, <2>1, <2>2, RowKeeps DEF RowsTell, RowTells
<1>3. ASSUME NEW i, NEW s, NEW a, inst' = [inst EXCEPT ![i].status = s, ![i].attempts = a]
      PROVE  RowsTell'
  <2>1. PICK r : r = [inst[i] EXCEPT !.status = s, !.attempts = a]
    OBVIOUS
  <2>2. inst' = [inst EXCEPT ![i] = r]
    BY <1>0, <1>3, <2>1 DEF RowsTell
  <2>3. QED BY <1>0, <2>1, <2>2, RowKeeps DEF RowsTell, RowTells
<1>4. ASSUME NEW i, NEW s, NEW f, inst' = [inst EXCEPT ![i].status = s, ![i].refunded = f]
      PROVE  RowsTell'
  <2>1. PICK r : r = [inst[i] EXCEPT !.status = s, !.refunded = f]
    OBVIOUS
  <2>2. inst' = [inst EXCEPT ![i] = r]
    BY <1>0, <1>4, <2>1 DEF RowsTell
  <2>3. QED BY <1>0, <2>1, <2>2, RowKeeps DEF RowsTell, RowTells
<1>5. ASSUME NEW w \in Workers, CallOff(w) \/ RecordDropped(w) \/ RecordCaptureFailed(w)
             \/ RecordCanceled(w) \/ ClaimAttempt(w)
      PROVE  RowsTell'
  BY <1>1, <1>2, <1>3, <1>5
     DEF CallOff, RecordDropped, RecordCaptureFailed, RecordCanceled, ClaimAttempt
<1>6. ASSUME NEW w \in Workers, RecordHandedBack(w) PROVE RowsTell'
  <2>1. PICK f : f = Row(w).refunded + work[w].amount
    OBVIOUS
  <2>2. CASE ~ UNCHANGED inst
    <3>1. inst' = [inst EXCEPT ![Mine(w)].status = "REFUNDED", ![Mine(w)].refunded = f]
      BY <1>0, <1>6, <2>1, <2>2 DEF RecordHandedBack, Row, Mine, RowsTell
    <3>2. QED BY <1>4, <3>1
  <2>3. QED BY <1>1, <2>2
<1>7. ASSUME NEW w \in Workers, ResetAttempts(w) PROVE RowsTell'
  <2>1. CASE ~ UNCHANGED inst
    <3>1. PICK i : i = Mine(w)
      OBVIOUS
    <3>2. inst' = [inst EXCEPT ![i].status = "SCHEDULED", ![i].attempts = 0, ![i].again = FALSE]
      BY <1>7, <2>1, <3>1 DEF ResetAttempts
    <3>3. PICK r : r = [inst[i] EXCEPT !.status = "SCHEDULED", !.attempts = 0, !.again = FALSE]
      OBVIOUS
    <3>4. inst' = [inst EXCEPT ![i] = r]
      BY <1>0, <3>2, <3>3 DEF RowsTell
    <3>5. QED BY <1>0, <3>3, <3>4, RowKeeps DEF RowsTell, RowTells
  <2>2. QED BY <1>1, <2>1
<1>8. ASSUME NEW w \in Workers, MarkPaid(w) \/ RecordCaptured(w) PROVE RowsTell'
  <2>1. MemoryTells(work[w]) /\ work[w].at # "idle"
    BY <1>0, <1>8 DEF MemoriesTell, MarkPaid, RecordCaptured
  <2>2. PICK i, n : i = Mine(w) /\ n = work[w].n
    OBVIOUS
  <2>3. RecordPayment(i, n)
    BY <1>8, <2>2 DEF MarkPaid, RecordCaptured
  <2>4. n \in Intents => MadeFor(n, i)
    BY <2>1, <2>2 DEF MemoryTells, Mine
  <2>5. QED BY <1>0, <2>3, <2>4, PaymentTells
<1>9. ASSUME NEW w \in Workers, MarkAuthorized(w) PROVE RowsTell'
  <2>1. MemoryTells(work[w]) /\ work[w].at # "idle"
    BY <1>0, <1>9 DEF MemoriesTell, MarkAuthorized
  <2>2. PICK i, n : i = Mine(w) /\ n = work[w].n
    OBVIOUS
  <2>3. inst' = [inst EXCEPT ![i].status = "PROCESSING", ![i].pi = n, ![i].again = FALSE]
    BY <1>9, <2>2 DEF MarkAuthorized
  <2>4. PICK r : r = [inst[i] EXCEPT !.status = "PROCESSING", !.pi = n, !.again = FALSE]
    OBVIOUS
  <2>5. inst' = [inst EXCEPT ![i] = r]
    BY <1>0, <2>3, <2>4 DEF RowsTell
  <2>6. n \in Intents => MadeFor(n, i)
    BY <2>1, <2>2 DEF MemoryTells, Mine
  <2>7. i \in Installments => RowSettles(i, r)
    BY <1>0, <2>4, <2>6 DEF RowsTell, RowTells, RowSettles
  <2>8. QED BY <1>0, <2>5, <2>7, RowMoves
<1>10. ASSUME NEW w \in Workers, RecordFailure(w) \/ RecordMissedDeposit(w) PROVE RowsTell'
  <2>1. PICK s : inst' = FailedRow(w, s)
    BY <1>10 DEF RecordFailure, RecordMissedDeposit
  <2>2. PICK i, a, n : i = Mine(w) /\ a = work[w].attempts
                       /\ n = IF work[w].n = Dud THEN Dud ELSE inst[i].pi
    OBVIOUS
  <2>3. inst' = [inst EXCEPT ![i].status = s, ![i].attempts = a, ![i].again = FALSE, ![i].pi = n]
    BY <1>0, <2>1, <2>2 DEF FailedRow, RowsTell
  <2>4. PICK r : r = [inst[i] EXCEPT !.status = s, !.attempts = a, !.again = FALSE, !.pi = n]
    OBVIOUS
  <2>5. inst' = [inst EXCEPT ![i] = r]
    BY <1>0, <2>3, <2>4 DEF RowsTell
  <2>6. n = inst[i].pi \/ n \notin Intents
    BY <2>2, NoneAssumption
  <2>7. i \in Installments => RowSettles(i, r)
    BY <1>0, <2>4, <2>6 DEF RowsTell, RowTells, RowSettles
  <2>8. QED BY <1>0, <2>5, <2>7, RowMoves
<1>11. ASSUME NEW w \in Workers, NEW i \in Installments, GiveBack(w, i) PROVE RowsTell'
  <2>0. RowTells(i, inst[i])
    BY <1>0 DEF RowsTell
  <2>1. PICK a, s : /\ a = inst[i].amount - 1
                    /\ s = IF inst[i].amount = 1 THEN "CANCELLED" ELSE inst[i].status
    OBVIOUS
  <2>2. inst' = [inst EXCEPT ![i].amount = a, ![i].status = s]
    BY <1>0, <1>11, <2>1 DEF GiveBack, RowsTell
  <2>3. PICK r : r = [inst[i] EXCEPT !.amount = a, !.status = s]
    OBVIOUS
  <2>4. inst' = [inst EXCEPT ![i] = r]
    BY <1>0, <2>2, <2>3 DEF RowsTell
  <2>5. RowSettles(i, r)
    BY <2>0, <2>1, <2>3 DEF RowTells, RowSettles
  <2>6. QED BY <1>0, <2>4, <2>5, RowMoves
<1>12. ASSUME NEW w \in Workers, Begin(w) \/ Crash(w) PROVE RowsTell'
  BY <1>1, <1>11, <1>12 DEF Begin, SelectDue, RetryInstallment, Deliver, Complete, Crash
<1>13. ASSUME NEW w \in Workers, Step(w) PROVE RowsTell'
  BY <1>1, <1>5, <1>6, <1>7, <1>8, <1>9, <1>10, <1>13
     DEF Step, FindNothingToCharge, FindBookingEnded, ReadForCharge, ChargeSavedCard,
         ChargeFails, LookForUndo, HandBack, DropHold, OnBookingCompleted, LookForHold,
         CaptureHold, StartWindow, SaveNewCard, Reconcile, LetGoOfHold
<1>14. CASE Surroundings
  <2>1. ASSUME NEW i \in Installments, DueDatePasses(i) PROVE RowsTell'
    <3>1. PICK r : r = [inst[i] EXCEPT !.due = TRUE]
      OBVIOUS
    <3>2. inst' = [inst EXCEPT ![i] = r]
      BY <1>0, <2>1, <3>1 DEF DueDatePasses, RowsTell
    <3>3. QED BY <1>0, <3>1, <3>2, RowKeeps DEF RowsTell, RowTells
  <2>2. ASSUME NEW i \in Installments, RetryDatePasses(i) PROVE RowsTell'
    <3>1. PICK r : r = [inst[i] EXCEPT !.again = TRUE]
      OBVIOUS
    <3>2. inst' = [inst EXCEPT ![i] = r]
      BY <1>0, <2>2, <3>1 DEF RetryDatePasses, RowsTell
    <3>3. QED BY <1>0, <3>1, <3>2, RowKeeps DEF RowsTell, RowTells
  <2>3. QED BY <1>1, <1>14, <2>1, <2>2 DEF Surroundings, HoldExpires, DeadlinePasses
<1>15. CASE RecordRefund
  <2>1. PICK i, f, s : /\ i = Visited /\ f = inst[Visited].refunded + Take
                       /\ s = IF Take >= SeenLeft THEN "REFUNDED" ELSE "PAID"
    OBVIOUS
  <2>2. inst' = [inst EXCEPT ![i].refunded = f, ![i].status = s]
    BY <1>0, <1>15, <2>1 DEF RecordRefund, RowsTell
  <2>3. inst' = [inst EXCEPT ![i].status = s, ![i].refunded = f]
    BY <1>0, <2>2 DEF RowsTell
  <2>4. QED BY <1>4, <2>3
<1>16. CASE LoadToCancel \/ SelectOverdue \/ CancelStep \/ CrashCancelling
  BY <1>1, <1>2, <1>15, <1>16
     DEF LoadToCancel, SelectOverdue, CancelStep, CrashCancelling, ClearWindow,
         LoadForNonPayment, ClaimCancellation, SetTerms, LookForOpen, VoidUnpaid, VoidNothing,
         VoidHold, RecordVoidedHold, CallOffAsSeen, VoidDone, ReadForRefund, RefundCallsOff,
         RefundDropsHold, RecordDroppedHold, RefundNothing, RefundAtStripe, RefundDone,
         chargingVars
<1>17. QED BY <1>12, <1>13, <1>14, <1>16 DEF Next

\* Nothing makes a booking a rental, or ends its being one.
LEMMA RentalStep ==
  ASSUME "rental" \in DOMAIN booking, Next
  PROVE  RentalStays
<1>1. CASE UNCHANGED booking
  BY <1>1 DEF RentalStays
<1>2. ASSUME NEW w \in Workers, Begin(w) \/ Step(w) \/ Crash(w) PROVE RentalStays
  <2>1. ASSUME NEW i, NEW n, RecordPayment(i, n) PROVE RentalStays
    BY <1>1, <2>1 DEF RecordPayment, WindowAfterPaying, RentalStays
  <2>2. CASE MarkPaid(w) \/ RecordCaptured(w)
    BY <2>1, <2>2 DEF MarkPaid, RecordCaptured
  <2>3. CASE StartWindow(w) \/ SaveNewCard(w) \/ Complete(w)
    BY <2>3 DEF StartWindow, SaveNewCard, Complete, RentalStays
  <2>4. CASE Crash(w) \/ (Begin(w) /\ ~ Complete(w))
    BY <1>1, <2>4 DEF Begin, SelectDue, RetryInstallment, GiveBack, Deliver, Crash
  <2>5. CASE Step(w) /\ ~ (MarkPaid(w) \/ RecordCaptured(w) \/ StartWindow(w) \/ SaveNewCard(w))
    BY <1>1, <2>5
       DEF Step, FindNothingToCharge, FindBookingEnded, ReadForCharge, CallOff, ClaimAttempt,
           ChargeSavedCard, ChargeFails, MarkAuthorized, LookForUndo, HandBack,
           RecordHandedBack, DropHold, RecordDropped, OnBookingCompleted, LookForHold,
           CaptureHold, RecordCaptureFailed, RecordFailure, RecordMissedDeposit,
           ResetAttempts, Reconcile, RecordCanceled, LetGoOfHold
  <2>6. QED BY <1>2, <2>2, <2>3, <2>4, <2>5
<1>3. CASE Surroundings
  BY <1>1, <1>3
     DEF Surroundings, DueDatePasses, RetryDatePasses, HoldExpires, DeadlinePasses, RentalStays
<1>4. CASE ClearWindow \/ ClaimCancellation
  BY <1>1, <1>4 DEF ClearWindow, ClaimCancellation, RentalStays
<1>5. CASE LoadToCancel \/ SelectOverdue \/ CancelStep \/ CrashCancelling
  BY <1>1, <1>4, <1>5
     DEF LoadToCancel, SelectOverdue, CancelStep, CrashCancelling, LoadForNonPayment, SetTerms,
         LookForOpen, VoidUnpaid, VoidNothing, VoidHold, RecordVoidedHold, VoidDone,
         ReadForRefund, RefundCallsOff, RefundDropsHold, RecordDroppedHold, RefundNothing,
         RefundAtStripe, RecordRefund, RefundDone, chargingVars
<1>6. QED BY <1>2, <1>3, <1>5 DEF Next

----------------------------------------------------------------------------
(* The deposit, settled.                                                   *)

\* The settlement's intent stays one of the deposit.
LEMMA ReturnRests ==
  ASSUME ReturnTells, IntentsGrow, NEW r,
         /\ "at" \in DOMAIN r /\ "fees" \in DOMAIN r /\ "n" \in DOMAIN r
         /\ "take" \in DOMAIN r /\ "kept" \in DOMAIN r /\ "asked" \in DOMAIN r
         /\ "trouble" \in DOMAIN r /\ "alone" \in DOMAIN r,
         return' = r, r.fees = return.fees, r.take = return.take, r.n = return.n,
         r.at = "none" => return.at = "none"
  PROVE  ReturnTells'
BY DEF ReturnTells, IntentsGrow

\* What nobody captures stays as it was.
LEMMA CapturedStays ==
  ASSUME NoCapture
  PROVE  /\ Captured' = Captured
         /\ \A n \in Captured : intent'[n].taken = intent[n].taken
BY DEF NoCapture, Captured, Taken

\* The rest of the booking goes on.
LEMMA MeanwhileTells ==
  ASSUME DepositInv, Meanwhile
  PROVE  DepositInv'
<1>1. Next /\ "rental" \in DOMAIN booking
  BY DEF Meanwhile, DepositInv
<1>2. IntentsGrow /\ RentalStays /\ (booking.rental => NoCapture)
  BY <1>1, StripeStep, RentalStep
<1>3. RowsTell'
  BY <1>1, <1>2, RowsStep
<1>4. MemoriesTell'
  <2>1. CASE UNCHANGED work
    BY <1>2, <2>1, MemoriesRest DEF DepositInv
  <2>2. CASE ~ UNCHANGED work
    <3>1. PICK w \in Workers : Begin(w) \/ Step(w) \/ Crash(w)
      BY <1>1, <2>2
         DEF Next, Surroundings, DueDatePasses, RetryDatePasses, HoldExpires, DeadlinePasses,
             LoadToCancel, SelectOverdue, CancelStep, CrashCancelling, ClearWindow,
             LoadForNonPayment, ClaimCancellation, SetTerms, LookForOpen, VoidUnpaid,
             VoidNothing, VoidHold, RecordVoidedHold, VoidDone, ReadForRefund,
             RefundCallsOff, RefundDropsHold, RecordDroppedHold, RefundNothing,
             RefundAtStripe, RecordRefund, RefundDone, chargingVars
    <3>2. QED BY <1>2, <3>1, MemoriesStep
  <2>3. QED BY <2>1, <2>2
<1>5. PICK a : return' = [return EXCEPT !.alone = a]
  BY DEF Meanwhile
<1>6. PICK r : r = [return EXCEPT !.alone = a]
  OBVIOUS
<1>7. /\ "at" \in DOMAIN r /\ "fees" \in DOMAIN r /\ "n" \in DOMAIN r
      /\ "take" \in DOMAIN r /\ "kept" \in DOMAIN r /\ "asked" \in DOMAIN r
      /\ "trouble" \in DOMAIN r /\ "alone" \in DOMAIN r
      /\ r.at = return.at /\ r.fees = return.fees /\ r.n = return.n /\ r.take = return.take
      /\ r.kept = return.kept /\ r.asked = return.asked /\ r.trouble = return.trouble
  BY <1>6 DEF DepositInv, ReturnTells
<1>8. return' = r
  BY <1>5, <1>6
<1>9. ReturnTells'
  BY <1>2, <1>7, <1>8, ReturnRests DEF DepositInv
<1>10. booking.rental => FeesAddUp'
  BY <1>2, <1>7, <1>8, CapturedStays DEF DepositInv, FeesAddUp
<1>11. QED BY <1>2, <1>3, <1>4, <1>9, <1>10 DEF DepositInv, IntentsGrow, RentalStays

\* What a step of the settlement leaves to show: its row, and its sum.
LEMMA SettlementTells ==
  ASSUME DepositInv, IntentsGrow, RentalStays, UNCHANGED work, RowsTell', ReturnTells',
         booking.rental => FeesAddUp'
  PROVE  DepositInv'
BY MemoriesRest DEF DepositInv, IntentsGrow, RentalStays

\* A step of the settlement that captures nothing.
LEMMA SettlementGoesOn ==
  ASSUME DepositInv, IntentsGrow, NoCapture, RentalStays, UNCHANGED work, RowsTell',
         NEW r,
         /\ "at" \in DOMAIN r /\ "fees" \in DOMAIN r /\ "n" \in DOMAIN r
         /\ "take" \in DOMAIN r /\ "kept" \in DOMAIN r /\ "asked" \in DOMAIN r
         /\ "trouble" \in DOMAIN r /\ "alone" \in DOMAIN r,
         return' = r, r.fees = return.fees, r.take = return.take, r.n = return.n,
         r.at # "none", booking.rental => FeesAddUp'
  PROVE  DepositInv'
<1>1. ReturnTells'
  BY ReturnRests DEF DepositInv
<1>2. QED BY <1>1, SettlementTells

\* The return is recorded.
LEMMA RecordReturnTells ==
  ASSUME DepositInv, RecordReturn
  PROVE  DepositInv'
<1>1. IntentsGrow /\ NoCapture /\ RentalStays /\ RowsTell' /\ UNCHANGED work
  BY IntentsRest, RowsRest DEF RecordReturn, DepositInv, vars, RentalStays
<1>2. PICK fees \in Fees : return' = [return EXCEPT !.at = "recorded", !.fees = fees]
  BY DEF RecordReturn
<1>3. fees \in Int /\ 0 <= fees /\ return.at = "none" /\ return.take = 0
  BY DepositAssumption DEF RecordReturn, NotRecorded, DepositInv, ReturnTells
<1>4. PICK r : r = [return EXCEPT !.at = "recorded", !.fees = fees]
  OBVIOUS
<1>5. /\ "at" \in DOMAIN r /\ "fees" \in DOMAIN r /\ "n" \in DOMAIN r
      /\ "take" \in DOMAIN r /\ "kept" \in DOMAIN r /\ "asked" \in DOMAIN r
      /\ "trouble" \in DOMAIN r /\ "alone" \in DOMAIN r
      /\ r.at = "recorded" /\ r.fees = fees /\ r.n = return.n /\ r.take = return.take
      /\ r.kept = return.kept /\ r.asked = return.asked /\ r.trouble = return.trouble
  BY <1>4 DEF DepositInv, ReturnTells
<1>6. return' = r
  BY <1>2, <1>4
<1>7. ReturnTells'
  BY <1>1, <1>3, <1>5, <1>6 DEF DepositInv, ReturnTells, IntentsGrow
<1>8. ASSUME booking.rental PROVE FeesAddUp'
  <2>1. Captured = {}
    BY <1>3, <1>8 DEF DepositInv, FeesAddUp, CapturePlaces
  <2>2. Captured' = {}
    BY <1>1, <2>1, CapturedStays
  <2>3. return.kept = 0 /\ return.asked = 0
    BY <1>3, <1>8 DEF DepositInv, FeesAddUp
  <2>4. QED BY <1>5, <1>6, <2>2, <2>3 DEF FeesAddUp
<1>9. QED BY <1>1, <1>7, <1>8, SettlementTells

\* The settlement looks at the deposit: the intent it takes is the deposit's.
LEMMA LookTells ==
  ASSUME DepositInv, LookAtDeposit
  PROVE  DepositInv'
<1>1. IntentsGrow /\ NoCapture /\ RentalStays /\ RowsTell' /\ UNCHANGED work
  BY IntentsRest, RowsRest DEF LookAtDeposit, DepositInv, RentalStays
<1>2. PICK held, p, n, take, a :
        /\ held \in BOOLEAN /\ p \in {"capture", "void", "callOff", "ask"}
        /\ held = \E i \in Holds : inst[i].status = "PROCESSING" /\ inst[i].pi # None
        /\ return' = [return EXCEPT !.at = p, !.n = n, !.take = take, !.alone = a]
        /\ IF held THEN n = inst[deposit].pi /\ take = SmallerOf(return.fees, inst[deposit].amount)
           ELSE n = return.n /\ take = return.take
  <2>1. PICK held \in BOOLEAN :
          held = \E i \in Holds : inst[i].status = "PROCESSING" /\ inst[i].pi # None
    OBVIOUS
  <2>2. PICK take : take = SmallerOf(return.fees, inst[deposit].amount)
    OBVIOUS
  <2>3. CASE held
    <3>1. PICK p, a : /\ p = IF take > 0 THEN "capture" ELSE "void"
                      /\ a = AtRest
      OBVIOUS
    <3>2. p \in {"capture", "void"}
      BY <3>1
    <3>3. return' = [return EXCEPT !.at = p, !.n = inst[deposit].pi, !.take = take, !.alone = a]
      BY <2>1, <2>2, <2>3, <3>1 DEF LookAtDeposit
    <3>4. QED BY <2>1, <2>2, <2>3, <3>2, <3>3
  <2>4. CASE ~ held
    <3>1. PICK p, a : p = UnlessHeld /\ a = AtRest
      OBVIOUS
    <3>2. p \in {"callOff", "ask"}
      BY <3>1 DEF UnlessHeld
    <3>3. return' = [return EXCEPT !.at = p, !.alone = a]
      BY <2>1, <2>4, <3>1 DEF LookAtDeposit
    <3>4. return' = [return EXCEPT !.at = p, !.n = return.n, !.take = return.take, !.alone = a]
      BY <3>3 DEF DepositInv, ReturnTells
    <3>5. QED BY <2>1, <2>4, <3>2, <3>4
  <2>5. QED BY <2>3, <2>4
<1>3. PICK r : r = [return EXCEPT !.at = p, !.n = n, !.take = take, !.alone = a]
  OBVIOUS
<1>4. /\ "at" \in DOMAIN r /\ "fees" \in DOMAIN r /\ "n" \in DOMAIN r
      /\ "take" \in DOMAIN r /\ "kept" \in DOMAIN r /\ "asked" \in DOMAIN r
      /\ "trouble" \in DOMAIN r /\ "alone" \in DOMAIN r
      /\ r.at = p /\ r.fees = return.fees /\ r.n = n /\ r.take = take
      /\ r.kept = return.kept /\ r.asked = return.asked /\ r.trouble = return.trouble
  BY <1>3 DEF DepositInv, ReturnTells
<1>5. return' = r
  BY <1>2, <1>3
<1>6. /\ take \in Int /\ take <= return.fees
      /\ n \in Intents => intent[n].state # "unused" /\ intent[n].of \in Holds
  <2>1. CASE held
    <3>1. deposit \in Holds /\ deposit \in Installments
      BY <1>2, <2>1, HoldsAssumption DEF deposit
    <3>2. RowTells(deposit, inst[deposit])
      BY <3>1 DEF DepositInv, RowsTell
    <3>3. take = SmallerOf(return.fees, inst[deposit].amount) /\ n = inst[deposit].pi
      BY <1>2, <2>1
    <3>4. QED BY <3>1, <3>2, <3>3 DEF RowTells, MadeFor, SmallerOf, DepositInv, ReturnTells
  <2>2. CASE ~ held
    BY <1>2, <2>2 DEF DepositInv, ReturnTells
  <2>3. QED BY <2>1, <2>2
<1>7. ReturnTells'
  BY <1>1, <1>2, <1>4, <1>5, <1>6 DEF DepositInv, ReturnTells, IntentsGrow
<1>8. ASSUME booking.rental PROVE FeesAddUp'
  <2>0. return.at = "recorded"
    BY DEF LookAtDeposit, Settling
  <2>1. Captured = {}
    BY <1>8, <2>0 DEF DepositInv, FeesAddUp, CapturePlaces
  <2>2. Captured' = {}
    BY <1>1, <2>1, CapturedStays
  <2>3. return.kept = 0 /\ return.asked = 0
    BY <1>8, <2>0 DEF DepositInv, FeesAddUp
  <2>4. QED BY <1>2, <1>4, <1>5, <2>2, <2>3 DEF FeesAddUp
<1>9. QED BY <1>1, <1>7, <1>8, SettlementTells

\* The deposit's first capture, of the settlement's intent, is for no more than
\* the fees; when it is not answered the settlement does not know.
LEMMA CaptureTells ==
  ASSUME DepositInv, CaptureDeposit
  PROVE  DepositInv'
<1>0. /\ IntentsTell /\ RentalStays /\ UNCHANGED <<inst, work>> /\ return.at = "capture"
  BY DEF DepositInv, CaptureDeposit, RentalStays, Settling
<1>1. PICK p \in {"relabel", "drop"}, t \in {return.trouble, "lost", "refused"} :
        return' = [return EXCEPT !.at = p, !.trouble = t]
  BY DepositAssumption DEF CaptureDeposit, DepositInv, ReturnTells
<1>2. PICK r : r = [return EXCEPT !.at = p, !.trouble = t]
  OBVIOUS
<1>3. /\ "at" \in DOMAIN r /\ "fees" \in DOMAIN r /\ "n" \in DOMAIN r
      /\ "take" \in DOMAIN r /\ "kept" \in DOMAIN r /\ "asked" \in DOMAIN r
      /\ "trouble" \in DOMAIN r /\ "alone" \in DOMAIN r
      /\ r.at = p /\ r.fees = return.fees /\ r.n = return.n /\ r.take = return.take
      /\ r.kept = return.kept /\ r.asked = return.asked /\ r.trouble = t
  BY <1>2 DEF DepositInv, ReturnTells
<1>4. return' = r
  BY <1>1, <1>2
<1>5. IntentsGrow => DepositInv' \/ (booking.rental /\ ~ FeesAddUp')
  <2>1. IntentsGrow => RowsTell' /\ ReturnTells'
    BY <1>0, <1>1, <1>3, <1>4, RowsRest, ReturnRests DEF DepositInv
  <2>2. QED BY <1>0, <2>1, SettlementTells
<1>6. booking.rental => Captured = {} /\ return.kept = 0 /\ return.asked = 0
  BY <1>0 DEF DepositInv, FeesAddUp, CapturePlaces
<1>7. CASE UNCHANGED intent
  <2>1. IntentsGrow /\ Captured' = Captured
    BY <1>0, <1>7, IntentsRest, CapturedStays
  <2>2. ASSUME booking.rental PROVE p = "drop"
    <3>1. CASE CanCapture(return.n) /\ Capture(return.n, return.take)
      <4>1. PICK n : n = return.n
        OBVIOUS
      <4>2. n \in Intents /\ intent[n].state \in {"requires_capture", "succeeded"}
        BY <3>1, <4>1 DEF CanCapture
      <4>3. intent[n].of \in Holds
        BY <4>1, <4>2 DEF DepositInv, ReturnTells
      <4>4. intent[n].state = "requires_capture"
        BY <1>6, <2>2, <4>2, <4>3 DEF Captured
      <4>5. PICK q : q = Becomes([intent[n] EXCEPT !.taken = return.take], "succeeded")
        OBVIOUS
      <4>6. intent' = [intent EXCEPT ![n] = q]
        BY <3>1, <4>1, <4>4, <4>5 DEF Capture
      <4>7. IntentTells(intent[n])
        BY <1>0, <4>2 DEF IntentsTell
      <4>8. q.state = "succeeded"
        BY <4>5, <4>7 DEF Becomes, IntentTells
      <4>9. intent'[n].state = "succeeded"
        BY <1>0, <4>2, <4>6, <4>8 DEF IntentsTell
      <4>10. QED BY <1>7, <4>4, <4>9
    <3>2. CASE return' = [return EXCEPT !.at = "drop",
                            !.trouble = IF CanCapture(return.n) THEN "refused" ELSE @]
      BY <1>3, <1>4, <3>2 DEF DepositInv, ReturnTells
    <3>3. QED BY <3>1, <3>2 DEF CaptureDeposit
  <2>3. booking.rental => FeesAddUp'
    BY <1>3, <1>4, <1>6, <2>1, <2>2 DEF FeesAddUp
  <2>4. QED BY <1>5, <2>1, <2>3
<1>8. CASE ~ UNCHANGED intent
  <2>1. PICK n : n = return.n
    OBVIOUS
  <2>2. PICK take : take = return.take
    OBVIOUS
  <2>3. /\ CanCapture(n) /\ Capture(n, take) /\ (p = "relabel" \/ t = "lost")
    <3>1. CanCapture(n) /\ Capture(n, take)
      BY <1>8, <2>1, <2>2 DEF CaptureDeposit
    <3>2. PICK answered \in BOOLEAN :
            return' = [return EXCEPT !.at = IF answered THEN "relabel" ELSE "drop",
                                     !.trouble = IF answered THEN @ ELSE "lost"]
      BY <1>8, DepositAssumption DEF CaptureDeposit
    <3>3. CASE answered
      <4>1. return'.at = "relabel"
        BY <3>2, <3>3 DEF DepositInv, ReturnTells
      <4>2. QED BY <1>3, <1>4, <3>1, <4>1
    <3>4. CASE ~ answered
      <4>1. return'.trouble = "lost"
        BY <3>2, <3>4 DEF DepositInv, ReturnTells
      <4>2. QED BY <1>3, <1>4, <3>1, <4>1
    <3>5. QED BY <3>3, <3>4
  <2>4. n \in Intents /\ intent[n].state = "requires_capture"
    BY <1>8, <2>3 DEF CanCapture, Capture
  <2>5. intent[n].of \in Holds
    BY <2>1, <2>4 DEF DepositInv, ReturnTells
  <2>6. PICK q : q = Becomes([intent[n] EXCEPT !.taken = take], "succeeded")
    OBVIOUS
  <2>7. intent' = [intent EXCEPT ![n] = q]
    BY <2>3, <2>4, <2>6 DEF Capture
  <2>8. IntentTells(intent[n])
    BY <1>0, <2>4 DEF IntentsTell
  <2>9. IntentTells(q) /\ q.state = "succeeded" /\ q.of = intent[n].of /\ q.taken = take
    BY <2>4, <2>6, <2>8 DEF Becomes, IntentTells
  <2>10. IntentsGrow
    BY <1>0, <2>4, <2>7, <2>9, IntentGrows
  <2>11. ASSUME booking.rental PROVE FeesAddUp'
    <3>1. \A m \in Intents : intent'[m] = IF m = n THEN q ELSE intent[m]
      BY <1>0, <2>7 DEF IntentsTell
    <3>2. Captured' = {n}
      BY <1>6, <2>4, <2>5, <2>9, <2>11, <3>1 DEF Captured
    <3>3. intent'[n].taken = take
      BY <2>4, <2>9, <3>1
    <3>4. QED BY <1>1, <1>3, <1>4, <1>6, <2>1, <2>2, <2>3, <2>11, <3>2, <3>3
              DEF FeesAddUp, CapturePlaces
  <2>12. QED BY <1>5, <2>10, <2>11
<1>9. QED BY <1>7, <1>8

\* The other steps of the settlement, none of which captures.
LEMMA SettlementStepTells ==
  ASSUME DepositInv,
         RecordFails \/ RelabelDeposit \/ MarkDepositPaid \/ CallOffDeposit
         \/ VoidDeposit \/ AskForRest \/ SettlementStops
  PROVE  DepositInv'
<1>0. IntentsTell /\ RowsTell /\ ReturnTells /\ "rental" \in DOMAIN booking
  BY DEF DepositInv
<1>1. IntentsGrow /\ NoCapture
  BY <1>0, IntentsRest, CancelGrows
     DEF RecordFails, RelabelDeposit, MarkDepositPaid, CallOffDeposit, VoidDeposit, AskForRest,
         SettlementStops, vars
<1>2. RentalStays /\ UNCHANGED work
  BY <1>0 DEF RecordFails, RelabelDeposit, MarkDepositPaid, RecordPayment, WindowAfterPaying,
              CallOffDeposit, VoidDeposit, AskForRest, SettlementStops, vars, RentalStays
<1>3. RowsTell'
  <2>1. CASE UNCHANGED inst
    BY <1>0, <1>1, <2>1, RowsRest
  <2>2. CASE RelabelDeposit
    <3>1. PICK i, a : i = deposit /\ a = return.take
      OBVIOUS
    <3>2. PICK r : r = [inst[i] EXCEPT !.amount = a]
      OBVIOUS
    <3>3. inst' = [inst EXCEPT ![i] = r]
      BY <1>0, <2>2, <3>1, <3>2 DEF RelabelDeposit, RowsTell
    <3>4. i \in Installments => RowSettles(i, r)
      BY <1>0, <3>1, <3>2 DEF RowsTell, RowTells, RowSettles, ReturnTells
    <3>5. QED BY <1>0, <1>1, <3>3, <3>4, RowMoves
  <2>3. CASE MarkDepositPaid
    <3>1. PICK i, n : i = deposit /\ n = return.n
      OBVIOUS
    <3>2. n \in Intents => MadeFor(n, i)
      BY <1>0, <3>1, HoldsAssumption DEF ReturnTells, MadeFor, deposit
    <3>3. RecordPayment(i, n)
      BY <2>3, <3>1 DEF MarkDepositPaid
    <3>4. QED BY <1>0, <1>1, <3>2, <3>3, PaymentTells
  <2>4. CASE CallOffDeposit
    <3>1. PICK i : i = deposit
      OBVIOUS
    <3>2. PICK r : r = [inst[i] EXCEPT !.status = "CANCELLED"]
      OBVIOUS
    <3>3. inst' = [inst EXCEPT ![i] = r]
      BY <1>0, <2>4, <3>1, <3>2 DEF CallOffDeposit, RowsTell
    <3>4. QED BY <1>0, <1>1, <3>2, <3>3, RowKeeps DEF RowsTell, RowTells
  <2>5. QED BY <2>1, <2>2, <2>3, <2>4 DEF RecordFails, VoidDeposit, AskForRest, SettlementStops, vars
<1>4. PICK o, p, t, k, a :
        /\ o = return.at
        /\ return' = [return EXCEPT !.at = p, !.trouble = t, !.kept = k, !.asked = a]
        /\ \/ o \in {"relabel", "mark"} /\ p = "drop" /\ t = "lost" /\ k = return.kept /\ a = return.asked
           \/ /\ o = "relabel" /\ p = "mark" /\ t = return.trouble
              /\ k = return.kept /\ a = return.asked
           \/ /\ o = "mark" /\ p = "ask" /\ t = return.trouble
              /\ k = return.take /\ a = return.asked
           \/ /\ o \in {"drop", "recordVoid", "callOff"} /\ p = "ask" /\ t = return.trouble
              /\ k = return.kept /\ a = return.asked
           \/ o = "void" /\ p = "recordVoid" /\ k = return.kept /\ a = return.asked
           \/ /\ o = "ask" /\ p = "done" /\ t = return.trouble
              /\ k = return.kept /\ a = return.fees - return.kept
           \/ /\ o # "none" /\ p = "stopped" /\ o # "done" /\ t = return.trouble
              /\ k = return.kept /\ a = return.asked
  <2>0. PICK o, t, k, a, b : /\ o = return.at /\ t = return.trouble /\ k = return.kept
                             /\ a = return.asked /\ b = return.fees - return.kept
    OBVIOUS
  <2>1. CASE RecordFails
    <3>1. return' = [return EXCEPT !.at = "drop", !.trouble = "lost", !.kept = k, !.asked = a]
      BY <1>0, <2>0, <2>1 DEF RecordFails, ReturnTells
    <3>2. QED BY <2>0, <2>1, <3>1 DEF RecordFails, Settling
  <2>2. CASE RelabelDeposit
    <3>1. return' = [return EXCEPT !.at = "mark", !.trouble = t, !.kept = k, !.asked = a]
      BY <1>0, <2>0, <2>2 DEF RelabelDeposit, SettleGoto, ReturnTells
    <3>2. QED BY <2>0, <2>2, <3>1 DEF RelabelDeposit, Settling
  <2>3. CASE MarkDepositPaid
    <3>1. return' = [return EXCEPT !.at = "ask", !.trouble = t, !.kept = return.take, !.asked = a]
      BY <1>0, <2>0, <2>3 DEF MarkDepositPaid, ReturnTells
    <3>2. QED BY <2>0, <2>3, <3>1 DEF MarkDepositPaid, Settling
  <2>4. CASE CallOffDeposit
    <3>1. return' = [return EXCEPT !.at = "ask", !.trouble = t, !.kept = k, !.asked = a]
      BY <1>0, <2>0, <2>4 DEF CallOffDeposit, SettleGoto, ReturnTells
    <3>2. QED BY <2>0, <2>4, <3>1 DEF CallOffDeposit, Settling
  <2>5. CASE VoidDeposit
    <3>1. PICK u : return' = [return EXCEPT !.at = "recordVoid", !.trouble = u, !.kept = k, !.asked = a]
      <4>1. CASE SettleGoto("recordVoid")
        <5>1. return' = [return EXCEPT !.at = "recordVoid", !.trouble = t, !.kept = k, !.asked = a]
          BY <1>0, <2>0, <4>1 DEF SettleGoto, ReturnTells
        <5>2. QED BY <5>1
      <4>2. CASE return' = [return EXCEPT !.at = "recordVoid", !.trouble = "refused"]
        <5>1. return' =
                [return EXCEPT !.at = "recordVoid", !.trouble = "refused", !.kept = k, !.asked = a]
          BY <1>0, <2>0, <4>2 DEF ReturnTells
        <5>2. QED BY <5>1
      <4>3. QED BY <2>5, <4>1, <4>2 DEF VoidDeposit
    <3>2. QED BY <2>0, <2>5, <3>1 DEF VoidDeposit, Settling
  <2>6. CASE AskForRest
    <3>1. return' = [return EXCEPT !.at = "done", !.trouble = t, !.kept = k, !.asked = b]
      BY <1>0, <2>0, <2>6 DEF AskForRest, ReturnTells
    <3>2. QED BY <2>0, <2>6, <3>1 DEF AskForRest, Settling
  <2>7. CASE SettlementStops
    <3>1. return' = [return EXCEPT !.at = "stopped", !.trouble = t, !.kept = k, !.asked = a]
      BY <1>0, <2>0, <2>7 DEF SettlementStops, SettleGoto, ReturnTells
    <3>2. QED BY <2>0, <2>7, <3>1 DEF SettlementStops
  <2>8. QED BY <2>1, <2>2, <2>3, <2>4, <2>5, <2>6, <2>7
<1>5. PICK r : r = [return EXCEPT !.at = p, !.trouble = t, !.kept = k, !.asked = a]
  OBVIOUS
<1>6. /\ "at" \in DOMAIN r /\ "fees" \in DOMAIN r /\ "n" \in DOMAIN r
      /\ "take" \in DOMAIN r /\ "kept" \in DOMAIN r /\ "asked" \in DOMAIN r
      /\ "trouble" \in DOMAIN r /\ "alone" \in DOMAIN r
      /\ r.at = p /\ r.fees = return.fees /\ r.n = return.n /\ r.take = return.take
      /\ r.kept = k /\ r.asked = a /\ r.trouble = t
  BY <1>0, <1>5 DEF ReturnTells
<1>7. return' = r
  BY <1>4, <1>5
<1>8. ASSUME booking.rental PROVE FeesAddUp'
  <2>1. FeesAddUp
    BY <1>8 DEF DepositInv
  <2>2. PICK C : C = Captured
    OBVIOUS
  <2>3. Captured' = C /\ \A n \in C : n = return.n /\ intent'[n].taken = return.take
    BY <1>1, <2>1, <2>2, CapturedStays DEF FeesAddUp
  <2>4. C # {} => return.at \in CapturePlaces
    BY <2>1, <2>2 DEF FeesAddUp
  <2>5. /\ return'.at = p /\ return'.fees = return.fees /\ return'.n = return.n
        /\ return'.take = return.take /\ return'.kept = k /\ return'.asked = a
        /\ return'.trouble = t
    BY <1>6, <1>7
  <2>6. \A n \in C : p \in CapturePlaces
    BY <1>4, <2>4 DEF CapturePlaces
  <2>7. p \in {"relabel", "mark"} => C # {}
    BY <1>4, <2>1, <2>2 DEF FeesAddUp
  <2>8. p \notin {"ask", "done", "stopped"} => k = 0
    BY <1>4, <2>1 DEF FeesAddUp
  <2>9. p # "done" => a = 0
    BY <1>4, <2>1 DEF FeesAddUp
  <2>10. p = "drop" /\ C # {} => t = "lost"
    BY <1>4
  <2>11. p \in {"ask", "done"} /\ t # "lost" => k = IF C = {} THEN 0 ELSE return.take
    BY <1>4, <2>1, <2>2, <2>4 DEF FeesAddUp, CapturePlaces
  <2>12. p = "done" => a = return.fees - k
    BY <1>4
  <2>13. QED BY <2>3, <2>5, <2>6, <2>7, <2>8, <2>9, <2>10, <2>11, <2>12 DEF FeesAddUp
<1>9. p # "none"
  BY <1>4
<1>10. QED BY <1>1, <1>2, <1>3, <1>6, <1>7, <1>8, <1>9, SettlementGoesOn

LEMMA DepositStep ==
  ASSUME DepositInv, [DepositNext]_depositVars
  PROVE  DepositInv'
<1>1. CASE DepositNext
  BY <1>1, MeanwhileTells, RecordReturnTells, LookTells, CaptureTells, SettlementStepTells
     DEF DepositNext, SettleStep
<1>2. CASE UNCHANGED depositVars
  <2>1. IntentsGrow /\ NoCapture /\ RentalStays /\ UNCHANGED <<inst, work, return>>
    BY <1>2, IntentsRest DEF depositVars, vars, DepositInv, RentalStays
  <2>2. RowsTell'
    BY <2>1, RowsRest DEF DepositInv
  <2>3. ReturnTells'
    BY <2>1 DEF DepositInv, ReturnTells, IntentsGrow
  <2>4. booking.rental => FeesAddUp'
    BY <2>1, CapturedStays DEF DepositInv, FeesAddUp
  <2>5. QED BY <2>1, <2>2, <2>3, <2>4, SettlementTells
<1>3. QED BY <1>1, <1>2

\* When the booking is made nothing is held, captured or returned.
LEMMA DepositStarts ==
  ASSUME DepositInit
  PROVE  DepositInv
<1>1. ChargingInit /\ return = NoReturn /\ intent = [n \in Intents |-> Unused]
  BY DEF DepositInit, Init, ChargingInit, StripeInit
<1>2. "rental" \in DOMAIN booking
  BY <1>1 DEF ChargingInit
<1>3. RowsTell
  BY <1>1, NoneAssumption, BoundsAssumption DEF ChargingInit, FreshRow, RowsTell, RowTells
<1>4. IntentsTell
  BY <1>1 DEF Unused, IntentsTell, IntentTells
<1>5. MemoryTells(Idle)
  BY NoneAssumption DEF Idle, MemoryTells
<1>6. MemoriesTell
  BY <1>1, <1>5 DEF ChargingInit, MemoriesTell, MemoryTells, MadeFor
<1>7. ReturnTells
  BY <1>1, NoneAssumption DEF NoReturn, ReturnTells
<1>8. Captured = {}
  BY <1>1 DEF Unused, Captured
<1>9. FeesAddUp
  BY <1>1, <1>8 DEF NoReturn, FeesAddUp
<1>10. QED BY <1>2, <1>3, <1>4, <1>6, <1>7, <1>9 DEF DepositInv

\* The deposit of a rental is captured at most once, by its one settlement and for
\* no more than the fees; and unless the capture was made and the settlement does
\* not know, what is captured and what the customer is then asked for are the
\* fees, once: whatever charges, retries, webhooks, cancellations and completions
\* come between its steps (settleSecurityDepositLocked, recordReturn).
THEOREM FeesOnce == DepositSpec => []FeesTakenOnce
<1>1. DepositInv => FeesTakenOnce
  <2>1. SUFFICES ASSUME DepositInv, booking.rental PROVE FeesTakenOnce
    BY DEF FeesTakenOnce
  <2>2. FeesAddUp /\ ReturnTells
    BY <2>1 DEF DepositInv
  <2>3. \A m, n \in Captured : m = n
    BY <2>2 DEF FeesAddUp
  <2>4. ASSUME NEW n \in Captured
        PROVE  /\ return.at # "none" /\ intent[n].taken <= return.fees
               /\ return.trouble # "lost" => intent[n].taken + return.asked <= return.fees
    BY <2>2 DEF FeesAddUp, ReturnTells, CapturePlaces
  <2>5. return.at = "done" /\ return.trouble # "lost" =>
          return.asked = return.fees - (IF Captured = {} THEN 0 ELSE return.take)
    BY <2>2 DEF FeesAddUp
  <2>6. QED BY <2>3, <2>4, <2>5 DEF FeesTakenOnce
<1>2. QED BY <1>1, DepositStarts, DepositStep, PTL DEF DepositSpec
=============================================================================
