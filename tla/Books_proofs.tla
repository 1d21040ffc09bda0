---------------------------- MODULE Books_proofs ----------------------------
(***************************************************************************)
(* What the rows of a booking and Stripe say of each other, for any number *)
(* of installments, handlers, intents and retries, with repeated events    *)
(* and crashes.  Until the booking is cancelled: the books match when all  *)
(* is quiet, a deadline waits for a payment that is missing, and the job   *)
(* that cancels for non-payment spares a booking that was paid.  Also      *)
(* while a cancellation's refunds race late charges: all types hold, a row *)
(* shows no refund Stripe has not made, and a recorded payment stays one.  *)
(* Like NoDoubleCharge in Collection_proofs the theorems are about         *)
(* bookings with a saved card and no card hold, and need the answer of     *)
(* every charge to reach its handler: without it the run                   *)
(* collection_lost_answer shows a recorded payment overwritten as failed.  *)
(***************************************************************************)
EXTENDS Collection_proofs, Sums_proofs

----------------------------------------------------------------------------
(* What rows and Stripe say of each other while the booking is on.         *)

\* The event of a successful charge, with the handler that has it.
HasEvent(memory, n) ==
  memory.at \in {"hook", "paid"} /\ memory.event = "succeeded" /\ memory.n = n
Told(n) == "succeeded" \in intent[n].news \/ \E w \in Workers : HasEvent(work[w], n)

ChargePlaces == {"read", "claim", "call", "newCard", "reset"}
UndoPlaces == {"callOff", "handBack", "recordBack", "dropHold", "recordDrop"}

\* A handler that records a payment has its intent; an owner's row is PROCESSING with
\* the amount it was claimed for; nothing is undone before the booking ends.
Knows(memory) ==
  /\ memory.at \in ChargePlaces => memory.event = "none"
  /\ memory.event # "none" => memory.from \in Intents /\ Charged(memory.from)
  /\ memory.at = "hook" => /\ memory.event = "succeeded" /\ memory.n = memory.from
                           /\ memory.i = intent[memory.from].of
  /\ memory.at = "paid" => /\ memory.n \in Intents /\ Charged(memory.n)
                           /\ memory.i = intent[memory.n].of
                           /\ memory.event # "none" => memory.n = memory.from
  /\ memory.at = "call" => memory.amount = inst[memory.i].amount
  /\ ~ Ended => /\ memory.at \notin UndoPlaces
                /\ memory.at \in OwnerPlaces => inst[memory.i].status = "PROCESSING"

\* A charge is recorded on its row, or its event still has to be.
Recorded(n) ==
  /\ intent[n].of # None \/ intent[n].told # {} \/ intent[n].news # {} => Charged(n)
  /\ ~ Ended => intent[n].back = 0
  /\ ~ Ended /\ Charged(n) =>
       /\ inst[intent[n].of].amount = intent[n].taken
       /\ \/ inst[intent[n].of].status = "PAID"
          \/ inst[intent[n].of].status = "PROCESSING" /\ Told(n)

\* A row that is PAID was charged.
Covered(i) ==
  ~ Ended => /\ inst[i].refunded = 0 /\ inst[i].status # "REFUNDED"
             /\ inst[i].status = "PAID" => \E n \in Intents : Charged(n) /\ intent[n].of = i

\* A deadline waits for a payment that is missing.
Waits ==
  ~ Ended /\ booking.window # "none" =>
    /\ booking.kind # "none"
    /\ \E i \in Installments : DueKind[i] = booking.kind /\ inst[i].status # "PAID"

Unclaimed == ~ Ended => cancelling.at \in {"idle", "overdue", "load", "claim"}

Ledger ==
  /\ \A w \in Workers : Knows(work[w])
  /\ \A n \in Intents : Recorded(n)
  /\ \A i \in Installments : Covered(i)
  /\ Waits
  /\ Unclaimed

----------------------------------------------------------------------------
(* What a step must respect.                                               *)

\* Of what is charged nobody owns the row, and it is not open.
LEMMA NotCharged ==
  ASSUME IInv, AnswersLost = FALSE, NEW i \in Installments,
         Open(i) \/ \E w \in Workers : Owns(work[w], i)
  PROVE  \A n \in Intents : Charged(n) => intent[n].of # i
BY DEF IInv, ChargedOnce

\* Of a handler's memory only this is about the rows and the booking.
LEMMA KnowsStill ==
  ASSUME NEW m, Knows(m), Ended' <=> Ended,
         \A n \in Intents : Charged(n) => Charged(n)' /\ intent'[n].of = intent[n].of,
         m.at \in OwnerPlaces => /\ inst'[m.i].amount = inst[m.i].amount
                                 /\ inst'[m.i].status = inst[m.i].status
  PROVE  Knows(m)'
BY DEF Knows, OwnerPlaces

\* A handler goes on, and no row or intent changes.
LEMMA LedgerGoesOn ==
  ASSUME IInv, Ledger, NEW w \in Workers, NEW m, work' = [work EXCEPT ![w] = m],
         UNCHANGED <<inst, intent, cancelling>>, Ended' <=> Ended, Waits', Knows(m),
         \A n \in Intents : HasEvent(work[w], n) /\ ~ Ended =>
            HasEvent(m, n) \/ inst[intent[n].of].status = "PAID"
  PROVE  Ledger'
<1>1. \A v \in Workers : work'[v] = IF v = w THEN m ELSE work[v]
  BY DEF IInv
<1>2. \A v \in Workers : Knows(work[v])'
  <2>1. Knows(m)'
    BY KnowsStill DEF Charged
  <2>2. ASSUME NEW v \in Workers PROVE Knows(work[v])'
    <3>1. Knows(work[v])
      BY DEF Ledger
    <3>2. CASE v = w
      BY <1>1, <2>1, <3>2 DEF Knows, Charged, Ended
    <3>3. CASE v # w
      BY <1>1, <3>1, <3>3 DEF Knows, Charged
    <3>4. QED BY <3>2, <3>3
  <2>3. QED BY <2>2
<1>3. ASSUME NEW n \in Intents PROVE Recorded(n)'
  <2>1. Recorded(n)
    BY DEF Ledger
  <2>2. ASSUME ~ Ended, Charged(n), inst[intent[n].of].status # "PAID"
        PROVE  Told(n)'
    <3>1. Told(n)
      BY <2>1, <2>2 DEF Recorded
    <3>2. CASE "succeeded" \in intent[n].news
      BY <3>2 DEF Told
    <3>3. ASSUME NEW v \in Workers, HasEvent(work[v], n) PROVE Told(n)'
      <4>1. HasEvent(work'[v], n)
        BY <1>1, <2>2, <3>3
      <4>2. QED BY <4>1 DEF Told, HasEvent
    <3>4. QED BY <3>1, <3>2, <3>3 DEF Told
  <2>3. QED BY <2>1, <2>2 DEF Recorded, Charged
<1>4. (\A i \in Installments : Covered(i))' /\ Unclaimed'
  BY DEF Ledger, Covered, Unclaimed, Charged
<1>5. QED BY <1>2, <1>3, <1>4 DEF Ledger

\* The same where nothing else changes.
LEMMA LedgerThinks ==
  ASSUME IInv, Ledger, NEW w \in Workers, NEW m, work' = [work EXCEPT ![w] = m],
         UNCHANGED <<inst, booking, intent, cancelling>>, Knows(m),
         \A n \in Intents : HasEvent(work[w], n) /\ ~ Ended =>
            HasEvent(m, n) \/ inst[intent[n].of].status = "PAID"
  PROVE  Ledger'
<1>1. (Ended' <=> Ended) /\ Waits'
  BY DEF Ledger, Ended, Waits
<1>2. QED BY <1>1, LedgerGoesOn

\* A handler changes an uncharged row that nobody else owns.
LEMMA LedgerUpdates ==
  ASSUME IInv, Ledger, AnswersLost = FALSE, NEW w \in Workers, NEW m,
         work' = [work EXCEPT ![w] = m],
         UNCHANGED <<booking, intent, cancelling>>,
         NEW i \in Installments, NEW r, inst' = [inst EXCEPT ![i] = r],
         \A n \in Intents : Charged(n) => intent[n].of # i,
         \A v \in Workers : v # w => ~ Owns(work[v], i),
         r.status \notin {"PAID", "REFUNDED"}, r.refunded = inst[i].refunded,
         Knows(m)', \A n \in Intents : ~ HasEvent(work[w], n)
  PROVE  Ledger'
<1>1. \A v \in Workers : work'[v] = IF v = w THEN m ELSE work[v]
  BY DEF IInv
<1>2. \A j \in Installments : inst'[j] = IF j = i THEN r ELSE inst[j]
  BY DEF IInv
<1>3. Ended' <=> Ended
  BY DEF Ended
<1>4. ASSUME NEW v \in Workers PROVE Knows(work[v])'
  <2>1. Knows(work[v])
    BY DEF Ledger
  <2>2. CASE v = w
    BY <1>1, <2>2 DEF Knows, Charged, Ended
  <2>3. CASE v # w
    <3>1. work[v].at \in OwnerPlaces => work[v].i \in Installments /\ work[v].i # i
      BY <2>3 DEF IInv, Sound, Owns, OwnerPlaces
    <3>2. work[v].at \in OwnerPlaces => inst'[work[v].i] = inst[work[v].i]
      BY <1>2, <3>1
    <3>3. work'[v] = work[v]
      BY <1>1, <2>3
    <3>4. QED BY <1>3, <2>1, <3>2, <3>3 DEF Knows, Charged, OwnerPlaces
  <2>4. QED BY <2>2, <2>3
<1>5. ASSUME NEW n \in Intents PROVE Recorded(n)'
  <2>1. Recorded(n)
    BY DEF Ledger
  <2>2. Told(n) => Told(n)'
    <3>1. ASSUME NEW v \in Workers, HasEvent(work[v], n) PROVE HasEvent(work'[v], n)
      BY <1>1, <3>1
    <3>2. QED BY <3>1 DEF Told, HasEvent
  <2>3. Charged(n) => intent[n].of \in Installments /\ inst'[intent[n].of] = inst[intent[n].of]
    <3>1. Charged(n) => intent[n].of \in Installments
      BY DEF IInv, ChargedOnce
    <3>2. QED BY <1>2, <3>1
  <2>4. QED BY <1>3, <2>1, <2>2, <2>3 DEF Recorded, Charged
<1>6. ASSUME NEW j \in Installments PROVE Covered(j)'
  <2>1. Covered(j)
    BY DEF Ledger
  <2>2. QED BY <1>2, <1>3, <2>1 DEF Covered, Charged
<1>7. Waits' /\ Unclaimed'
  <2>1. Waits /\ Unclaimed
    BY DEF Ledger
  <2>2. QED BY <1>2, <1>3, <2>1 DEF Waits, Unclaimed
<1>8. QED BY <1>4, <1>5, <1>6, <1>7 DEF Ledger

\* Once the booking has ended, the amounts and what is charged stay.
EndedKeeps ==
  /\ Ended /\ Ended'
  /\ \A n \in Intents : Charged(n) => Charged(n)' /\ intent'[n].of = intent[n].of
  /\ \A n \in Intents :
       intent'[n].of # None \/ intent'[n].told # {} \/ intent'[n].news # {} => Charged(n)'
  /\ \A i \in Installments : inst'[i].amount = inst[i].amount

\* So a handler's step keeps the ledger of an ended booking.
LEMMA LedgerEnded ==
  ASSUME IInv, Ledger, EndedKeeps, NEW w \in Workers, NEW m,
         work' = [work EXCEPT ![w] = m], Knows(m)'
  PROVE  Ledger'
<1>1. \A v \in Workers : work'[v] = IF v = w THEN m ELSE work[v]
  BY DEF IInv
<1>2. ASSUME NEW v \in Workers PROVE Knows(work[v])'
  <2>1. Knows(work[v])
    BY DEF Ledger
  <2>2. CASE v = w
    BY <1>1, <2>2 DEF Knows, Charged, Ended
  <2>3. CASE v # w
    <3>1. work'[v] = work[v]
      BY <1>1, <2>3
    <3>2. work[v].at = "call" => work[v].i \in Installments
      BY DEF IInv, Sound
    <3>3. QED BY <2>1, <3>1, <3>2 DEF Knows, EndedKeeps
  <2>4. QED BY <2>2, <2>3
<1>3. QED BY <1>2 DEF Ledger, EndedKeeps, Recorded, Covered, Waits, Unclaimed

\* The same for a step of the cancellation.
LEMMA LedgerCancels ==
  ASSUME IInv, Ledger, EndedKeeps, UNCHANGED work
  PROVE  Ledger'
<1>1. ASSUME NEW v \in Workers PROVE Knows(work[v])'
  <2>1. Knows(work[v])
    BY DEF Ledger
  <2>2. work[v].at = "call" => work[v].i \in Installments
    BY DEF IInv, Sound
  <2>3. QED BY <2>1, <2>2 DEF Knows, EndedKeeps
<1>2. QED BY <1>1 DEF Ledger, EndedKeeps, Recorded, Covered, Waits, Unclaimed

----------------------------------------------------------------------------
(* The handlers' steps.                                                    *)

\* Who is idle knows nothing.
LEMMA IdleKnows == Knows(Idle) /\ \A n : ~ HasEvent(Idle, n)
BY DEF Knows, Idle, HasEvent, ChargePlaces, UndoPlaces, OwnerPlaces

\* A plan begins with nothing charged and nothing to wait for.
LEMMA InitLedger == ASSUME PlainBooking, Init PROVE Ledger
<1>1. \A w \in Workers : Knows(work[w])
  BY IdleKnows DEF Init, ChargingInit
<1>2. \A n \in Intents : Recorded(n)
  BY DEF Init, ChargingInit, StripeInit, Unused, Recorded, Charged
<1>3. \A i \in Installments : Covered(i)
  BY DEF Init, ChargingInit, FreshRow, Covered
<1>4. Waits /\ Unclaimed
  BY DEF Init, ChargingInit, NoCancellation, Waits, Unclaimed
<1>5. QED BY <1>1, <1>2, <1>3, <1>4 DEF Ledger

\* A handler that is done, or goes on, and changes nothing else.
LEMMA LedgerDone ==
  ASSUME IInv, Ledger, NEW w \in Workers, Done(w),
         UNCHANGED <<inst, booking, intent, cancelling>>,
         \A n \in Intents : ~ HasEvent(work[w], n) \/ Ended \/ inst[intent[n].of].status = "PAID"
  PROVE  Ledger'
BY IdleKnows, LedgerThinks DEF Done

\* Picking an installment, reading it, or finding that there is nothing to do.
LEMMA LedgerReads ==
  ASSUME PlainBooking, IInv, Ledger, NEW w \in Workers, UNCHANGED cancelling,
         \/ \E i \in Installments : SelectDue(w, i) \/ RetryInstallment(w, i)
         \/ FindNothingToCharge(w) \/ FindBookingEnded(w) \/ ReadForCharge(w)
         \/ ChargeFails(w)
  PROVE  Ledger'
<1>1. \A n : ~ HasEvent(work[w], n)
  BY DEF HasEvent, SelectDue, RetryInstallment, FindNothingToCharge, FindBookingEnded,
         ReadForCharge, ChargeFails
<1>2. Knows(work[w]) /\ work[w] \in Handlings
  BY DEF Ledger, IInv
<1>3. UNCHANGED <<inst, booking, intent, cancelling>>
  BY DEF SelectDue, RetryInstallment, FindNothingToCharge, FindBookingEnded,
         ReadForCharge, ChargeFails
<1>4. ASSUME NEW m, work' = [work EXCEPT ![w] = m], Knows(m) PROVE Ledger'
  BY <1>1, <1>3, <1>4, LedgerThinks
<1>5. ASSUME NEW i \in Installments, SelectDue(w, i) PROVE Ledger'
  <2> DEFINE m == [Idle EXCEPT !.at = "read", !.i = i]
  <2>1. work' = [work EXCEPT ![w] = m]
    BY <1>5 DEF SelectDue
  <2>2. Knows(m)
    BY DEF Knows, Idle, ChargePlaces, UndoPlaces, OwnerPlaces
  <2> HIDE DEF m
  <2>3. QED BY <1>4, <2>1, <2>2
<1>6. ASSUME NEW i \in Installments, RetryInstallment(w, i) PROVE Ledger'
  <2>1. PICK card \in BOOLEAN : work' = [work EXCEPT ![w] =
          [Idle EXCEPT !.at = IF card THEN "newCard" ELSE "reset", !.i = i,
             !.status = inst[i].status, !.attempts = inst[i].attempts, !.card = card]]
    BY <1>6 DEF RetryInstallment
  <2> DEFINE m == [Idle EXCEPT !.at = IF card THEN "newCard" ELSE "reset", !.i = i,
                     !.status = inst[i].status, !.attempts = inst[i].attempts, !.card = card]
  <2>2. m.at \in {"newCard", "reset"} /\ m.event = "none"
    BY DEF Idle
  <2> HIDE DEF m
  <2>3. Knows(m)
    BY <2>2 DEF Knows, ChargePlaces, UndoPlaces, OwnerPlaces
  <2>4. QED BY <1>4, <2>1, <2>3 DEF m
<1>7. CASE FindNothingToCharge(w)
  BY <1>1, <1>3, <1>7, LedgerDone DEF FindNothingToCharge
<1>8. CASE FindBookingEnded(w)
  <2> DEFINE m == [work[w] EXCEPT !.at = "callOff"]
  <2>1. work' = [work EXCEPT ![w] = m] /\ Ended
    BY <1>8 DEF FindBookingEnded, Goto, IInv
  <2>2. m.at = "callOff" /\ m.event = work[w].event /\ m.from = work[w].from
    BY <1>2 DEF Handlings
  <2> HIDE DEF m
  <2>3. Knows(m)
    BY <1>2, <2>1, <2>2 DEF Knows, ChargePlaces, OwnerPlaces
  <2>4. QED BY <1>4, <2>1, <2>3
<1>9. CASE ReadForCharge(w)
  <2> DEFINE m == AsRead(w, "claim")
  <2>1. work' = [work EXCEPT ![w] = m]
    BY <1>9 DEF ReadForCharge, HasCard, IInv
  <2>2. work[w].at = "read"
    BY <1>9 DEF ReadForCharge
  <2>3. m.at = "claim" /\ m.event = work[w].event /\ m.from = work[w].from
    BY <1>2 DEF AsRead, Handlings
  <2> HIDE DEF m
  <2>4. Knows(m)
    BY <1>2, <2>2, <2>3 DEF Knows, ChargePlaces, OwnerPlaces, UndoPlaces
  <2>5. QED BY <1>4, <2>1, <2>4
<1>10. CASE ChargeFails(w)
  <2>1. PICK needs \in BOOLEAN, k \in {Dud, None} :
          work' = [work EXCEPT ![w] = [work[w] EXCEPT !.at = "fail", !.needs = needs, !.n = k]]
    BY <1>10 DEF ChargeFails, IInv
  <2> DEFINE m == [work[w] EXCEPT !.at = "fail", !.needs = needs, !.n = k]
  <2>2. m.at = "fail" /\ m.event = work[w].event /\ m.from = work[w].from /\ m.i = work[w].i
    BY <1>2 DEF Handlings
  <2>3. work[w].at = "call"
    BY <1>10 DEF ChargeFails
  <2> HIDE DEF m
  <2>4. Knows(m)
    BY <1>2, <2>2, <2>3 DEF Knows, ChargePlaces, OwnerPlaces, UndoPlaces
  <2>5. QED BY <1>4, <2>1, <2>4 DEF m
<1>11. QED BY <1>5, <1>6, <1>7, <1>8, <1>9, <1>10

\* The claim: the row is now PROCESSING, with the amount the handler read.
LEMMA LedgerClaims ==
  ASSUME IInv, Ledger, AnswersLost = FALSE, NEW w \in Workers, ClaimAttempt(w),
         UNCHANGED cancelling
  PROVE  Ledger'
<1>1. work[w] \in Handlings /\ work[w].at = "claim" /\ work[w].i \in Installments
  BY DEF ClaimAttempt, IInv, Sound
<1>2. Knows(work[w]) /\ \A n : ~ HasEvent(work[w], n)
  BY <1>1 DEF Ledger, HasEvent
<1>3. CASE Claimable(w)
  <2> DEFINE i == work[w].i
             r == [inst[i] EXCEPT !.status = "PROCESSING", !.attempts = work[w].attempts]
             m == [work[w] EXCEPT !.at = "call"]
  <2>1. inst[i] \in Rows /\ inst[i].status = "SCHEDULED" /\ inst[i].amount = work[w].amount
    BY <1>1, <1>3 DEF Claimable, Row, IInv
  <2>2. inst' = [inst EXCEPT ![i] = r] /\ work' = [work EXCEPT ![w] = m]
    BY <1>3 DEF ClaimAttempt, Mine, Goto, IInv
  <2>3. r.status = "PROCESSING" /\ r.refunded = inst[i].refunded /\ r.amount = inst[i].amount
    BY <2>1 DEF Rows
  <2>4. m.at = "call" /\ m.event = work[w].event /\ m.from = work[w].from /\ m.i = i
          /\ m.amount = work[w].amount
    BY <1>1 DEF Handlings
  <2>5. Open(i)
    BY <2>1 DEF Open, OpenStatus
  <2> HIDE DEF r, m
  <2>6. (\A n \in Intents : Charged(n) => intent[n].of # i) /\ \A v \in Workers : ~ Owns(work[v], i)
    BY <1>1, <2>5, NotCharged DEF IInv
  <2>7. PICK k : k = m
    OBVIOUS
  <2>8. inst'[i] = r
    BY <1>1, <2>2 DEF IInv
  <2>9. Knows(k)'
    BY <1>2, <2>1, <2>3, <2>4, <2>7, <2>8 DEF Knows, ClaimAttempt, Charged, ChargePlaces, UndoPlaces
  <2>10. QED BY <1>1, <1>2, <2>2, <2>3, <2>6, <2>7, <2>9, LedgerUpdates DEF ClaimAttempt
<1>4. CASE ~ Claimable(w)
  BY <1>2, <1>4, LedgerDone DEF ClaimAttempt
<1>5. QED BY <1>3, <1>4

\* A failed attempt: its owner writes the row, which is not charged.
LEMMA LedgerFails ==
  ASSUME IInv, Ledger, AnswersLost = FALSE, NEW w \in Workers, UNCHANGED cancelling,
         RecordFailure(w) \/ RecordMissedDeposit(w)
  PROVE  Ledger'
<1> DEFINE i == work[w].i
<1>1. work[w].at \in OwnerPlaces /\ i \in Installments
  BY DEF RecordFailure, RecordMissedDeposit, IInv, Sound, OwnerPlaces
<1>2. \A n : ~ HasEvent(work[w], n)
  BY <1>1 DEF HasEvent, OwnerPlaces
<1>3. Owns(work[w], i)
  BY <1>1 DEF Owns
<1>4. (\A n \in Intents : Charged(n) => intent[n].of # i)
        /\ \A v \in Workers : v # w => ~ Owns(work[v], i)
  BY <1>1, <1>3, NotCharged DEF IInv
<1>5. PICK s \in {"SCHEDULED", "FAILED"} : inst' = FailedRow(w, s)
  BY DEF RecordFailure, RecordMissedDeposit
<1>6. PICK q : q = IF work[w].n = Dud THEN Dud ELSE inst[i].pi
  OBVIOUS
<1> DEFINE r == [inst[i] EXCEPT !.status = s, !.attempts = work[w].attempts, !.again = FALSE,
                                !.pi = q]
<1>7. inst' = [inst EXCEPT ![i] = r]
  BY <1>1, <1>5, <1>6 DEF FailedRow, Mine, IInv
<1>8. r.status = s /\ r.refunded = inst[i].refunded
  BY <1>1 DEF IInv, Rows
<1> HIDE DEF r
<1>9. PICK k : k = Idle
  OBVIOUS
<1>10. work' = [work EXCEPT ![w] = k] /\ UNCHANGED <<booking, intent, cancelling>>
  BY <1>9 DEF RecordFailure, RecordMissedDeposit, Done
<1>11. Knows(k)'
  BY <1>9 DEF Knows, Idle, ChargePlaces, UndoPlaces, OwnerPlaces
<1> HIDE DEF i
<1>12. QED BY <1>1, <1>2, <1>4, <1>7, <1>8, <1>10, <1>11, LedgerUpdates

\* The customer's retry resets a row that is open.
LEMMA LedgerResets ==
  ASSUME IInv, Ledger, AnswersLost = FALSE, NEW w \in Workers, UNCHANGED cancelling,
         ResetAttempts(w)
  PROVE  Ledger'
<1> DEFINE i == work[w].i
<1>1. work[w].at = "reset" /\ i \in Installments /\ work[w].status \in OpenStatus
  BY DEF ResetAttempts, IInv, Sound
<1>2. \A n : ~ HasEvent(work[w], n)
  BY <1>1 DEF HasEvent
<1>3. CASE AsSeen(w)
  <2>1. Open(i)
    BY <1>1, <1>3 DEF AsSeen, Row, Open
  <2>2. (\A n \in Intents : Charged(n) => intent[n].of # i) /\ \A v \in Workers : ~ Owns(work[v], i)
    BY <1>1, <2>1, NotCharged DEF IInv
  <2> DEFINE r == [inst[i] EXCEPT !.status = "SCHEDULED", !.attempts = 0, !.again = FALSE]
  <2>3. inst' = [inst EXCEPT ![i] = r]
    BY <1>1, <1>3 DEF ResetAttempts, Mine, IInv
  <2>4. r.status = "SCHEDULED" /\ r.refunded = inst[i].refunded
    BY <1>1 DEF IInv, Rows
  <2> HIDE DEF r
  <2>5. PICK k : k = [Idle EXCEPT !.at = "read", !.i = Mine(w), !.card = work[w].card]
    OBVIOUS
  <2>6. work' = [work EXCEPT ![w] = k] /\ UNCHANGED <<booking, intent, cancelling>>
    BY <1>3, <2>5 DEF ResetAttempts
  <2>7. k.at = "read" /\ k.event = "none"
    BY <2>5 DEF Idle
  <2>8. Knows(k)'
    BY <2>7 DEF Knows, ChargePlaces, UndoPlaces, OwnerPlaces
  <2> HIDE DEF i
  <2>9. QED BY <1>1, <1>2, <2>2, <2>3, <2>4, <2>6, <2>8, LedgerUpdates
<1>4. CASE ~ AsSeen(w)
  BY <1>2, <1>4, LedgerDone DEF ResetAttempts
<1>5. QED BY <1>3, <1>4

\* The charge: its intent is new, its amount the row's, and its event still to come.
LEMMA LedgerCharges ==
  ASSUME IInv, Ledger, AnswersLost = FALSE, NEW w \in Workers, ChargeSavedCard(w),
         UNCHANGED cancelling
  PROVE  Ledger'
<1>1. work[w] \in Handlings /\ work[w].at = "call" /\ work[w].hold = FALSE
        /\ work[w].i \in Installments /\ Mine(w) = work[w].i
  BY AtWork DEF ChargeSavedCard
<1>2. PICK n \in Intents :
        /\ intent[n].state = "unused"
        /\ intent' = [intent EXCEPT ![n] = Created(Mine(w), work[w].amount, "succeeded")]
        /\ work' = [work EXCEPT ![w] = [work[w] EXCEPT !.n = n, !.at = "paid"]]
  BY <1>1 DEF ChargeSavedCard, IInv
<1>3. UNCHANGED <<inst, booking, cancelling>>
  BY DEF ChargeSavedCard
<1>4. PICK r : r = Created(Mine(w), work[w].amount, "succeeded")
  OBVIOUS
<1>5. r.of = work[w].i /\ r.state = "succeeded" /\ r.taken = work[w].amount /\ r.back = 0
        /\ "succeeded" \in r.news
  BY <1>1, <1>4 DEF Created, Becomes, Unused
<1>6. \A k \in Intents : intent'[k] = IF k = n THEN r ELSE intent[k]
  BY <1>2, <1>4 DEF IInv, IntentsSound
<1>7. PICK m : m = [work[w] EXCEPT !.n = n, !.at = "paid"]
  OBVIOUS
<1>8. m.at = "paid" /\ m.n = n /\ m.i = work[w].i /\ m.event = work[w].event
  BY <1>1, <1>7 DEF Handlings
<1>9. \A v \in Workers : work'[v] = IF v = w THEN m ELSE work[v]
  BY <1>2, <1>7 DEF IInv
<1>10. Knows(work[w]) /\ ~ Charged(n) /\ (Ended' <=> Ended)
  BY <1>2, <1>3 DEF Ledger, Charged, Ended
<1>11. \A k \in Intents : Charged(k) => Charged(k)' /\ intent'[k].of = intent[k].of
  BY <1>6, <1>10 DEF Charged
<1>12. ASSUME NEW v \in Workers PROVE Knows(work[v])'
  <2>1. CASE v = w
    <3>1. m.event = "none"
      BY <1>1, <1>8, <1>10 DEF Knows, ChargePlaces
    <3>2. Charged(n)' /\ intent'[n].of = m.i
      BY <1>5, <1>6, <1>8 DEF Charged
    <3>3. QED BY <1>8, <1>9, <2>1, <3>1, <3>2
          DEF Knows, Charged, ChargePlaces, UndoPlaces, OwnerPlaces
  <2>2. CASE v # w
    <3>1. Knows(work[v]) /\ work'[v] = work[v]
      BY <1>9, <2>2 DEF Ledger
    <3>2. QED BY <1>3, <1>10, <1>11, <3>1 DEF Knows
  <2>3. QED BY <2>1, <2>2
<1>13. ASSUME NEW k \in Intents PROVE Recorded(k)'
  <2>1. CASE k = n
    <3>1. ~ Ended => /\ inst[work[w].i].status = "PROCESSING"
                     /\ inst[work[w].i].amount = work[w].amount
      BY <1>1, <1>10 DEF Knows, OwnerPlaces
    <3>2. Told(n)'
      BY <1>5, <1>6 DEF Told
    <3>3. intent'[n] = r
      BY <1>6
    <3>4. QED BY <1>3, <1>5, <1>10, <2>1, <3>1, <3>2, <3>3 DEF Recorded, Charged
  <2>2. CASE k # n
    <3>1. Recorded(k) /\ intent'[k] = intent[k]
      BY <1>6, <2>2 DEF Ledger
    <3>2. Told(k) => Told(k)'
      <4>1. ASSUME NEW v \in Workers, HasEvent(work[v], k) PROVE HasEvent(work'[v], k)
        <5>1. v # w
          BY <1>1, <4>1 DEF HasEvent
        <5>2. QED BY <1>9, <4>1, <5>1
      <4>2. QED BY <3>1, <4>1 DEF Told, HasEvent
    <3>3. QED BY <1>3, <1>10, <3>1, <3>2 DEF Recorded, Charged
  <2>3. QED BY <2>1, <2>2
<1>14. ASSUME NEW i \in Installments PROVE Covered(i)'
  <2>1. Covered(i)
    BY DEF Ledger
  <2>2. QED BY <1>3, <1>10, <1>11, <2>1 DEF Covered
<1>15. Waits' /\ Unclaimed'
  BY <1>3, <1>10 DEF Ledger, Waits, Unclaimed
<1>16. QED BY <1>12, <1>13, <1>14, <1>15 DEF Ledger

\* A payment is recorded, and ends the wait for it.
LEMMA LedgerPays ==
  ASSUME IInv, Ledger, AnswersLost = FALSE, NEW w \in Workers, MarkPaid(w), UNCHANGED cancelling
  PROVE  Ledger'
<1> DEFINE i == work[w].i
           n == work[w].n
<1>1. work[w] \in Handlings /\ work[w].at = "paid" /\ i \in Installments /\ Mine(w) = i
  BY AtWork DEF MarkPaid
<1>2. Knows(work[w])
  BY DEF Ledger
<1>3. n \in Intents /\ Charged(n) /\ intent[n].of = i
  BY <1>1, <1>2 DEF Knows
<1>4. \A v \in Workers : ~ Owns(work[v], i)
  BY <1>3 DEF IInv, ChargedOnce
<1>5. UNCHANGED <<intent, cancelling>> /\ booking'.status = booking.status /\ (Ended' <=> Ended)
  BY DEF MarkPaid, RecordPayment, WindowAfterPaying, Ended, IInv, BookingRows
<1>6. PICK m : m = [Idle EXCEPT !.at = "undo", !.i = work[w].i, !.hold = work[w].hold,
                                !.event = work[w].event, !.from = work[w].from]
  OBVIOUS
<1>7. m.at = "undo" /\ m.event = work[w].event /\ m.from = work[w].from
  BY <1>6 DEF Idle
<1>8. work' = [work EXCEPT ![w] = m]
  BY <1>6 DEF MarkPaid, Forward
<1>9. \A v \in Workers : work'[v] = IF v = w THEN m ELSE work[v]
  BY <1>8 DEF IInv
<1>10. /\ inst'[i].status = "PAID" /\ inst'[i].amount = inst[i].amount
       /\ inst'[i].refunded = inst[i].refunded
       /\ \A j \in Installments : j # i => inst'[j] = inst[j]
  <2>1. CASE inst[i].status = "PAID"
    BY <1>1, <2>1 DEF MarkPaid, RecordPayment
  <2>2. CASE inst[i].status # "PAID"
    <3>1. PICK k \in Int : k = Second(inst[i].rows)
      BY DEF Second
    <3>2. RecordPayment(i, n)
      BY <1>1 DEF MarkPaid
    <3> DEFINE r == [inst[i] EXCEPT !.status = "PAID", !.pi = n, !.rows = k, !.again = FALSE]
    <3>3. inst' = [inst EXCEPT ![i] = r]
      <4> HIDE DEF i, n
      <4>1. QED BY <1>1, <2>2, <3>1, <3>2 DEF RecordPayment, IInv
    <3>4. r.status = "PAID" /\ r.amount = inst[i].amount /\ r.refunded = inst[i].refunded
      BY <1>1 DEF IInv, Rows
    <3> HIDE DEF r
    <3>5. QED BY <1>1, <3>3, <3>4 DEF IInv
  <2>3. QED BY <2>1, <2>2
<1> HIDE DEF i, n
<1>11. ASSUME NEW v \in Workers PROVE Knows(work[v])'
  <2>1. CASE v = w
    <3>1. work'[v] = m
      BY <1>9, <2>1
    <3>2. QED BY <1>2, <1>5, <1>7, <3>1
          DEF Knows, Charged, ChargePlaces, UndoPlaces, OwnerPlaces
  <2>2. CASE v # w
    <3>1. Knows(work[v]) /\ work'[v] = work[v]
      BY <1>9, <2>2 DEF Ledger
    <3>2. work[v].at \in OwnerPlaces => work[v].i \in Installments /\ work[v].i # i
      BY <1>4 DEF IInv, Sound, Owns, OwnerPlaces
    <3>3. QED BY <1>5, <1>10, <3>1, <3>2 DEF Knows, Charged, OwnerPlaces
  <2>3. QED BY <2>1, <2>2
<1>12. ASSUME NEW k \in Intents PROVE Recorded(k)'
  <2>1. Recorded(k)
    BY DEF Ledger
  <2>2. CASE ~ Charged(k) \/ intent[k].of = i
    BY <1>1, <1>5, <1>10, <2>1, <2>2 DEF Recorded, Charged
  <2>3. CASE Charged(k) /\ intent[k].of # i
    <3>1. intent[k].of \in Installments
      BY <2>3 DEF IInv, ChargedOnce
    <3>2. ~ HasEvent(work[w], k)
      <4>1. ASSUME HasEvent(work[w], k) PROVE FALSE
        <5>1. k = n
          BY <1>1, <1>2, <4>1 DEF HasEvent, n
        <5>2. QED BY <1>3, <2>3, <5>1
      <4>2. QED BY <4>1
    <3>3. Told(k) => Told(k)'
      <4>1. ASSUME NEW v \in Workers, HasEvent(work[v], k) PROVE HasEvent(work'[v], k)
        BY <1>9, <3>2, <4>1
      <4>2. QED BY <1>5, <4>1 DEF Told, HasEvent
    <3>4. QED BY <1>5, <1>10, <2>1, <2>3, <3>1, <3>3 DEF Recorded, Charged
  <2>4. QED BY <2>2, <2>3
<1>13. ASSUME NEW j \in Installments PROVE Covered(j)'
  <2>1. Covered(j) /\ Covered(i)
    BY <1>1 DEF Ledger
  <2>2. QED BY <1>3, <1>5, <1>10, <2>1 DEF Covered, Charged
<1>14. Waits'
  <2>1. SUFFICES ASSUME ~ Ended, booking'.window # "none"
                 PROVE  /\ booking'.kind # "none"
                        /\ \E j \in Installments :
                             DueKind[j] = booking'.kind /\ inst'[j].status # "PAID"
    BY <1>5 DEF Waits
  <2>2. CASE UNCHANGED <<inst, booking>>
    BY <2>1, <2>2 DEF Ledger, Waits
  <2>3. CASE booking' = WindowAfterPaying(i)
    <3>1. booking'.kind = booking.kind /\ booking.window # "none"
            /\ ~ (DueKind[i] # "none" /\ booking.kind = DueKind[i])
      BY <2>1, <2>3 DEF WindowAfterPaying, IInv, BookingRows
    <3>2. booking.kind # "none"
      BY <2>1, <3>1 DEF Ledger, Waits
    <3>3. PICK j \in Installments : DueKind[j] = booking.kind /\ inst[j].status # "PAID"
      BY <2>1, <3>1 DEF Ledger, Waits
    <3>4. QED BY <1>10, <3>1, <3>2, <3>3
  <2>4. QED BY <1>1, <2>2, <2>3 DEF MarkPaid, RecordPayment
<1>15. Unclaimed'
  BY <1>5 DEF Ledger, Unclaimed
<1>16. QED BY <1>11, <1>12, <1>13, <1>14, <1>15 DEF Ledger

\* The first failure starts the clock: of a row its handler owns, which is not paid.
LEMMA LedgerWindow ==
  ASSUME IInv, Ledger, AnswersLost = FALSE, NEW w \in Workers, UNCHANGED cancelling,
         StartWindow(w) \/ SaveNewCard(w)
  PROVE  Ledger'
<1>1. work[w] \in Handlings /\ work[w].i \in Installments /\ Mine(w) = work[w].i /\ Knows(work[w])
  BY AtWork DEF StartWindow, SaveNewCard, Ledger
<1>2. /\ \A n : ~ HasEvent(work[w], n)
      /\ Ended' <=> Ended
      /\ UNCHANGED <<inst, intent, cancelling>>
  BY DEF StartWindow, SaveNewCard, HasEvent, Ended, IInv, BookingRows
<1>3. PICK p \in {"missed", "reset"} : /\ Goto(w, p)
                                       /\ p = "missed" => work[w].at = "fail"
                                       /\ p = "reset" => work[w].at = "newCard"
  BY DEF StartWindow, SaveNewCard
<1>4. PICK m : m = [work[w] EXCEPT !.at = p]
  OBVIOUS
<1>5. work' = [work EXCEPT ![w] = m]
  BY <1>3, <1>4 DEF Goto, IInv
<1>6. m.at = p /\ m.event = work[w].event /\ m.from = work[w].from /\ m.i = work[w].i
  BY <1>1, <1>4 DEF Handlings
<1>7. Knows(m)
  BY <1>1, <1>3, <1>6 DEF Knows, ChargePlaces, UndoPlaces, OwnerPlaces
<1>8. Waits'
  <2>1. CASE StartWindow(w)
    <3>1. work[w].at = "fail" /\ DueKind[work[w].i] # "none"
      BY <1>1, <2>1 DEF StartWindow, MissedDeposit
    <3>2. ~ Ended => inst[work[w].i].status # "PAID"
      BY <1>1, <3>1 DEF Knows, OwnerPlaces
    <3>3. CASE UNCHANGED booking
      BY <1>2, <3>3 DEF Ledger, Waits
    <3>4. CASE booking' = [booking EXCEPT !.window = "open", !.kind = DueKind[work[w].i]]
      <4>1. booking'.kind = DueKind[work[w].i]
        BY <3>4 DEF IInv, BookingRows
      <4>2. QED BY <1>1, <1>2, <3>1, <3>2, <4>1 DEF Waits
    <3>5. QED BY <1>1, <2>1, <3>3, <3>4 DEF StartWindow
  <2>2. CASE SaveNewCard(w)
    <3>1. booking'.window = booking.window /\ booking'.kind = booking.kind
      BY <2>2 DEF SaveNewCard, IInv, BookingRows
    <3>2. QED BY <1>2, <3>1 DEF Ledger, Waits
  <2>3. QED BY <2>1, <2>2
<1>9. QED BY <1>2, <1>5, <1>7, <1>8, LedgerGoesOn

\* A payment on a booking that goes on is not undone.
LEMMA LedgerLooks ==
  ASSUME PlainBooking, IInv, Ledger, NEW w \in Workers, UNCHANGED cancelling,
         LookForUndo(w) \/ LookForHold(w)
  PROVE  Ledger'
<1>1. work[w] \in Handlings /\ work[w].at \in {"undo", "capture"} /\ Knows(work[w])
  BY AtWork DEF LookForUndo, LookForHold, Ledger
<1>2. \A n : ~ HasEvent(work[w], n)
  BY <1>1 DEF HasEvent
<1>3. UNCHANGED <<inst, booking, intent, cancelling>>
  BY DEF LookForUndo, LookForHold
<1>4. CASE Done(w)
  BY <1>2, <1>3, <1>4, LedgerDone
<1>5. CASE ~ Done(w)
  <2>1. LookForUndo(w) /\ ~ NothingToUndo(w)
    BY <1>1, <1>5, AfterUndoIsDone DEF LookForUndo, LookForHold, HoldToCapture, PlainBooking
  <2>2. PICK p \in {"handBack", "dropHold"} :
          p = IF Row(w).status = "PAID" THEN "handBack" ELSE "dropHold"
    OBVIOUS
  <2>3. PICK q, a : q = Row(w).pi /\ a = Left(Mine(w))
    OBVIOUS
  <2>4. /\ p \in {"handBack", "dropHold"}
        /\ work' = [work EXCEPT ![w] = [work[w] EXCEPT !.at = p, !.n = q, !.amount = a]]
    BY <2>1, <2>2, <2>3 DEF LookForUndo, IInv
  <2>5. PICK m : m = [work[w] EXCEPT !.at = p, !.n = q, !.amount = a]
    OBVIOUS
  <2>6. m.at = p /\ m.event = work[w].event /\ m.from = work[w].from
    BY <1>1, <2>5 DEF Handlings
  <2>7. Knows(m)
    <3>1. Ended
      BY <2>1 DEF NothingToUndo
    <3>2. /\ m.at \notin ChargePlaces /\ m.at # "hook" /\ m.at # "paid" /\ m.at # "call"
          /\ m.event # "none" => m.from \in Intents /\ Charged(m.from)
      BY <1>1, <2>4, <2>6 DEF Knows, ChargePlaces
    <3>3. QED BY <3>1, <3>2 DEF Knows
  <2>8. QED BY <1>2, <1>3, <2>4, <2>5, <2>7, LedgerThinks
<1>6. QED BY <1>4, <1>5

\* Calling off and handing back: the booking has ended.
LEMMA LedgerUndoes ==
  ASSUME PlainBooking, IInv, Ledger, NEW w \in Workers, UNCHANGED cancelling,
         CallOff(w) \/ HandBack(w) \/ RecordHandedBack(w) \/ DropHold(w) \/ RecordDropped(w)
  PROVE  Ledger'
<1>1. /\ work[w] \in Handlings /\ work[w].at \in UndoPlaces /\ Knows(work[w])
      /\ work[w].i \in Installments /\ Mine(w) = work[w].i
  BY AtWork DEF CallOff, HandBack, RecordHandedBack, DropHold, RecordDropped, UndoPlaces, Ledger
<1>2. Ended
  BY <1>1 DEF Knows
<1>3. UNCHANGED booking
  BY DEF CallOff, HandBack, RecordHandedBack, DropHold, RecordDropped
<1>4. ASSUME NEW n \in Intents
      PROVE  /\ intent'[n].of = intent[n].of /\ intent'[n].state = intent[n].state
             /\ intent'[n].told = intent[n].told /\ intent'[n].news = intent[n].news
  <2>1. CASE UNCHANGED intent
    BY <2>1
  <2>2. CASE ~ UNCHANGED intent
    <3>1. HandBack(w)
      BY <2>2, CancelDoesNothing DEF CallOff, RecordHandedBack, DropHold, RecordDropped
    <3>2. PICK a, b : intent' = [intent EXCEPT ![work[w].n] =
                                   [intent[work[w].n] EXCEPT !.back = a, !.undone = b]]
      BY <2>2, <3>1 DEF HandBack, IInv, IntentsSound
    <3>3. intent \in [Intents -> Succeeded]
      BY DEF IInv, IntentsSound
    <3>4. QED BY <3>2, <3>3 DEF Succeeded
  <2>3. QED BY <2>1, <2>2
<1>5. \A j \in Installments : inst'[j].amount = inst[j].amount
  <2>1. CASE UNCHANGED inst
    BY <2>1
  <2>2. CASE ~ UNCHANGED inst
    <3>1. PICK s, a : inst' = [inst EXCEPT ![work[w].i] =
                                 [inst[work[w].i] EXCEPT !.status = s, !.refunded = a]]
      <4>1. inst[work[w].i] \in Rows
        BY <1>1 DEF IInv
      <4>2. CASE RecordHandedBack(w)
        <5>1. inst' = [inst EXCEPT ![work[w].i] =
                         [inst[work[w].i] EXCEPT !.status = "REFUNDED",
                            !.refunded = inst[work[w].i].refunded + work[w].amount]]
          BY <1>1, <2>2, <4>2 DEF RecordHandedBack, IInv
        <5>2. QED BY <5>1
      <4>3. CASE ~ RecordHandedBack(w)
        <5>1. inst' = [inst EXCEPT ![work[w].i] = [inst[work[w].i] EXCEPT !.status = "CANCELLED"]]
          BY <1>1, <2>2, <4>3 DEF CallOff, HandBack, DropHold, RecordDropped, IInv
        <5>2. [inst[work[w].i] EXCEPT !.status = "CANCELLED"]
                = [inst[work[w].i] EXCEPT !.status = "CANCELLED",
                                          !.refunded = inst[work[w].i].refunded]
          BY <4>1 DEF Rows
        <5>3. QED BY <5>1, <5>2
      <4>4. QED BY <4>2, <4>3
    <3>2. inst \in [Installments -> Rows]
      BY DEF IInv
    <3>3. QED BY <3>1, <3>2 DEF Rows
  <2>3. QED BY <2>1, <2>2
<1>6. EndedKeeps
  <2>1. \A n \in Intents : Recorded(n)
    BY DEF Ledger
  <2>2. QED BY <1>2, <1>3, <1>4, <1>5, <2>1 DEF EndedKeeps, Ended, Recorded, Charged
<1>7. CASE Done(w)
  <2>1. PICK m : m = Idle
    OBVIOUS
  <2>2. Knows(m)'
    BY <2>1 DEF Knows, Idle, ChargePlaces, UndoPlaces, OwnerPlaces
  <2>3. QED BY <1>6, <1>7, <2>1, <2>2, LedgerEnded DEF Done
<1>8. CASE ~ Done(w)
  <2>1. PICK p \in {"recordBack", "recordDrop"} : Goto(w, p)
    <3>1. work[w].at # "idle"
      BY <1>1 DEF UndoPlaces
    <3>2. QED BY <1>8, <3>1, AfterUndoIsDone
              DEF CallOff, HandBack, RecordHandedBack, DropHold, RecordDropped
  <2>2. PICK m : m = [work[w] EXCEPT !.at = p]
    OBVIOUS
  <2>3. work' = [work EXCEPT ![w] = m]
    BY <2>1, <2>2 DEF Goto, IInv
  <2>4. m.at = p /\ m.event = work[w].event /\ m.from = work[w].from
    BY <1>1, <2>2 DEF Handlings
  <2>5. Knows(m)'
    BY <1>1, <1>6, <2>4 DEF Knows, EndedKeeps, ChargePlaces, OwnerPlaces
  <2>6. QED BY <1>6, <2>3, <2>5, LedgerEnded
<1>9. QED BY <1>7, <1>8

----------------------------------------------------------------------------
(* Events.                                                                 *)

\* An event passes between Stripe and a handler.
LEMMA LedgerEvents ==
  ASSUME IInv, Ledger, NEW w \in Workers, NEW m, work' = [work EXCEPT ![w] = m],
         UNCHANGED <<inst, booking, cancelling>>, Knows(m),
         NEW n \in Intents, NEW news, news # {} => Charged(n),
         intent' = [intent EXCEPT ![n] = [intent[n] EXCEPT !.news = news]],
         \A k \in Intents : HasEvent(work[w], k) => k = n /\ "succeeded" \in news,
         "succeeded" \in intent[n].news => "succeeded" \in news \/ HasEvent(m, n)
  PROVE  Ledger'
<1>1. \A v \in Workers : work'[v] = IF v = w THEN m ELSE work[v]
  BY DEF IInv
<1>2. /\ \A k \in Intents : /\ intent'[k].of = intent[k].of /\ intent'[k].state = intent[k].state
                            /\ intent'[k].told = intent[k].told /\ intent'[k].back = intent[k].back
                            /\ intent'[k].taken = intent[k].taken
                            /\ k # n => intent'[k].news = intent[k].news
      /\ intent'[n].news = news
  <2>1. intent \in [Intents -> Succeeded]
    BY DEF IInv, IntentsSound
  <2>2. QED BY <2>1 DEF Succeeded
<1>3. (Ended' <=> Ended) /\ \A k \in Intents : Charged(k)' <=> Charged(k)
  BY <1>2 DEF Ended, Charged
<1>4. ASSUME NEW v \in Workers PROVE Knows(work[v])'
  <2>1. Knows(work[v])
    BY DEF Ledger
  <2>2. CASE v = w
    <3>1. work'[v] = m
      BY <1>1, <2>2
    <3>2. QED BY <1>2, <1>3, <3>1 DEF Knows
  <2>3. CASE v # w
    <3>1. work'[v] = work[v]
      BY <1>1, <2>3
    <3>2. QED BY <1>2, <1>3, <2>1, <3>1 DEF Knows
  <2>4. QED BY <2>2, <2>3
<1>5. ASSUME NEW k \in Intents PROVE Recorded(k)'
  <2>1. Recorded(k)
    BY DEF Ledger
  <2>2. Told(k) => Told(k)'
    <3>1. CASE "succeeded" \in intent[k].news
      <4>1. "succeeded" \in intent'[k].news \/ HasEvent(work'[w], k)
        BY <1>1, <1>2, <3>1
      <4>2. QED BY <4>1 DEF Told, HasEvent
    <3>2. ASSUME NEW v \in Workers, HasEvent(work[v], k) PROVE Told(k)'
      <4>1. CASE v = w
        BY <1>2, <3>2, <4>1 DEF Told
      <4>2. CASE v # w
        <5>1. HasEvent(work'[v], k)
          BY <1>1, <3>2, <4>2
        <5>2. QED BY <5>1 DEF Told, HasEvent
      <4>3. QED BY <4>1, <4>2
    <3>3. QED BY <3>1, <3>2 DEF Told
  <2>3. QED BY <1>2, <1>3, <2>1, <2>2 DEF Recorded
<1>6. ASSUME NEW j \in Installments PROVE Covered(j)'
  <2>1. Covered(j)
    BY DEF Ledger
  <2>2. QED BY <1>2, <1>3, <2>1 DEF Covered
<1>7. Waits' /\ Unclaimed'
  BY <1>3 DEF Ledger, Waits, Unclaimed
<1>8. QED BY <1>4, <1>5, <1>6, <1>7 DEF Ledger

\* Events are delivered and answered, and handlers crash.
LEMMA LedgerHears ==
  ASSUME IInv, Ledger, NEW w \in Workers, UNCHANGED cancelling,
         (\E n \in Intents : Deliver(w, n)) \/ Reconcile(w) \/ Crash(w)
  PROVE  Ledger'
<1>1. Knows(work[w]) /\ work[w] \in Handlings
  BY DEF Ledger, IInv
<1>2. ASSUME NEW n \in Intents, Deliver(w, n) PROVE Ledger'
  <2>1. intent[n] \in Succeeded /\ Recorded(n)
    BY DEF IInv, IntentsSound, Ledger
  <2>2. PICK e \in intent[n].told \cup intent[n].news :
          /\ work' = [work EXCEPT ![w] =
               [Idle EXCEPT !.at = "hook", !.i = intent[n].of, !.n = n, !.event = e, !.from = n]]
          /\ intent' = [intent EXCEPT ![n] = [intent[n] EXCEPT !.news = intent[n].news \ {e}]]
    BY <1>2 DEF Deliver, IInv, IntentsSound
  <2>3. e = "succeeded" /\ Charged(n)
    BY <2>1, <2>2 DEF Succeeded, Recorded
  <2>4. PICK m : m = [Idle EXCEPT !.at = "hook", !.i = intent[n].of, !.n = n,
                                 !.event = e, !.from = n]
    OBVIOUS
  <2>5. m.at = "hook" /\ m.i = intent[n].of /\ m.n = n /\ m.event = "succeeded" /\ m.from = n
    BY <2>3, <2>4 DEF Idle
  <2>6. Knows(m) /\ HasEvent(m, n)
    BY <2>3, <2>5 DEF Knows, HasEvent, ChargePlaces, UndoPlaces, OwnerPlaces
  <2>7. \A k \in Intents : ~ HasEvent(work[w], k)
    BY <1>2 DEF Deliver, HasEvent
  <2>8. PICK news : news = intent[n].news \ {e}
    OBVIOUS
  <2>9. /\ work' = [work EXCEPT ![w] = m]
        /\ intent' = [intent EXCEPT ![n] = [intent[n] EXCEPT !.news = news]]
    BY <2>2, <2>4, <2>8
  <2>10. UNCHANGED <<inst, booking, cancelling>>
    BY <1>2 DEF Deliver
  <2>11. QED BY <2>3, <2>6, <2>7, <2>9, <2>10, LedgerEvents
<1>3. CASE Reconcile(w)
  <2>1. /\ work[w].at = "hook" /\ work[w].event = "succeeded" /\ work[w].n = work[w].from
        /\ work[w].from \in Intents /\ Charged(work[w].from)
        /\ work[w].i = intent[work[w].from].of /\ work[w].i \in Installments
    BY <1>1, <1>3, AtWork DEF Reconcile, Knows
  <2>2. UNCHANGED <<inst, booking, intent, cancelling>>
    BY <1>3 DEF Reconcile
  <2>3. CASE Row(w).status \in {"PAID", "REFUNDED"}
    <3>1. Done(w)
      BY <1>3, <2>3 DEF Reconcile, Reaction
    <3>2. Covered(work[w].i)
      BY <2>1 DEF Ledger
    <3>3. Ended \/ inst[work[w].i].status = "PAID"
      BY <2>3, <3>2 DEF Covered, Row
    <3>4. \A n \in Intents : HasEvent(work[w], n) => n = work[w].from
      BY <2>1 DEF HasEvent
    <3>5. QED BY <2>1, <2>2, <3>1, <3>3, <3>4, LedgerDone
  <2>4. CASE Row(w).status \notin {"PAID", "REFUNDED"}
    <3>1. Goto(w, "paid")
      BY <1>3, <2>1, <2>4 DEF Reconcile, Reaction
    <3>2. PICK m : m = [work[w] EXCEPT !.at = "paid"]
      OBVIOUS
    <3>3. work' = [work EXCEPT ![w] = m]
      BY <3>1, <3>2 DEF Goto, IInv
    <3>4. m.at = "paid" /\ m.event = work[w].event /\ m.from = work[w].from /\ m.i = work[w].i
            /\ m.n = work[w].n
      BY <1>1, <3>2 DEF Handlings
    <3>5. Knows(m)
      BY <1>1, <2>1, <3>4 DEF Knows, ChargePlaces, UndoPlaces, OwnerPlaces
    <3>6. \A n \in Intents : HasEvent(work[w], n) => HasEvent(m, n)
      BY <2>1, <3>4 DEF HasEvent
    <3>7. QED BY <2>2, <3>3, <3>5, <3>6, LedgerThinks
  <2>5. QED BY <2>3, <2>4
<1>4. CASE Crash(w)
  <2>1. Done(w) /\ UNCHANGED <<inst, booking, cancelling>>
    BY <1>4 DEF Crash
  <2>2. CASE work[w].event = "none"
    <3>1. UNCHANGED intent /\ \A n : ~ HasEvent(work[w], n)
      BY <1>4, <2>2 DEF Crash, HasEvent
    <3>2. QED BY <2>1, <3>1, LedgerDone
  <2>3. CASE work[w].event # "none"
    <3>1. work[w].from \in Intents /\ Charged(work[w].from) /\ work[w].event = "succeeded"
      BY <1>1, <2>3 DEF Knows, Handlings
    <3>2. PICK n \in Intents : n = work[w].from
      BY <3>1
    <3>3. PICK news : news = intent[n].news \cup {work[w].event}
      OBVIOUS
    <3>4. intent' = [intent EXCEPT ![n] = [intent[n] EXCEPT !.news = news]]
      BY <1>4, <2>3, <3>2, <3>3 DEF Crash, IInv, IntentsSound
    <3>5. \A k \in Intents : HasEvent(work[w], k) => k = n
      BY <1>1, <2>3, <3>2 DEF HasEvent, Knows
    <3>6. PICK m : m = Idle
      OBVIOUS
    <3>7. "succeeded" \in news
      BY <3>1, <3>3
    <3>8. work' = [work EXCEPT ![w] = m] /\ Knows(m)
      BY <2>1, <3>6, IdleKnows DEF Done
    <3>9. Charged(n)
      BY <3>1, <3>2
    <3>10. QED BY <2>1, <3>4, <3>5, <3>7, <3>8, <3>9, LedgerEvents
  <2>4. QED BY <2>2, <2>3
<1>5. QED BY <1>2, <1>3, <1>4

----------------------------------------------------------------------------
(* Everyone else.                                                          *)

\* A step of no handler that touches no intent, and of the rows no status but of an
\* uncharged one that nobody owns.
LEMMA LedgerAround ==
  ASSUME IInv, Ledger, AnswersLost = FALSE, UNCHANGED <<work, intent>>,
         Ended' <=> Ended, Waits', Unclaimed',
         \A j \in Installments :
           \/ /\ inst'[j].status = inst[j].status /\ inst'[j].amount = inst[j].amount
              /\ inst'[j].refunded = inst[j].refunded
           \/ /\ Open(j) /\ inst'[j].status \notin {"PAID", "REFUNDED"}
              /\ inst'[j].refunded = inst[j].refunded
  PROVE  Ledger'
<1>1. ASSUME NEW v \in Workers PROVE Knows(work[v])'
  <2>1. Knows(work[v])
    BY DEF Ledger
  <2>2. work[v].at \in OwnerPlaces =>
          /\ inst'[work[v].i].status = inst[work[v].i].status
          /\ inst'[work[v].i].amount = inst[work[v].i].amount
    <3>1. work[v].at \in OwnerPlaces => work[v].i \in Installments /\ ~ Open(work[v].i)
      BY DEF IInv, Sound, Owns, OwnerPlaces
    <3>2. QED BY <3>1
  <2>3. QED BY <2>1, <2>2 DEF Knows, Charged, OwnerPlaces
<1>2. ASSUME NEW n \in Intents PROVE Recorded(n)'
  <2>1. Recorded(n)
    BY DEF Ledger
  <2>2. Charged(n) => /\ inst'[intent[n].of].status = inst[intent[n].of].status
                      /\ inst'[intent[n].of].amount = inst[intent[n].of].amount
    <3>1. Charged(n) => intent[n].of \in Installments /\ ~ Open(intent[n].of)
      BY DEF IInv, ChargedOnce
    <3>2. QED BY <3>1
  <2>3. Told(n) => Told(n)'
    BY DEF Told, HasEvent
  <2>4. QED BY <2>1, <2>2, <2>3 DEF Recorded, Charged
<1>3. ASSUME NEW j \in Installments PROVE Covered(j)'
  <2>1. Covered(j)
    BY DEF Ledger
  <2>2. QED BY <2>1 DEF Covered, Charged
<1>4. QED BY <1>1, <1>2, <1>3 DEF Ledger

\* Dates pass, the job is completed, and the vendor lowers a charge.
LEMMA LedgerSurroundings ==
  ASSUME PlainBooking, IInv, Ledger, AnswersLost = FALSE, UNCHANGED cancelling,
         \/ Surroundings
         \/ \E w \in Workers : Complete(w)
         \/ \E w \in Workers, i \in Installments : GiveBack(w, i)
  PROVE  Ledger'
<1>1. Waits /\ Unclaimed
  BY DEF Ledger
<1>2. ASSUME UNCHANGED <<work, intent, booking>>, NEW i \in Installments, NEW r,
             inst' = [inst EXCEPT ![i] = r], r.refunded = inst[i].refunded,
             \/ r.status = inst[i].status /\ r.amount = inst[i].amount
             \/ Open(i) /\ r.status \notin {"PAID", "REFUNDED"}
      PROVE  Ledger'
  <2>1. \A j \in Installments : inst'[j] = IF j = i THEN r ELSE inst[j]
    BY <1>2 DEF IInv
  <2>2. Open(i) => inst[i].status # "PAID"
    BY DEF Open, OpenStatus
  <2>3. (Ended' <=> Ended) /\ Waits' /\ Unclaimed'
    BY <1>1, <1>2, <2>1, <2>2 DEF Ended, Waits, Unclaimed
  <2>4. QED BY <1>2, <2>1, <2>3, LedgerAround
<1>3. ASSUME NEW i \in Installments, DueDatePasses(i) \/ RetryDatePasses(i) PROVE Ledger'
  <2>1. inst[i] \in Rows
    BY DEF IInv
  <2>2. PICK r : /\ r \in {[inst[i] EXCEPT !.due = TRUE], [inst[i] EXCEPT !.again = TRUE]}
                 /\ inst' = [inst EXCEPT ![i] = r]
    <3>1. CASE DueDatePasses(i)
      <4>1. inst' = [inst EXCEPT ![i] = [inst[i] EXCEPT !.due = TRUE]]
        BY <3>1 DEF DueDatePasses, IInv
      <4>2. QED BY <4>1
    <3>2. CASE RetryDatePasses(i)
      <4>1. inst' = [inst EXCEPT ![i] = [inst[i] EXCEPT !.again = TRUE]]
        BY <3>2 DEF RetryDatePasses, IInv
      <4>2. QED BY <4>1
    <3>3. QED BY <1>3, <3>1, <3>2
  <2>3. r.refunded = inst[i].refunded /\ r.status = inst[i].status /\ r.amount = inst[i].amount
    BY <2>1, <2>2 DEF Rows
  <2>4. UNCHANGED <<work, intent, booking>>
    BY <1>3 DEF DueDatePasses, RetryDatePasses
  <2>5. QED BY <1>2, <2>2, <2>3, <2>4
<1>4. ASSUME NEW n \in Intents, HoldExpires(n) PROVE Ledger'
  BY <1>4 DEF HoldExpires, IInv, IntentsSound, Succeeded
<1>5. CASE DeadlinePasses \/ \E w \in Workers : Complete(w)
  <2>1. UNCHANGED <<inst, work, intent>>
    BY <1>5 DEF DeadlinePasses, Complete, PlainBooking
  <2>2. (Ended' <=> Ended) /\ booking'.kind = booking.kind
          /\ (booking'.window # "none" => booking.window # "none")
    BY <1>5 DEF DeadlinePasses, Complete, Ended, IInv, BookingRows
  <2>3. Waits' /\ Unclaimed'
    BY <1>1, <2>1, <2>2 DEF Waits, Unclaimed
  <2>4. QED BY <2>1, <2>2, <2>3, LedgerAround
<1>6. ASSUME NEW w \in Workers, NEW i \in Installments, GiveBack(w, i) PROVE Ledger'
  <2>1. inst[i] \in Rows
    BY DEF IInv
  <2>2. Open(i)
    BY <1>6 DEF GiveBack, Lowerable, PlainBooking, Open, OpenStatus
  <2>3. PICK s : s = IF inst[i].amount = 1 THEN "CANCELLED" ELSE inst[i].status
    OBVIOUS
  <2>4. PICK r : r = [inst[i] EXCEPT !.amount = inst[i].amount - 1, !.status = s]
    OBVIOUS
  <2>5. inst' = [inst EXCEPT ![i] = r]
    BY <1>6, <2>3, <2>4 DEF GiveBack, IInv
  <2>6. r.refunded = inst[i].refunded /\ r.status = s
    BY <2>1, <2>4 DEF Rows
  <2>7. s \notin {"PAID", "REFUNDED"}
    BY <2>2, <2>3 DEF Open, OpenStatus
  <2>8. UNCHANGED <<work, booking, intent>>
    BY <1>6, <2>2 DEF GiveBack, Open, OpenStatus
  <2>9. QED BY <1>2, <2>2, <2>5, <2>6, <2>7, <2>8
<1>7. QED BY <1>3, <1>4, <1>5, <1>6 DEF Surroundings

\* A cancellation until its claim, which ends the booking.
LEMMA LedgerBegins ==
  ASSUME IInv, Ledger, AnswersLost = FALSE,
         LoadToCancel \/ SelectOverdue \/ ClearWindow \/ LoadForNonPayment \/ ClaimCancellation
  PROVE  Ledger'
<1>1. UNCHANGED <<inst, work, intent>> /\ Waits /\ Unclaimed
  BY DEF LoadToCancel, SelectOverdue, ClearWindow, LoadForNonPayment, ClaimCancellation,
         chargingVars, Ledger
<1>2. CASE Ended' /\ ~ Ended
  <2>1. ASSUME NEW v \in Workers PROVE Knows(work[v])'
    <3>1. Knows(work[v])
      BY DEF Ledger
    <3>2. QED BY <1>1, <1>2, <3>1 DEF Knows, Charged
  <2>2. ASSUME NEW n \in Intents PROVE Recorded(n)'
    <3>1. Recorded(n)
      BY DEF Ledger
    <3>2. QED BY <1>1, <1>2, <3>1 DEF Recorded, Charged
  <2>3. QED BY <1>2, <2>1, <2>2 DEF Ledger, Covered, Waits, Unclaimed
<1>3. CASE ~ (Ended' /\ ~ Ended)
  <2>1. /\ \/ booking' = booking
           \/ booking' = [booking EXCEPT !.window = "none", !.kind = "none"]
           \/ Ended /\ Ended'
        /\ Ended' \/ cancelling'.at \in {"idle", "overdue", "load", "claim"}
    <3>1. CASE LoadToCancel
      BY <3>1 DEF LoadToCancel, NoCancellation, chargingVars
    <3>2. CASE SelectOverdue
      BY <3>2 DEF SelectOverdue, NoCancellation, chargingVars
    <3>3. CASE ClearWindow
      BY <3>3 DEF ClearWindow, CancelDone, NoCancellation
    <3>4. CASE LoadForNonPayment
      <4>1. cancelling.at = "load" /\ UNCHANGED booking
        BY <3>4 DEF LoadForNonPayment, At, chargingVars
      <4>2. PICK p : \/ cancelling' = [cancelling EXCEPT !.at = "claim", !.paid = p]
                     \/ cancelling' = NoCancellation
        BY <3>4 DEF LoadForNonPayment, CancelDone
      <4>3. [cancelling EXCEPT !.at = "claim", !.paid = p].at = "claim"
        BY DEF IInv, CancellingSound
      <4>4. NoCancellation.at = "idle"
        BY DEF NoCancellation
      <4>5. cancelling'.at \in {"claim", "idle"}
        BY <4>2, <4>3, <4>4
      <4>6. QED BY <4>1, <4>5
    <3>5. CASE ClaimCancellation
      <4>1. CASE Cancellable
        <5>1. Ended' /\ ~ Ended
          BY <3>5, <4>1 DEF ClaimCancellation, Cancellable, Ended, IInv, BookingRows
        <5>2. QED BY <1>3, <5>1
      <4>2. CASE ~ Cancellable
        BY <3>5, <4>2 DEF ClaimCancellation, CancelDone, NoCancellation
      <4>3. QED BY <4>1, <4>2
    <3>6. QED BY <3>1, <3>2, <3>3, <3>4, <3>5
  <2>2. (Ended' <=> Ended) /\ Waits'
    BY <1>1, <2>1 DEF Ended, Waits, IInv, BookingRows
  <2>3. Unclaimed'
    BY <2>1 DEF Unclaimed
  <2>4. QED BY <1>1, <2>2, <2>3, LedgerAround
<1>4. QED BY <1>2, <1>3

\* A cancellation after its claim: the booking has ended.
LEMMA LedgerSettles ==
  ASSUME IInv, Ledger,
         \/ SetTerms \/ LookForOpen \/ VoidUnpaid \/ VoidNothing \/ VoidHold
         \/ RecordVoidedHold \/ VoidDone \/ ReadForRefund \/ RefundCallsOff
         \/ RefundDropsHold \/ RecordDroppedHold \/ RefundNothing \/ RefundAtStripe
         \/ RecordRefund \/ RefundDone
  PROVE  Ledger'
<1>1. Ended
  BY DEF SetTerms, LookForOpen, VoidUnpaid, VoidNothing, VoidHold, RecordVoidedHold, VoidDone,
         ReadForRefund, RefundCallsOff, RefundDropsHold, RecordDroppedHold, RefundNothing,
         RefundAtStripe, RecordRefund, RefundDone, At, Ledger, Unclaimed
<1>2. UNCHANGED <<booking, work>>
  BY DEF SetTerms, LookForOpen, VoidUnpaid, VoidNothing, VoidHold, RecordVoidedHold, VoidDone,
         ReadForRefund, RefundCallsOff, RefundDropsHold, RecordDroppedHold, RefundNothing,
         RefundAtStripe, RecordRefund, RefundDone, chargingVars
<1>3. ASSUME NEW n \in Intents
      PROVE  /\ intent'[n].of = intent[n].of /\ intent'[n].state = intent[n].state
             /\ intent'[n].told = intent[n].told /\ intent'[n].news = intent[n].news
  <2>1. CASE UNCHANGED intent
    BY <2>1
  <2>2. CASE ~ UNCHANGED intent
    <3>1. RefundAtStripe
      BY <2>2, CancelDoesNothing
         DEF SetTerms, LookForOpen, VoidUnpaid, VoidNothing, VoidHold, RecordVoidedHold, VoidDone,
             ReadForRefund, RefundCallsOff, RefundDropsHold, RecordDroppedHold, RefundNothing,
             RecordRefund, RefundDone, chargingVars
    <3>2. PICK a : intent' = [intent EXCEPT ![SeenRow.pi] = [intent[SeenRow.pi] EXCEPT !.back = a]]
      BY <2>2, <3>1 DEF RefundAtStripe, IInv, IntentsSound
    <3>3. intent \in [Intents -> Succeeded]
      BY DEF IInv, IntentsSound
    <3>4. QED BY <3>2, <3>3 DEF Succeeded
  <2>3. QED BY <2>1, <2>2
<1>4. \A j \in Installments : inst'[j].amount = inst[j].amount
  <2>1. CASE UNCHANGED inst
    BY <2>1
  <2>2. CASE ~ UNCHANGED inst
    <3>1. PICK i, r : /\ inst' = [inst EXCEPT ![i] = r]
                      /\ i \in Installments => r.amount = inst[i].amount
      <4>1. inst \in [Installments -> Rows]
        BY DEF IInv
      <4>2. CASE RecordRefund
        <5>1. PICK s, a : inst' = [inst EXCEPT ![Visited] =
                                     [inst[Visited] EXCEPT !.refunded = a, !.status = s]]
          <6>1. inst' = [inst EXCEPT ![Visited] =
                   [inst[Visited] EXCEPT !.refunded = inst[Visited].refunded + Take,
                      !.status = IF Take >= SeenLeft THEN "REFUNDED" ELSE "PAID"]]
            BY <4>1, <4>2 DEF RecordRefund
          <6>2. QED BY <6>1
        <5>2. Visited \in Installments =>
                [inst[Visited] EXCEPT !.refunded = a, !.status = s].amount = inst[Visited].amount
          BY <4>1 DEF Rows
        <5>3. QED BY <5>1, <5>2
      <4>3. CASE ~ RecordRefund
        <5>1. inst' = [inst EXCEPT ![Visited] = [inst[Visited] EXCEPT !.status = "CANCELLED"]]
          BY <2>2, <4>1, <4>3
             DEF SetTerms, LookForOpen, VoidUnpaid, VoidNothing, VoidHold, RecordVoidedHold,
                 VoidDone, ReadForRefund, RefundCallsOff, RefundDropsHold, RecordDroppedHold,
                 RefundNothing, RefundAtStripe, RefundDone, chargingVars, CallOffAsSeen
        <5>2. Visited \in Installments =>
                [inst[Visited] EXCEPT !.status = "CANCELLED"].amount = inst[Visited].amount
          BY <4>1 DEF Rows
        <5>3. QED BY <5>1, <5>2
      <4>4. QED BY <4>2, <4>3
    <3>2. inst \in [Installments -> Rows]
      BY DEF IInv
    <3>3. QED BY <3>1, <3>2
  <2>3. QED BY <2>1, <2>2
<1>5. EndedKeeps
  <2>1. \A n \in Intents : Recorded(n)
    BY DEF Ledger
  <2>2. QED BY <1>1, <1>2, <1>3, <1>4, <2>1 DEF EndedKeeps, Ended, Recorded, Charged
<1>6. QED BY <1>2, <1>5, LedgerCancels

\* A server that stops, and a step of no one.
LEMMA LedgerStays ==
  ASSUME IInv, Ledger, AnswersLost = FALSE, CrashCancelling \/ UNCHANGED vars
  PROVE  Ledger'
<1>1. UNCHANGED <<inst, booking, work, intent>>
  BY DEF CrashCancelling, chargingVars, vars
<1>2. (Ended' <=> Ended) /\ Waits' /\ Unclaimed'
  BY <1>1 DEF Ledger, Ended, Waits, Unclaimed, CrashCancelling, CancelDone, NoCancellation, vars
<1>3. QED BY <1>1, <1>2, LedgerAround

\* Every step keeps the ledger.
LEMMA StepLedger ==
  ASSUME PlainBooking, AnswersLost = FALSE, IInv, Ledger, [Next]_vars
  PROVE  Ledger'
<1>1. ASSUME NEW w \in Workers, Begin(w), UNCHANGED cancelling PROVE Ledger'
  <2>1. ASSUME NEW i \in Installments, SelectDue(w, i) \/ RetryInstallment(w, i) PROVE Ledger'
    BY <1>1, <2>1, LedgerReads
  <2>2. ASSUME NEW i \in Installments, GiveBack(w, i) PROVE Ledger'
    BY <1>1, <2>2, LedgerSurroundings
  <2>3. ASSUME NEW n \in Intents, Deliver(w, n) PROVE Ledger'
    BY <1>1, <2>3, LedgerHears
  <2>4. CASE Complete(w)
    BY <1>1, <2>4, LedgerSurroundings
  <2>5. QED BY <1>1, <2>1, <2>2, <2>3, <2>4 DEF Begin
<1>2. ASSUME NEW w \in Workers, Step(w), UNCHANGED cancelling PROVE Ledger'
  <2>1. CASE FindNothingToCharge(w) \/ FindBookingEnded(w) \/ ReadForCharge(w) \/ ChargeFails(w)
    BY <1>2, <2>1, LedgerReads
  <2>2. CASE ClaimAttempt(w) \/ ChargeSavedCard(w) \/ MarkPaid(w)
    BY <1>2, <2>2, LedgerClaims, LedgerCharges, LedgerPays
  <2>3. CASE LookForUndo(w) \/ LookForHold(w)
    BY <1>2, <2>3, LedgerLooks
  <2>4. CASE CallOff(w) \/ HandBack(w) \/ RecordHandedBack(w) \/ DropHold(w) \/ RecordDropped(w)
    BY <1>2, <2>4, LedgerUndoes
  <2>5. CASE RecordFailure(w) \/ RecordMissedDeposit(w)
    BY <1>2, <2>5, LedgerFails
  <2>6. CASE StartWindow(w) \/ SaveNewCard(w)
    BY <1>2, <2>6, LedgerWindow
  <2>7. CASE ResetAttempts(w)
    BY <1>2, <2>7, LedgerResets
  <2>8. CASE Reconcile(w)
    BY <1>2, <2>8, LedgerHears
  <2>9. QED BY <1>2, <2>1, <2>2, <2>3, <2>4, <2>5, <2>6, <2>7, <2>8, NoHoldSteps DEF Step
<1>3. ASSUME NEW w \in Workers, Crash(w), UNCHANGED cancelling PROVE Ledger'
  BY <1>3, LedgerHears
<1>4. CASE Surroundings /\ UNCHANGED cancelling
  BY <1>4, LedgerSurroundings
<1>5. CASE LoadToCancel \/ SelectOverdue \/ CancelStep
  BY <1>5, LedgerBegins, LedgerSettles DEF CancelStep
<1>6. CASE CrashCancelling \/ UNCHANGED vars
  BY <1>6, LedgerStays
<1>7. QED BY <1>1, <1>2, <1>3, <1>4, <1>5, <1>6 DEF Next

----------------------------------------------------------------------------
(* The theorems.                                                           *)

\* As long as every charge's answer reaches its handler, rows, handlers, events and
\* Stripe agree at every moment until the booking is cancelled (chargeInstallment,
\* markPaid, recordFailure, reconcilePaymentIntent).
THEOREM LedgerHolds ==
  ASSUME PlainBooking, AnswersLost = FALSE PROVE Spec => [](IInv /\ Ledger)
<1>1. Init => IInv /\ Ledger
  BY InitIInv, InitLedger
<1>2. IInv /\ Ledger /\ [Next]_vars => IInv' /\ Ledger'
  BY StepIInv, StepLedger
<1>3. QED BY <1>1, <1>2, PTL DEF Spec

\* When all is quiet and the booking not cancelled, the row of an installment shows as
\* paid exactly the money Stripe has taken for it.
LEMMA BooksMatch ==
  ASSUME IInv, Ledger, AnswersLost = FALSE PROVE BooksMatchWhileOn
<1> SUFFICES ASSUME ~ Ended, Quiet, NEW i \in Installments PROVE KeptFor(i) = Paid(i)
  BY DEF BooksMatchWhileOn, BooksMatchStripe
<1>1. i # None
  BY NoneAssumption
<1>2. ASSUME NEW n \in Intents, intent[n].of = i
      PROVE  Charged(n) /\ inst[i].status = "PAID" /\ Kept(n) = Paid(i) /\ Kept(n) \in Int
  <2>1. Recorded(n) /\ Covered(i)
    BY DEF Ledger
  <2>2. ~ Told(n)
    BY DEF Quiet, Resting, Told, HasEvent
  <2>3. /\ Charged(n) /\ inst[i].status = "PAID"
        /\ inst[i].amount = intent[n].taken /\ intent[n].back = 0 /\ inst[i].refunded = 0
    BY <1>1, <1>2, <2>1, <2>2 DEF Recorded, Covered
  <2>4. intent[n].taken \in Int
    BY DEF IInv, IntentsSound, Succeeded
  <2>5. QED BY <2>3, <2>4 DEF Kept, Paid, Left, Charged
<1>3. CASE \E n \in Intents : intent[n].of = i
  <2>1. PICK n \in Intents : intent[n].of = i
    BY <1>3
  <2>2. \A m \in Intents : intent[m].of = i => m = n
    BY <1>2, <2>1 DEF IInv, ChargedOnce
  <2>3. {m \in Intents : intent[m].of = i} = {n}
    BY <2>1, <2>2
  <2>4. Kept(n) = Paid(i) /\ Kept(n) \in Int
    BY <1>2, <2>1
  <2>5. SumFunctionOnSet([m \in Intents |-> Kept(m)], {n}) = Kept(n)
    <3> DEFINE f == [m \in Intents |-> Kept(m)]
    <3>1. f[n] = Kept(n) /\ IsFiniteSet({n}) /\ {n} \ {n} = {}
      BY <2>1, FS_Singleton
    <3>2. \A x \in {n} : f[x] \in Int
      BY <2>4, <3>1
    <3> HIDE DEF f
    <3>3. SumFunctionOnSet(f, {n}) = f[n] + SumFunctionOnSet(f, {})
      BY <3>1, <3>2, SumByAny
    <3>4. SumFunctionOnSet(f, {n}) = Kept(n)
      BY <2>4, <3>1, <3>3, SumOfNone
    <3>5. QED BY <3>4 DEF f
  <2>6. QED BY <2>3, <2>4, <2>5 DEF KeptFor
<1>4. CASE ~ \E n \in Intents : intent[n].of = i
  <2>1. {m \in Intents : intent[m].of = i} = {}
    BY <1>4
  <2>2. inst[i].status # "PAID"
    BY <1>4 DEF Ledger, Covered
  <2>3. QED BY <2>1, <2>2, SumOfNone DEF KeptFor, Paid
<1>5. QED BY <1>3, <1>4

\* The books match whenever all is quiet, until the booking is cancelled.
THEOREM BooksMatchHolds ==
  ASSUME PlainBooking, AnswersLost = FALSE PROVE Spec => []BooksMatchWhileOn
<1>1. IInv /\ Ledger => BooksMatchWhileOn
  BY BooksMatch
<1>2. QED BY <1>1, LedgerHolds, PTL

\* A booking whose payments of the awaited kind are all recorded waits no longer
\* (markPaid's clearPaymentWindow and recordFailure's window start).
THEOREM PaidEndsTheWaitHolds ==
  ASSUME PlainBooking, AnswersLost = FALSE PROVE Spec => []PaidEndsTheWait
<1>1. Ledger => PaidEndsTheWait
  BY DEF Ledger, Waits, PaidEndsTheWait, AllPaid, Ended
<1>2. QED BY <1>1, LedgerHolds, PTL

\* Nobody but the claim of a cancellation ends a booking, and the job's needs a
\* deadline that has passed.
LEMMA OnlyTheClaimEnds ==
  ASSUME PlainBooking, IInv, Next, ~ Ended, Ended'
  PROVE  ClaimCancellation /\ Cancellable
<1>1. ASSUME ~ ClaimCancellation
      PROVE  booking'.status = booking.status \/ booking'.status = "COMPLETED"
  <2>1. CASE UNCHANGED booking
    BY <2>1
  <2>2. CASE ClearWindow \/ DeadlinePasses \/ \E w \in Workers : Complete(w)
    BY <2>2 DEF ClearWindow, DeadlinePasses, Complete, IInv, BookingRows
  <2>3. CASE \E w \in Workers : MarkPaid(w) \/ StartWindow(w) \/ SaveNewCard(w)
    BY <2>3 DEF MarkPaid, RecordPayment, WindowAfterPaying, StartWindow, SaveNewCard, IInv,
                BookingRows
  <2>4. CASE UNCHANGED cancelling /\ \E w \in Workers : Begin(w) \/ Step(w) \/ Crash(w)
    <3>1. PICK w \in Workers : Begin(w) \/ Step(w) \/ Crash(w)
      BY <2>4
    <3>2. CASE Begin(w) \/ Crash(w)
      BY <2>1, <2>2, <3>2 DEF Begin, SelectDue, RetryInstallment, GiveBack, Deliver, Crash
    <3>3. CASE Step(w)
      BY <2>1, <2>3, <3>3, NoHoldSteps
         DEF Step, FindNothingToCharge, FindBookingEnded, ReadForCharge, CallOff, ClaimAttempt,
             ChargeSavedCard, ChargeFails, LookForUndo, HandBack, RecordHandedBack, DropHold,
             RecordDropped, LookForHold, RecordFailure, RecordMissedDeposit, ResetAttempts,
             Reconcile
    <3>4. QED BY <3>1, <3>2, <3>3
  <2>5. CASE Surroundings
    BY <2>1, <2>2, <2>5 DEF Surroundings, DueDatePasses, RetryDatePasses, HoldExpires
  <2>6. CASE LoadToCancel \/ SelectOverdue \/ CancelStep \/ CrashCancelling
    BY <1>1, <2>1, <2>2, <2>6
       DEF LoadToCancel, SelectOverdue, CancelStep, CrashCancelling, LoadForNonPayment,
           SetTerms, LookForOpen, VoidUnpaid, VoidNothing, VoidHold, RecordVoidedHold, VoidDone,
           ReadForRefund, RefundCallsOff, RefundDropsHold, RecordDroppedHold, RefundNothing,
           RefundAtStripe, RecordRefund, RefundDone, chargingVars
  <2>7. QED BY <2>4, <2>5, <2>6 DEF Next
<1>2. ClaimCancellation
  BY <1>1 DEF Ended
<1>3. Cancellable
  BY <1>2 DEF ClaimCancellation, Ended
<1>4. QED BY <1>2, <1>3

\* The job never cancels a booking whose missed payment was recorded before its claim
\* (cancelForNonPayment's WHERE on payment_due_by, which markPaid clears).
THEOREM PaidAreSpared ==
  ASSUME PlainBooking, AnswersLost = FALSE PROVE Spec => NonPaymentSparesThePaid
<1>1. ASSUME IInv, Ledger, [Next]_vars
      PROVE  [~ Ended /\ Ended' /\ booking'.by = "SYSTEM" => ~ AllPaid(booking.kind)]_vars
  <2> SUFFICES ASSUME Next, ~ Ended, Ended', booking'.by = "SYSTEM"
               PROVE  ~ AllPaid(booking.kind)
    BY <1>1
  <2>1. ClaimCancellation /\ Cancellable
    BY <1>1, OnlyTheClaimEnds
  <2>2. cancelling.by = "SYSTEM"
    BY <1>1, <2>1 DEF ClaimCancellation, IInv, BookingRows
  <2>3. booking.window = "over"
    BY <2>1, <2>2 DEF Cancellable
  <2>4. QED BY <1>1, <2>3 DEF Ledger, Waits, AllPaid
<1>2. QED BY <1>1, LedgerHolds, PTL DEF Spec, NonPaymentSparesThePaid

----------------------------------------------------------------------------
(* Refunds, before a cancellation and after it: what rows, Stripe and those *)
(* who refund say of each other.                                           *)

\* Every count is within its bound, and a scheduled row has a try left.
RowFits(row) ==
  /\ row.attempts \in 0..MaxAttempts
  /\ row.status = "SCHEDULED" => row.attempts < MaxAttempts
  /\ row.amount \in Amounts /\ row.refunded \in Amounts
  /\ row.rows \in 0..2

MemoryFits(memory) == memory.attempts \in 0..MaxAttempts /\ memory.amount \in Amounts

IntentFits(record) ==
  record.taken \in Amounts /\ record.back \in Amounts /\ record.undone \in Amounts

Fits ==
  /\ \A i \in Installments : RowFits(inst[i]) /\ RowFits(cancelling.seen[i])
  /\ \A w \in Workers : MemoryFits(work[w])
  /\ \A n \in Intents : IntentFits(intent[n])
  /\ cancelling.left >= 0

\* The cancellation has refunded at Stripe what it has yet to record of an installment.
Refunding(i) == At("refunded") /\ Visited = i

\* A row's intent is the one that was charged for it, and stays it; a row without one was
\* neither paid nor refunded.
RowBacked(i) ==
  /\ inst[i].pi \in Intents => Charged(inst[i].pi) /\ intent[inst[i].pi].of = i
  /\ inst[i].status = "PAID" \/ inst[i].refunded > 0 \/ Refunding(i) => inst[i].pi \in Intents
  /\ cancelling.seen[i].pi \in Intents => inst[i].pi = cancelling.seen[i].pi

\* Of the money a charge took, Stripe has given back what the row and the cancellation say,
\* or more; all of it once a handler handed it back.
ChargeBacked(n) ==
  Charged(n) =>
    LET row == inst[intent[n].of]
    IN /\ row.amount = intent[n].taken
       /\ row.refunded <= intent[n].back /\ intent[n].back <= intent[n].taken
       /\ Refunding(intent[n].of) => /\ row.refunded + Take <= intent[n].back
                                     /\ intent[n].undone = 0
       /\ intent[n].undone > 0 => intent[n].back = intent[n].taken

\* Who hands an installment's money back means all that is left, under its charge.
HandsBack(memory) ==
  memory.at \in {"handBack", "recordBack"} =>
    /\ memory.n \in Intents /\ Charged(memory.n) /\ intent[memory.n].of = memory.i
    /\ memory.amount > 0
    /\ memory.at = "handBack" => Left(memory.i) <= memory.amount
    /\ memory.at = "recordBack" => intent[memory.n].undone > 0

Backed ==
  /\ \A i \in Installments : RowBacked(i)
  /\ \A n \in Intents : ChargeBacked(n)
  /\ \A w \in Workers : HandsBack(work[w])
  /\ At("refunded") => Take > 0

\* A step that neither takes nor refunds money, and of a row leaves the amount (but of an
\* open one), what was refunded and whose charge it is.
MoneyKept ==
  \A n \in Intents :
    /\ intent'[n].of = intent[n].of /\ (Charged(n)' <=> Charged(n))
    /\ intent'[n].taken = intent[n].taken /\ intent'[n].back = intent[n].back
    /\ intent'[n].undone = intent[n].undone

RowKept(i) ==
  /\ RowFits(inst'[i])
  /\ inst'[i].refunded = inst[i].refunded
  /\ inst'[i].amount = inst[i].amount \/ Open(i)
  /\ inst[i].pi \in Intents => inst'[i].pi = inst[i].pi
  /\ inst'[i].pi \in Intents => Charged(inst'[i].pi) /\ intent[inst'[i].pi].of = i
  /\ inst'[i].status = "PAID" => inst'[i].pi \in Intents

CancellationKept ==
  \/ UNCHANGED cancelling
  \/ /\ cancelling'.left >= 0 /\ cancelling'.at # "refunded"
     /\ \A i \in Installments : cancelling'.seen[i] \in {cancelling.seen[i], inst[i], FreshRow}

\* The plan's rows fit, and no intent was made yet.
LEMMA FreshFits ==
  RowFits(FreshRow) /\ FreshRow.pi \notin Intents /\ MemoryFits(Idle)
BY BoundsAssumption, NoneAssumption DEF RowFits, FreshRow, MemoryFits, Idle, Amounts

\* A plan begins with every count in its bounds and nothing charged.
LEMMA InitBacked == ASSUME PlainBooking, Init PROVE Fits /\ Backed
<1>1. Fits
  <2>1. \A n \in Intents : IntentFits(intent[n])
    BY BoundsAssumption DEF Init, ChargingInit, StripeInit, Unused, IntentFits, Amounts
  <2>2. QED BY <2>1, FreshFits DEF Init, ChargingInit, NoCancellation, Fits
<1>2. \A i \in Installments : RowBacked(i)
  <2>1. FreshRow.status # "PAID" /\ ~ FreshRow.refunded > 0
    BY DEF FreshRow
  <2>2. ~ At("refunded") /\ \A i \in Installments : cancelling.seen[i] = FreshRow /\ inst[i] = FreshRow
    BY DEF Init, ChargingInit, NoCancellation, At
  <2>3. QED BY <2>1, <2>2, FreshFits DEF RowBacked, Refunding
<1>3. \A n \in Intents : ChargeBacked(n)
  BY DEF Init, ChargingInit, StripeInit, Unused, ChargeBacked, Charged
<1>4. \A w \in Workers : HandsBack(work[w])
  BY DEF Init, ChargingInit, Idle, HandsBack
<1>5. QED BY <1>1, <1>2, <1>3, <1>4 DEF Backed, Init, NoCancellation, At

\* Of what was charged the amount stays.
LEMMA ChargedAmount ==
  ASSUME IInv, AnswersLost = FALSE, NEW n \in Intents, Charged(n)
  PROVE  intent[n].of \in Installments /\ ~ Open(intent[n].of)
BY DEF IInv, ChargedOnce

\* Such a step keeps rows, charges and handlers backed.
LEMMA KeepsBacked ==
  ASSUME IInv, Fits, Backed, AnswersLost = FALSE, MoneyKept, CancellationKept,
         \A i \in Installments : RowKept(i),
         \A w \in Workers : /\ MemoryFits(work'[w])
                            /\ work'[w] = work[w] \/ HandsBack(work'[w])
  PROVE  Fits' /\ Backed'
<1>1. \A i \in Installments : RowFits(cancelling'.seen[i])
  BY FreshFits DEF CancellationKept, Fits
<1>2. Fits'
  BY <1>1 DEF Fits, RowKept, MoneyKept, IntentFits, CancellationKept, RowFits, MemoryFits
<1>3. ASSUME NEW i \in Installments
      PROVE  (Refunding(i)' => Refunding(i)) /\ (At("refunded")' => At("refunded") /\ Take' = Take)
  BY DEF CancellationKept, Refunding, At, Visited, Take, SeenLeft, SeenRow, SmallerOf
<1>4. ASSUME NEW i \in Installments PROVE RowBacked(i)'
  <2>1. RowBacked(i) /\ RowKept(i)
    BY DEF Backed
  <2>2. PICK p : p = inst'[i].pi
    OBVIOUS
  <2>3. p \in Intents => Charged(p)' /\ intent'[p].of = i
    BY <2>1, <2>2 DEF RowKept, MoneyKept
  <2>4. inst'[i].status = "PAID" \/ inst'[i].refunded > 0 \/ Refunding(i)' => inst'[i].pi \in Intents
    BY <1>3, <2>1 DEF RowKept, RowBacked
  <2>5. cancelling'.seen[i].pi \in Intents => inst'[i].pi = cancelling'.seen[i].pi
    BY <2>1, FreshFits DEF RowKept, RowBacked, CancellationKept
  <2>6. QED BY <2>2, <2>3, <2>4, <2>5 DEF RowBacked, Charged
<1>5. ASSUME NEW n \in Intents PROVE ChargeBacked(n)'
  <2>1. ChargeBacked(n)
    BY DEF Backed
  <2>2. CASE ~ Charged(n)
    BY <2>2 DEF MoneyKept, ChargeBacked
  <2>3. CASE Charged(n)
    <3>1. PICK i \in Installments : i = intent[n].of /\ ~ Open(i)
      BY <2>3, ChargedAmount
    <3>2. RowKept(i) /\ intent'[n].of = i
      BY <3>1 DEF MoneyKept
    <3>3. inst'[i].amount = inst[i].amount /\ inst'[i].refunded = inst[i].refunded
      BY <3>1, <3>2 DEF RowKept
    <3>4. Refunding(i)' => Refunding(i) /\ Take' = Take
      BY <1>3 DEF Refunding
    <3>5. QED BY <2>1, <2>3, <3>1, <3>2, <3>3, <3>4 DEF ChargeBacked, MoneyKept
  <2>4. QED BY <2>2, <2>3
<1>6. ASSUME NEW w \in Workers PROVE HandsBack(work[w])'
  <2>1. PICK m : m = work'[w] /\ HandsBack(m)
    BY DEF Backed
  <2>2. CASE m.at \notin {"handBack", "recordBack"}
    BY <2>1, <2>2 DEF HandsBack
  <2>3. CASE m.at \in {"handBack", "recordBack"}
    <3>1. m.n \in Intents /\ Charged(m.n) /\ intent[m.n].of = m.i
      BY <2>1, <2>3 DEF HandsBack
    <3>2. PICK i \in Installments : i = m.i /\ ~ Open(i)
      BY <3>1, ChargedAmount
    <3>3. RowKept(i)
      OBVIOUS
    <3>4. inst'[i].amount = inst[i].amount /\ inst'[i].refunded = inst[i].refunded
      BY <3>2, <3>3 DEF RowKept
    <3>5. HandsBack(m)'
      BY <2>1, <3>1, <3>2, <3>4 DEF HandsBack, MoneyKept, Left
    <3>6. QED BY <2>1, <3>5 DEF HandsBack, Charged, Left
  <2>4. QED BY <2>2, <2>3
<1>7. At("refunded")' => Take' > 0
  BY <1>3 DEF Backed, CancellationKept, At, Take, SmallerOf, SeenLeft, SeenRow, Visited
<1>8. QED BY <1>2, <1>4, <1>5, <1>6, <1>7 DEF Backed

----------------------------------------------------------------------------
(* Handlers that touch no row.                                             *)

\* A row that did not change is kept.
LEMMA SameRow ==
  ASSUME Fits, Backed, NEW i \in Installments, inst'[i] = inst[i]
  PROVE  RowKept(i)
<1>1. RowFits(inst[i]) /\ RowBacked(i)
  BY DEF Fits, Backed
<1>2. QED BY <1>1 DEF RowKept, RowBacked

\* Stripe is not called, or only hears of an event.
LEMMA SameMoney == ASSUME UNCHANGED intent PROVE MoneyKept
BY DEF MoneyKept, Charged

\* A handler goes on with another memory.
LEMMA ThinksBacked ==
  ASSUME IInv, Fits, Backed, AnswersLost = FALSE, NEW w \in Workers, NEW m,
         work' = [work EXCEPT ![w] = m], MemoryFits(m), HandsBack(m),
         UNCHANGED <<inst, cancelling>>, MoneyKept
  PROVE  Fits' /\ Backed'
<1>1. \A v \in Workers : work'[v] = IF v = w THEN m ELSE work[v]
  BY DEF IInv
<1>2. \A v \in Workers : MemoryFits(work'[v]) /\ (work'[v] = work[v] \/ HandsBack(work'[v]))
  BY <1>1 DEF Fits
<1>3. \A i \in Installments : RowKept(i)
  BY SameRow
<1>4. QED BY <1>2, <1>3, KeepsBacked DEF CancellationKept

\* Who is idle hands nothing back.
LEMMA IdleFits == MemoryFits(Idle) /\ HandsBack(Idle)
BY FreshFits DEF HandsBack, Idle

\* It goes on to a place, or is done.
LEMMA MovesBacked ==
  ASSUME IInv, Fits, Backed, AnswersLost = FALSE, NEW w \in Workers,
         \/ Done(w)
         \/ \E p : p \notin {"handBack", "recordBack"} /\ Goto(w, p),
         UNCHANGED <<inst, cancelling>>, MoneyKept
  PROVE  Fits' /\ Backed'
<1>1. CASE Done(w)
  <2>1. PICK m : m = Idle
    OBVIOUS
  <2>2. QED BY <1>1, <2>1, IdleFits, ThinksBacked DEF Done
<1>2. ASSUME NEW p, p \notin {"handBack", "recordBack"}, Goto(w, p) PROVE Fits' /\ Backed'
  <2>1. PICK m : m = [work[w] EXCEPT !.at = p]
    OBVIOUS
  <2>2. work[w] \in Handlings /\ MemoryFits(work[w])
    BY DEF IInv, Fits
  <2>3. m.at = p /\ m.attempts = work[w].attempts /\ m.amount = work[w].amount
    BY <2>1, <2>2 DEF Handlings
  <2>4. MemoryFits(m) /\ HandsBack(m)
    BY <1>2, <2>2, <2>3 DEF MemoryFits, HandsBack
  <2>5. QED BY <1>2, <2>1, <2>4, ThinksBacked DEF Goto, IInv
<1>3. QED BY <1>1, <1>2

\* Picking an installment, reading it, or a refused charge.
LEMMA BackedReads ==
  ASSUME PlainBooking, IInv, Fits, Backed, AnswersLost = FALSE, NEW w \in Workers,
         UNCHANGED cancelling,
         \/ \E i \in Installments : SelectDue(w, i) \/ RetryInstallment(w, i)
         \/ FindNothingToCharge(w) \/ FindBookingEnded(w) \/ ReadForCharge(w)
         \/ ChargeFails(w)
  PROVE  Fits' /\ Backed'
<1>1. UNCHANGED <<inst, intent, cancelling>> /\ MoneyKept
  BY SameMoney DEF SelectDue, RetryInstallment, FindNothingToCharge, FindBookingEnded,
                   ReadForCharge, ChargeFails
<1>2. work[w] \in Handlings /\ MemoryFits(work[w])
  BY DEF IInv, Fits
<1>3. ASSUME NEW m, work' = [work EXCEPT ![w] = m], MemoryFits(m),
             m.at \notin {"handBack", "recordBack"}
      PROVE  Fits' /\ Backed'
  <2>1. HandsBack(m)
    BY <1>3 DEF HandsBack
  <2>2. QED BY <1>1, <1>3, <2>1, ThinksBacked
<1>4. ASSUME NEW i \in Installments, SelectDue(w, i) PROVE Fits' /\ Backed'
  <2>1. PICK m : m = [Idle EXCEPT !.at = "read", !.i = i]
    OBVIOUS
  <2>2. m.at = "read" /\ m.attempts = Idle.attempts /\ m.amount = Idle.amount
    BY <2>1 DEF Idle
  <2>3. MemoryFits(m)
    BY <2>2, FreshFits DEF MemoryFits
  <2>4. QED BY <1>3, <1>4, <2>1, <2>2, <2>3 DEF SelectDue
<1>5. ASSUME NEW i \in Installments, RetryInstallment(w, i) PROVE Fits' /\ Backed'
  <2>1. PICK card \in BOOLEAN : work' = [work EXCEPT ![w] =
          [Idle EXCEPT !.at = IF card THEN "newCard" ELSE "reset", !.i = i,
             !.status = inst[i].status, !.attempts = inst[i].attempts, !.card = card]]
    BY <1>5 DEF RetryInstallment
  <2>2. PICK m : m = [Idle EXCEPT !.at = IF card THEN "newCard" ELSE "reset", !.i = i,
                        !.status = inst[i].status, !.attempts = inst[i].attempts, !.card = card]
    OBVIOUS
  <2>3. m.at \in {"newCard", "reset"} /\ m.attempts = inst[i].attempts /\ m.amount = Idle.amount
    BY <2>2 DEF Idle
  <2>4. RowFits(inst[i])
    BY DEF Fits
  <2>5. MemoryFits(m)
    BY <2>3, <2>4, FreshFits DEF MemoryFits, RowFits
  <2>6. QED BY <1>3, <2>1, <2>2, <2>3, <2>5
<1>6. CASE FindNothingToCharge(w)
  BY <1>1, <1>6, MovesBacked DEF FindNothingToCharge
<1>7. CASE FindBookingEnded(w)
  <2>1. Goto(w, "callOff")
    BY <1>7 DEF FindBookingEnded
  <2>2. QED BY <1>1, <2>1, MovesBacked
<1>8. CASE ReadForCharge(w)
  <2>1. PICK m : m = AsRead(w, "claim")
    OBVIOUS
  <2>2. work' = [work EXCEPT ![w] = m]
    BY <1>8, <2>1 DEF ReadForCharge, HasCard, IInv
  <2>3. work[w].i \in Installments /\ Row(w) = inst[work[w].i] /\ inst[work[w].i] \in Rows
    BY <1>8, AtWork DEF ReadForCharge
  <2>4. m.at = "claim" /\ m.attempts = Row(w).attempts + 1 /\ m.amount = Row(w).amount
    BY <1>2, <2>1 DEF AsRead, Handlings
  <2>5. RowFits(Row(w)) /\ Row(w).status = "SCHEDULED"
    BY <1>8, <2>3 DEF Fits, ReadForCharge
  <2>6. MemoryFits(m)
    BY <2>4, <2>5, BoundsAssumption DEF MemoryFits, RowFits
  <2>7. QED BY <1>3, <2>2, <2>4, <2>6
<1>9. CASE ChargeFails(w)
  <2>1. PICK needs \in BOOLEAN, k \in {Dud, None} :
          work' = [work EXCEPT ![w] = [work[w] EXCEPT !.at = "fail", !.needs = needs, !.n = k]]
    BY <1>9 DEF ChargeFails, IInv
  <2>2. PICK m : m = [work[w] EXCEPT !.at = "fail", !.needs = needs, !.n = k]
    OBVIOUS
  <2>3. m.at = "fail" /\ m.attempts = work[w].attempts /\ m.amount = work[w].amount
    BY <1>2, <2>2 DEF Handlings
  <2>4. QED BY <1>2, <1>3, <2>1, <2>2, <2>3 DEF MemoryFits
<1>10. QED BY <1>4, <1>5, <1>6, <1>7, <1>8, <1>9

\* Events come and go, a window starts, a card is saved, the job is completed, time passes.
LEMMA BackedElsewhere ==
  ASSUME PlainBooking, IInv, Ledger, Fits, Backed, AnswersLost = FALSE, NEW w \in Workers,
         UNCHANGED cancelling,
         \/ \E n \in Intents : Deliver(w, n)
         \/ Reconcile(w) \/ Crash(w) \/ StartWindow(w) \/ SaveNewCard(w) \/ Complete(w)
         \/ DropHold(w) \/ LookForHold(w)
  PROVE  Fits' /\ Backed'
<1>1. UNCHANGED <<inst, cancelling>>
  BY DEF Deliver, Reconcile, Crash, StartWindow, SaveNewCard, Complete, DropHold, LookForHold
<1>2. MoneyKept
  <2>1. CASE UNCHANGED intent
    BY <2>1, SameMoney
  <2>2. CASE ~ UNCHANGED intent
    <3>1. PICK n, news : intent' = [intent EXCEPT ![n] = [intent[n] EXCEPT !.news = news]]
      <4>1. ASSUME NEW n \in Intents, Deliver(w, n)
            PROVE  \E news : intent' = [intent EXCEPT ![n] = [intent[n] EXCEPT !.news = news]]
        <5>1. PICK e : intent' = [intent EXCEPT ![n] = [intent[n] EXCEPT !.news = intent[n].news \ {e}]]
          BY <4>1 DEF Deliver, IInv, IntentsSound
        <5>2. QED BY <5>1
      <4>2. CASE Crash(w)
        <5>1. intent' = [intent EXCEPT ![work[w].from] =
                 [intent[work[w].from] EXCEPT !.news = intent[work[w].from].news \cup {work[w].event}]]
          BY <2>2, <4>2 DEF Crash, IInv, IntentsSound
        <5>2. QED BY <5>1
      <4>3. QED BY <2>2, <4>1, <4>2, CancelDoesNothing
                DEF Reconcile, StartWindow, SaveNewCard, Complete, DropHold, LookForHold
    <3>2. intent \in [Intents -> Succeeded]
      BY DEF IInv, IntentsSound
    <3>3. QED BY <3>1, <3>2 DEF MoneyKept, Charged, Succeeded
  <2>3. QED BY <2>1, <2>2
<1>3. ASSUME NEW n \in Intents, Deliver(w, n) PROVE Fits' /\ Backed'
  <2>1. PICK e : work' = [work EXCEPT ![w] =
          [Idle EXCEPT !.at = "hook", !.i = intent[n].of, !.n = n, !.event = e, !.from = n]]
    BY <1>3 DEF Deliver
  <2>2. PICK m : m = [Idle EXCEPT !.at = "hook", !.i = intent[n].of, !.n = n, !.event = e,
                                  !.from = n]
    OBVIOUS
  <2>3. m.at = "hook" /\ m.attempts = Idle.attempts /\ m.amount = Idle.amount
    BY <2>2 DEF Idle
  <2>4. MemoryFits(m) /\ HandsBack(m)
    BY <2>3, FreshFits DEF MemoryFits, HandsBack
  <2>5. QED BY <1>1, <1>2, <2>1, <2>2, <2>4, ThinksBacked
<1>4. CASE UNCHANGED work
  BY <1>1, <1>2, <1>4, SameRow, KeepsBacked DEF CancellationKept, Fits
<1>5. ASSUME ~ \E n \in Intents : Deliver(w, n), ~ UNCHANGED work PROVE Fits' /\ Backed'
  <2>1. Done(w) \/ \E p \in {"paid", "missed", "reset", "recordDrop"} : Goto(w, p)
    <3>1. CASE Reconcile(w)
      <4>1. work[w].event = "succeeded"
        <5>1. Knows(work[w])
          BY DEF Ledger
        <5>2. QED BY <3>1, <5>1 DEF Knows, Reconcile
      <4>2. QED BY <3>1, <4>1 DEF Reconcile, Reaction
    <3>2. CASE DropHold(w)
      BY <3>2, AtWork, AfterUndoIsDone DEF DropHold
    <3>3. CASE LookForHold(w)
      BY <3>3 DEF LookForHold, HoldToCapture, PlainBooking
    <3>4. QED BY <1>5, <3>1, <3>2, <3>3
              DEF Crash, StartWindow, SaveNewCard, Complete, PlainBooking
  <2>2. QED BY <1>1, <1>2, <2>1, MovesBacked
<1>6. QED BY <1>3, <1>4, <1>5

----------------------------------------------------------------------------
(* Handlers that write a row.                                              *)

\* A row is written, but not its money; a handler may go on.
LEMMA WritesBacked ==
  ASSUME IInv, Fits, Backed, AnswersLost = FALSE, UNCHANGED intent, CancellationKept,
         NEW i \in Installments, NEW r, inst' = [inst EXCEPT ![i] = r], RowFits(r),
         r.refunded = inst[i].refunded, r.amount = inst[i].amount \/ Open(i),
         inst[i].pi \in Intents => r.pi = inst[i].pi,
         r.pi \in Intents => Charged(r.pi) /\ intent[r.pi].of = i,
         r.status = "PAID" => r.pi \in Intents,
         \/ UNCHANGED work
         \/ \E w \in Workers : \E m : /\ work' = [work EXCEPT ![w] = m]
                                       /\ MemoryFits(m) /\ HandsBack(m)
  PROVE  Fits' /\ Backed'
<1>1. \A j \in Installments : inst'[j] = IF j = i THEN r ELSE inst[j]
  BY DEF IInv
<1>2. ASSUME NEW j \in Installments PROVE RowKept(j)
  <2>1. CASE j = i
    BY <1>1, <2>1 DEF RowKept
  <2>2. CASE j # i
    BY <1>1, <2>2, SameRow
  <2>3. QED BY <2>1, <2>2
<1>3. \A v \in Workers : /\ MemoryFits(work'[v])
                         /\ work'[v] = work[v] \/ HandsBack(work'[v])
  <2>1. CASE UNCHANGED work
    BY <2>1 DEF Fits
  <2>2. ASSUME NEW w \in Workers, NEW m, work' = [work EXCEPT ![w] = m], MemoryFits(m), HandsBack(m)
        PROVE  \A v \in Workers : /\ MemoryFits(work'[v])
                                  /\ work'[v] = work[v] \/ HandsBack(work'[v])
    <3>1. \A v \in Workers : work'[v] = IF v = w THEN m ELSE work[v]
      BY <2>2 DEF IInv
    <3>2. QED BY <2>2, <3>1 DEF Fits
  <2>3. QED BY <2>1, <2>2
<1>4. QED BY <1>2, <1>3, SameMoney, KeepsBacked

\* The same where the row keeps its charge, and what remains in it does not say it is paid.
LEMMA StatusBacked ==
  ASSUME IInv, Fits, Backed, AnswersLost = FALSE, UNCHANGED intent, CancellationKept,
         NEW i \in Installments, NEW r, inst' = [inst EXCEPT ![i] = r], RowFits(r),
         r.refunded = inst[i].refunded, r.amount = inst[i].amount \/ Open(i),
         r.pi = inst[i].pi, r.status = inst[i].status \/ r.status # "PAID",
         \/ UNCHANGED work
         \/ \E w \in Workers : \E m : /\ work' = [work EXCEPT ![w] = m]
                                       /\ MemoryFits(m) /\ HandsBack(m)
  PROVE  Fits' /\ Backed'
<1>1. RowBacked(i)
  BY DEF Backed
<1>2. QED BY <1>1, WritesBacked DEF RowBacked

\* A handler at work, its row, and its memory as it may go on with it.
LEMMA AtItsRow ==
  ASSUME IInv, Fits, NEW w \in Workers, work[w].at # "idle"
  PROVE  /\ work[w].i \in Installments /\ Mine(w) = work[w].i /\ Row(w) = inst[work[w].i]
         /\ inst[work[w].i] \in Rows /\ RowFits(inst[work[w].i])
         /\ work[w] \in Handlings /\ MemoryFits(work[w])
         /\ \A p : p \notin {"handBack", "recordBack"} =>
              LET m == [work[w] EXCEPT !.at = p] IN MemoryFits(m) /\ HandsBack(m)
BY AtWork DEF Fits, Handlings, MemoryFits, HandsBack

\* A row is called off, whatever it has become.
LEMMA BackedCallsOff ==
  ASSUME PlainBooking, IInv, Fits, Backed, AnswersLost = FALSE, NEW w \in Workers,
         UNCHANGED cancelling, CallOff(w) \/ RecordDropped(w)
  PROVE  Fits' /\ Backed'
<1>1. work[w].at # "idle"
  BY DEF CallOff, RecordDropped
<1>2. PICK i \in Installments : i = work[w].i /\ inst[i] \in Rows /\ RowFits(inst[i]) /\ Mine(w) = i
  BY <1>1, AtItsRow
<1>3. PICK r : r = [inst[i] EXCEPT !.status = "CANCELLED"]
  OBVIOUS
<1>4. inst' = [inst EXCEPT ![i] = r]
  BY <1>2, <1>3 DEF CallOff, RecordDropped, IInv
<1>5. /\ RowFits(r) /\ r.refunded = inst[i].refunded /\ r.amount = inst[i].amount
      /\ r.pi = inst[i].pi /\ r.status # "PAID"
  BY <1>2, <1>3 DEF Rows, RowFits
<1>6. work' = [work EXCEPT ![w] = Idle]
  BY <1>1, AfterUndoIsDone DEF CallOff, RecordDropped, Done
<1>7. UNCHANGED intent /\ CancellationKept
  BY DEF CallOff, RecordDropped, CancellationKept
<1>8. QED BY <1>4, <1>5, <1>6, <1>7, IdleFits, StatusBacked

\* The claim, and the customer's fresh start.
LEMMA BackedClaims ==
  ASSUME PlainBooking, IInv, Fits, Backed, AnswersLost = FALSE, NEW w \in Workers,
         UNCHANGED cancelling, ClaimAttempt(w) \/ ResetAttempts(w)
  PROVE  Fits' /\ Backed'
<1>1. work[w].at # "idle"
  BY DEF ClaimAttempt, ResetAttempts
<1>2. PICK i \in Installments : i = work[w].i /\ inst[i] \in Rows /\ RowFits(inst[i]) /\ Mine(w) = i
  BY <1>1, AtItsRow
<1>3. UNCHANGED intent /\ MoneyKept /\ CancellationKept
  BY SameMoney DEF ClaimAttempt, ResetAttempts, CancellationKept
<1>4. CASE Done(w) /\ UNCHANGED inst
  BY <1>3, <1>4, MovesBacked
<1>5. CASE ClaimAttempt(w) /\ ~ (Done(w) /\ UNCHANGED inst)
  <2>1. PICK r : r = [inst[i] EXCEPT !.status = "PROCESSING", !.attempts = work[w].attempts]
    OBVIOUS
  <2>2. inst' = [inst EXCEPT ![i] = r] /\ Goto(w, "call")
    BY <1>2, <1>5, <2>1 DEF ClaimAttempt, IInv
  <2>3. MemoryFits(work[w])
    BY DEF Fits
  <2>4. /\ RowFits(r) /\ r.refunded = inst[i].refunded /\ r.amount = inst[i].amount
        /\ r.pi = inst[i].pi /\ r.status # "PAID"
    BY <1>2, <2>1, <2>3 DEF Rows, RowFits, MemoryFits
  <2>5. PICK m : m = [work[w] EXCEPT !.at = "call"]
    OBVIOUS
  <2>6. MemoryFits(m) /\ HandsBack(m)
    BY <1>1, <2>5, AtItsRow
  <2>7. work' = [work EXCEPT ![w] = m]
    BY <2>2, <2>5 DEF Goto, IInv
  <2>8. QED BY <1>3, <2>2, <2>4, <2>6, <2>7, StatusBacked
<1>6. CASE ResetAttempts(w) /\ ~ (Done(w) /\ UNCHANGED inst)
  <2>1. PICK r : r = [inst[i] EXCEPT !.status = "SCHEDULED", !.attempts = 0, !.again = FALSE]
    OBVIOUS
  <2>2. inst' = [inst EXCEPT ![i] = r]
    BY <1>2, <1>6, <2>1 DEF ResetAttempts, IInv
  <2>3. /\ RowFits(r) /\ r.refunded = inst[i].refunded /\ r.amount = inst[i].amount
        /\ r.pi = inst[i].pi /\ r.status # "PAID"
    BY <1>2, <2>1, BoundsAssumption DEF Rows, RowFits
  <2>4. PICK m : m = [Idle EXCEPT !.at = "read", !.i = Mine(w), !.card = work[w].card]
    OBVIOUS
  <2>5. m.at = "read" /\ m.attempts = Idle.attempts /\ m.amount = Idle.amount
    BY <2>4 DEF Idle
  <2>6. MemoryFits(m) /\ HandsBack(m)
    BY <2>5, FreshFits DEF MemoryFits, HandsBack
  <2>7. work' = [work EXCEPT ![w] = m]
    BY <1>6, <2>4 DEF ResetAttempts
  <2>8. QED BY <1>3, <2>2, <2>3, <2>6, <2>7, StatusBacked
<1>7. QED BY <1>4, <1>5, <1>6

\* A failure is recorded by the owner, whose installment was not charged; it leaves a try, or
\* closes the row.
LEMMA BackedFails ==
  ASSUME PlainBooking, IInv, Fits, Backed, AnswersLost = FALSE, NEW w \in Workers,
         UNCHANGED cancelling, RecordFailure(w) \/ RecordMissedDeposit(w)
  PROVE  Fits' /\ Backed'
<1>1. work[w].at \in {"fail", "missed"}
  BY DEF RecordFailure, RecordMissedDeposit
<1>2. PICK i \in Installments : i = work[w].i /\ inst[i] \in Rows /\ RowFits(inst[i]) /\ Mine(w) = i
  BY <1>1, AtItsRow
<1>3. UNCHANGED intent /\ CancellationKept /\ MemoryFits(work[w])
  BY DEF RecordFailure, RecordMissedDeposit, CancellationKept, Fits
<1>4. PICK s \in {"FAILED", "SCHEDULED"} :
         inst' = FailedRow(w, s) /\ (s = "SCHEDULED" => work[w].attempts < MaxAttempts)
  <2>1. CASE RecordFailure(w)
    <3>1. ~ Exhausted(w) => work[w].attempts < MaxAttempts
      BY <1>3, BoundsAssumption DEF Exhausted, MemoryFits
    <3>2. QED BY <2>1, <3>1 DEF RecordFailure
  <2>2. CASE RecordMissedDeposit(w)
    <3>1. 1 < MaxAttempts
      BY BoundsAssumption
    <3>2. QED BY <2>2, <3>1 DEF RecordMissedDeposit
  <2>3. QED BY <2>1, <2>2
<1>5. PICK p : p = IF work[w].n = Dud THEN Dud ELSE inst[i].pi
  OBVIOUS
<1>6. PICK r : r = [inst[i] EXCEPT !.status = s, !.attempts = work[w].attempts, !.again = FALSE,
                                   !.pi = p]
  OBVIOUS
<1>7. inst' = [inst EXCEPT ![i] = r]
  BY <1>2, <1>4, <1>5, <1>6 DEF FailedRow, IInv
<1>8. /\ RowFits(r) /\ r.refunded = inst[i].refunded /\ r.amount = inst[i].amount
      /\ r.pi = p /\ r.status # "PAID"
  BY <1>2, <1>3, <1>4, <1>6 DEF Rows, RowFits, MemoryFits
<1>9. inst[i].pi \notin Intents
  <2>1. Owns(work[w], i)
    BY <1>1, <1>2 DEF Owns, OwnerPlaces
  <2>2. RowBacked(i)
    BY DEF Backed
  <2>3. QED BY <2>1, <2>2, NotCharged DEF RowBacked
<1>10. p \notin Intents
  BY <1>5, <1>9, NoneAssumption
<1>11. work' = [work EXCEPT ![w] = Idle]
  BY DEF RecordFailure, RecordMissedDeposit, Done
<1>12. QED BY <1>3, <1>7, <1>8, <1>9, <1>10, <1>11, IdleFits, WritesBacked

\* A payment is recorded with the charge it came by: an installment has only one.
LEMMA BackedPays ==
  ASSUME PlainBooking, IInv, Ledger, Fits, Backed, AnswersLost = FALSE, NEW w \in Workers,
         UNCHANGED cancelling, MarkPaid(w)
  PROVE  Fits' /\ Backed'
<1>1. work[w].at = "paid"
  BY DEF MarkPaid
<1>2. PICK i \in Installments : i = work[w].i /\ inst[i] \in Rows /\ RowFits(inst[i]) /\ Mine(w) = i
  BY <1>1, AtItsRow
<1>3. PICK n \in Intents : n = work[w].n /\ Charged(n) /\ intent[n].of = i
  <2>1. Knows(work[w])
    BY DEF Ledger
  <2>2. QED BY <1>1, <1>2, <2>1 DEF Knows
<1>4. UNCHANGED intent /\ MoneyKept /\ CancellationKept
  BY SameMoney DEF MarkPaid, CancellationKept
<1>5. PICK m : m = [Idle EXCEPT !.at = "undo", !.i = work[w].i, !.hold = work[w].hold,
                                !.event = work[w].event, !.from = work[w].from]
  OBVIOUS
<1>6. work' = [work EXCEPT ![w] = m]
  BY <1>5 DEF MarkPaid, Forward
<1>7. m.at = "undo" /\ m.attempts = Idle.attempts /\ m.amount = Idle.amount
  BY <1>5 DEF Idle
<1>8. MemoryFits(m) /\ HandsBack(m)
  BY <1>7, FreshFits DEF MemoryFits, HandsBack
<1>9. CASE inst[i].status = "PAID"
  <2>1. UNCHANGED inst
    BY <1>2, <1>9 DEF MarkPaid, RecordPayment
  <2>2. QED BY <1>4, <1>6, <1>8, <2>1, ThinksBacked
<1>10. CASE inst[i].status # "PAID"
  <2>1. PICK k \in {1, 2} : k = Second(inst[i].rows)
    BY DEF Second
  <2>2. PICK r : r = [inst[i] EXCEPT !.status = "PAID", !.pi = n, !.rows = k, !.again = FALSE]
    OBVIOUS
  <2>3. RecordPayment(i, n)
    BY <1>2, <1>3 DEF MarkPaid
  <2>4. inst' = [inst EXCEPT ![i] = r]
    BY <1>10, <2>1, <2>2, <2>3 DEF RecordPayment, IInv
  <2>5. /\ RowFits(r) /\ r.refunded = inst[i].refunded /\ r.amount = inst[i].amount /\ r.pi = n
    BY <1>2, <2>1, <2>2 DEF Rows, RowFits
  <2>6. inst[i].pi \in Intents => inst[i].pi = n
    <3>1. RowBacked(i)
      BY DEF Backed
    <3>2. QED BY <1>3, <3>1 DEF RowBacked, IInv, ChargedOnce
  <2>7. QED BY <1>3, <1>4, <1>6, <1>8, <2>4, <2>5, <2>6, WritesBacked
<1>11. QED BY <1>9, <1>10

\* The vendor lowers what is open, and dates pass.
LEMMA BackedSurroundings ==
  ASSUME PlainBooking, IInv, Fits, Backed, AnswersLost = FALSE, UNCHANGED cancelling,
         Surroundings \/ \E w \in Workers, i \in Installments : GiveBack(w, i)
  PROVE  Fits' /\ Backed'
<1>1. CancellationKept
  BY DEF CancellationKept
<1>2. ASSUME NEW i \in Installments, DueDatePasses(i) \/ RetryDatePasses(i) PROVE Fits' /\ Backed'
  <2>1. inst[i] \in Rows /\ RowFits(inst[i])
    BY DEF IInv, Fits
  <2>2. PICK r : /\ r \in {[inst[i] EXCEPT !.due = TRUE], [inst[i] EXCEPT !.again = TRUE]}
                 /\ inst' = [inst EXCEPT ![i] = r]
    <3>1. CASE DueDatePasses(i)
      <4>1. inst' = [inst EXCEPT ![i] = [inst[i] EXCEPT !.due = TRUE]]
        BY <3>1 DEF DueDatePasses, IInv
      <4>2. QED BY <4>1
    <3>2. CASE RetryDatePasses(i)
      <4>1. inst' = [inst EXCEPT ![i] = [inst[i] EXCEPT !.again = TRUE]]
        BY <3>2 DEF RetryDatePasses, IInv
      <4>2. QED BY <4>1
    <3>3. QED BY <1>2, <3>1, <3>2
  <2>3. /\ RowFits(r) /\ r.refunded = inst[i].refunded /\ r.amount = inst[i].amount
        /\ r.pi = inst[i].pi /\ r.status = inst[i].status
    BY <2>1, <2>2 DEF Rows, RowFits
  <2>4. UNCHANGED <<work, intent>>
    BY <1>2 DEF DueDatePasses, RetryDatePasses
  <2>5. QED BY <1>1, <2>2, <2>3, <2>4, StatusBacked
<1>3. ASSUME UNCHANGED <<inst, work, intent>> PROVE Fits' /\ Backed'
  BY <1>1, <1>3, SameRow, SameMoney, KeepsBacked DEF Fits
<1>4. ASSUME NEW n \in Intents PROVE ~ HoldExpires(n)
  BY DEF HoldExpires, IInv, IntentsSound, Succeeded
<1>5. CASE DeadlinePasses
  BY <1>3, <1>5 DEF DeadlinePasses
<1>6. ASSUME NEW w \in Workers, NEW i \in Installments, GiveBack(w, i) PROVE Fits' /\ Backed'
  <2>1. inst[i] \in Rows /\ RowFits(inst[i])
    BY DEF IInv, Fits
  <2>2. Open(i) /\ inst[i].amount > 0
    BY <1>6 DEF GiveBack, Lowerable, PlainBooking, Open, OpenStatus
  <2>3. PICK s : s = IF inst[i].amount = 1 THEN "CANCELLED" ELSE inst[i].status
    OBVIOUS
  <2>4. PICK r : r = [inst[i] EXCEPT !.amount = inst[i].amount - 1, !.status = s]
    OBVIOUS
  <2>5. inst' = [inst EXCEPT ![i] = r]
    BY <1>6, <2>3, <2>4 DEF GiveBack, IInv
  <2>6. /\ RowFits(r) /\ r.refunded = inst[i].refunded /\ r.pi = inst[i].pi
        /\ r.status = s
    <3>1. /\ r.amount = inst[i].amount - 1 /\ r.refunded = inst[i].refunded
          /\ r.pi = inst[i].pi /\ r.status = s /\ r.attempts = inst[i].attempts
          /\ r.rows = inst[i].rows
      BY <2>1, <2>4 DEF Rows
    <3>2. inst[i].amount - 1 \in Amounts
      BY <2>1, <2>2, BoundsAssumption DEF RowFits, Amounts
    <3>3. QED BY <2>1, <2>3, <3>1, <3>2 DEF RowFits
  <2>7. s = inst[i].status \/ s # "PAID"
    BY <2>3
  <2>8. UNCHANGED <<work, intent>>
    BY <1>6, <2>2 DEF GiveBack, Open, OpenStatus
  <2>9. QED BY <1>1, <2>2, <2>5, <2>6, <2>7, <2>8, StatusBacked
<1>7. QED BY <1>2, <1>4, <1>5, <1>6 DEF Surroundings

----------------------------------------------------------------------------
(* Money.                                                                  *)

\* Memories that the next lemmas do not touch stay within their bounds.
LEMMA OtherMemories ==
  ASSUME IInv, Fits, NEW w \in Workers, NEW m, work' = [work EXCEPT ![w] = m], MemoryFits(m)
  PROVE  /\ \A v \in Workers : work'[v] = IF v = w THEN m ELSE work[v]
         /\ \A v \in Workers : MemoryFits(work'[v])
<1>1. \A v \in Workers : work'[v] = IF v = w THEN m ELSE work[v]
  BY DEF IInv
<1>2. QED BY <1>1 DEF Fits

\* A charge takes what the row says; the installment was never charged, so its row shows
\* no charge and no refund.
LEMMA BackedCharges ==
  ASSUME PlainBooking, IInv, Ledger, Fits, Backed, AnswersLost = FALSE, NEW w \in Workers,
         UNCHANGED cancelling, ChargeSavedCard(w)
  PROVE  Fits' /\ Backed'
<1>1. work[w].at = "call" /\ work[w] \in Handlings /\ work[w].hold = FALSE
  BY AtWork DEF ChargeSavedCard
<1>2. PICK i \in Installments : i = work[w].i /\ inst[i] \in Rows /\ RowFits(inst[i]) /\ Mine(w) = i
  BY <1>1, AtItsRow
<1>3. PICK n \in Intents :
        /\ intent[n].state = "unused"
        /\ intent' = [intent EXCEPT ![n] = Created(Mine(w), work[w].amount, "succeeded")]
        /\ work' = [work EXCEPT ![w] = [work[w] EXCEPT !.n = n, !.at = "paid"]]
  BY <1>1 DEF ChargeSavedCard, IInv
<1>4. PICK record : record = Created(i, work[w].amount, "succeeded")
  OBVIOUS
<1>5. /\ record.of = i /\ record.state = "succeeded" /\ record.taken = work[w].amount
      /\ record.back = 0 /\ record.undone = 0
  BY <1>4 DEF Created, Becomes, Unused
<1>6. \A k \in Intents : intent'[k] = IF k = n THEN record ELSE intent[k]
  BY <1>2, <1>3, <1>4 DEF IInv, IntentsSound
<1>7. work[w].amount = inst[i].amount /\ MemoryFits(work[w])
  <2>1. Knows(work[w])
    BY DEF Ledger
  <2>2. QED BY <1>1, <1>2, <2>1 DEF Knows, Fits
<1>8. \A k \in Intents : Charged(k) => intent[k].of # i
  <2>1. Owns(work[w], i)
    BY <1>1, <1>2 DEF Owns, OwnerPlaces
  <2>2. QED BY <2>1, NotCharged
<1>9. ~ Charged(n) /\ UNCHANGED <<inst, cancelling>>
  BY <1>3 DEF Charged, ChargeSavedCard
<1>10. PICK m : m = [work[w] EXCEPT !.n = n, !.at = "paid"]
  OBVIOUS
<1>11. m.at = "paid" /\ m.attempts = work[w].attempts /\ m.amount = work[w].amount
  BY <1>1, <1>10 DEF Handlings
<1>12. MemoryFits(m)
  BY <1>7, <1>11 DEF MemoryFits
<1>13. /\ \A v \in Workers : work'[v] = IF v = w THEN m ELSE work[v]
       /\ \A v \in Workers : MemoryFits(work'[v])
  <2>1. work' = [work EXCEPT ![w] = m]
    BY <1>3, <1>10
  <2>2. QED BY <1>12, <2>1, OtherMemories
<1>14. Fits'
  <2>1. IntentFits(record)
    BY <1>5, <1>7, BoundsAssumption DEF IntentFits, MemoryFits, Amounts
  <2>2. QED BY <1>6, <1>9, <1>13, <2>1 DEF Fits, RowFits, IntentFits, MemoryFits
<1>15. ASSUME NEW j \in Installments
       PROVE  /\ RowBacked(j)' /\ (Refunding(j)' <=> Refunding(j))
              /\ j = i => ~ Refunding(j) /\ inst[j].refunded = 0
  <2>1. RowBacked(j)
    BY DEF Backed
  <2>2. Refunding(j)' <=> Refunding(j)
    BY <1>9 DEF Refunding, At, Visited
  <2>3. \A k \in Intents : Charged(k) => k # n
    BY <1>9
  <2>4. RowBacked(j)'
    BY <1>6, <1>9, <2>1, <2>2, <2>3 DEF RowBacked, Charged
  <2>5. RowFits(inst[j])
    BY DEF Fits
  <2>6. j = i => inst[j].pi \notin Intents
    BY <1>8, <2>1 DEF RowBacked
  <2>7. j = i => ~ Refunding(j) /\ inst[j].refunded = 0
    BY <2>1, <2>5, <2>6, BoundsAssumption DEF RowBacked, RowFits, Amounts
  <2>8. QED BY <2>2, <2>4, <2>7
<1>16. ASSUME NEW k \in Intents PROVE ChargeBacked(k)'
  <2>1. CASE k = n
    <3>1. intent'[k] = record /\ inst'[i] = inst[i] /\ ~ Refunding(i)' /\ inst[i].refunded = 0
      BY <1>2, <1>6, <1>9, <1>15, <2>1
    <3>2. work[w].amount >= 0
      BY <1>7, BoundsAssumption DEF MemoryFits, Amounts
    <3>3. QED BY <1>5, <1>7, <3>1, <3>2 DEF ChargeBacked
  <2>2. CASE k # n
    <3>1. ChargeBacked(k) /\ intent'[k] = intent[k]
      BY <1>6, <2>2 DEF Backed
    <3>2. Take' = Take
      BY <1>9 DEF Take, SeenLeft, SeenRow, Visited
    <3>3. QED BY <1>9, <3>1, <3>2 DEF ChargeBacked, Charged, Refunding, At, Visited
  <2>3. QED BY <2>1, <2>2
<1>17. ASSUME NEW v \in Workers PROVE HandsBack(work[v])'
  <2>1. CASE v = w
    BY <1>11, <1>13, <2>1 DEF HandsBack
  <2>2. CASE v # w
    <3>1. HandsBack(work[v]) /\ work'[v] = work[v]
      BY <1>13, <2>2 DEF Backed
    <3>2. \A k \in Intents : Charged(k) => intent'[k] = intent[k]
      BY <1>6, <1>9
    <3>3. QED BY <1>9, <3>1, <3>2 DEF HandsBack, Charged, Left
  <2>3. QED BY <2>1, <2>2
<1>18. At("refunded")' => Take' > 0
  BY <1>9 DEF Backed, At, Take, SeenLeft, SeenRow, Visited
<1>19. QED BY <1>14, <1>15, <1>16, <1>17, <1>18 DEF Backed

\* A refund of an intent that was charged: the rest of the argument is about that intent.
LEMMA RefundsBacked ==
  ASSUME IInv, Fits, Backed, AnswersLost = FALSE, UNCHANGED inst,
         NEW n \in Intents, Charged(n), NEW back \in Int, NEW undone \in Amounts,
         intent' = [intent EXCEPT ![n] = [intent[n] EXCEPT !.back = back, !.undone = undone]],
         intent[n].back <= back, back <= intent[n].taken, intent[n].undone <= undone,
         ChargeBacked(n)',
         \A i \in Installments : cancelling'.seen[i] = cancelling.seen[i],
         cancelling'.left = cancelling.left,
         \A i \in Installments : i # intent[n].of =>
           (Refunding(i)' <=> Refunding(i)) /\ (Refunding(i) => Take' = Take),
         Refunding(intent[n].of)' => inst[intent[n].of].pi \in Intents,
         At("refunded")' => Take' > 0,
         \A w \in Workers : /\ MemoryFits(work'[w])
                            /\ work'[w] = work[w] \/ HandsBack(work[w])'
  PROVE  Fits' /\ Backed'
<1>1. /\ intent'[n].of = intent[n].of /\ intent'[n].state = intent[n].state
      /\ intent'[n].taken = intent[n].taken /\ intent'[n].back = back
      /\ intent'[n].undone = undone
      /\ \A k \in Intents : k # n => intent'[k] = intent[k]
  BY DEF IInv, IntentsSound, Succeeded
<1>2. \A k \in Intents : /\ intent'[k].of = intent[k].of /\ (Charged(k)' <=> Charged(k))
                         /\ intent'[k].taken = intent[k].taken
                         /\ intent[k].undone <= intent'[k].undone
  <2>1. \A k \in Intents : intent[k].undone \in Int
    BY DEF IInv, IntentsSound, Succeeded
  <2>2. QED BY <1>1, <2>1 DEF Charged
<1>3. Fits'
  <2>1. IntentFits(intent[n])
    BY DEF Fits
  <2>2. back \in Amounts
    BY <2>1, BoundsAssumption DEF IntentFits, Amounts
  <2>3. ASSUME NEW k \in Intents PROVE IntentFits(intent[k])'
    <3>1. IntentFits(intent[k])
      BY DEF Fits
    <3>2. QED BY <1>1, <2>1, <2>2, <3>1 DEF IntentFits
  <2>4. QED BY <2>3 DEF Fits, RowFits, MemoryFits
<1>4. ASSUME NEW i \in Installments PROVE RowBacked(i)'
  <2>1. RowBacked(i)
    BY DEF Backed
  <2>2. Refunding(i)' => inst[i].pi \in Intents
    BY <2>1 DEF RowBacked
  <2>3. QED BY <1>2, <2>1, <2>2 DEF RowBacked, Charged
<1>5. ASSUME NEW k \in Intents PROVE ChargeBacked(k)'
  <2>1. CASE k = n
    BY <2>1
  <2>2. CASE k # n
    <3>1. ChargeBacked(k) /\ intent'[k] = intent[k]
      BY <1>1, <2>2 DEF Backed
    <3>2. Charged(k) => intent[k].of \in Installments /\ intent[k].of # intent[n].of
      BY <2>2 DEF IInv, ChargedOnce
    <3>3. QED BY <3>1, <3>2 DEF ChargeBacked, Charged
  <2>3. QED BY <2>1, <2>2
<1>6. ASSUME NEW w \in Workers PROVE HandsBack(work[w])'
  <2>1. CASE HandsBack(work[w])'
    BY <2>1
  <2>2. CASE work'[w] = work[w]
    <3>1. HandsBack(work[w])
      BY DEF Backed
    <3>2. \A k \in Intents : intent[k].undone > 0 => intent'[k].undone > 0
      <4>1. \A k \in Intents : intent[k].undone \in Int /\ intent'[k].undone \in Int
        BY <1>1 DEF IInv, IntentsSound, Succeeded, Amounts
      <4>2. QED BY <1>2, <4>1
    <3>3. QED BY <1>2, <2>2, <3>1, <3>2 DEF HandsBack, Left
  <2>3. QED BY <2>1, <2>2
<1>7. QED BY <1>3, <1>4, <1>5, <1>6 DEF Backed

\* What the cancellation takes of the row it visits is a number.
LEMMA TakeNumber ==
  ASSUME IInv, cancelling.todo # <<>> \/ At("refunded")
  PROVE  /\ cancelling.todo # <<>> /\ Visited \in Installments /\ Take \in Int
         /\ Take > 0 => Take <= cancelling.left
<1>1. cancelling.todo # <<>>
  BY DEF At, IInv, CancellingSound
<1>2. Visited \in Installments /\ SeenRow \in Rows
  BY <1>1, CancelMoves
<1>3. SeenLeft \in Int
  BY <1>2 DEF Rows, SeenLeft
<1>4. cancelling.left \in Int
  BY DEF IInv, CancellingSound
<1>5. QED BY <1>1, <1>2, <1>3, <1>4 DEF Take, SmallerOf

\* A refund is recorded that Stripe has made: of the row only the refund and the status
\* change.
LEMMA RecordsBacked ==
  ASSUME IInv, Fits, Backed, AnswersLost = FALSE, UNCHANGED intent,
         NEW i \in Installments, NEW r, inst' = [inst EXCEPT ![i] = r], RowFits(r),
         r.amount = inst[i].amount, r.pi = inst[i].pi, r.pi \in Intents,
         inst[i].refunded <= r.refunded, r.refunded <= intent[r.pi].back,
         \A j \in Installments : cancelling'.seen[j] = cancelling.seen[j],
         cancelling'.left >= 0,
         \A j \in Installments : Refunding(j)' => Refunding(j) /\ j # i /\ Take' = Take,
         At("refunded")' => Take' > 0,
         \A w \in Workers : /\ MemoryFits(work'[w])
                            /\ work'[w] = work[w] \/ HandsBack(work[w])'
  PROVE  Fits' /\ Backed'
<1>1. \A j \in Installments : inst'[j] = IF j = i THEN r ELSE inst[j]
  BY DEF IInv
<1>2. Fits'
  BY <1>1 DEF Fits, RowFits, MemoryFits, IntentFits
<1>3. ASSUME NEW j \in Installments PROVE RowBacked(j)'
  <2>1. RowBacked(j)
    BY DEF Backed
  <2>2. CASE j = i
    BY <1>1, <2>1, <2>2 DEF RowBacked, Charged
  <2>3. CASE j # i
    <3>1. inst'[j] = inst[j]
      BY <1>1, <2>3
    <3>2. QED BY <2>1, <3>1 DEF RowBacked, Charged
  <2>4. QED BY <2>2, <2>3
<1>4. ASSUME NEW n \in Intents PROVE ChargeBacked(n)'
  <2>1. ChargeBacked(n)
    BY DEF Backed
  <2>2. CASE Charged(n) /\ intent[n].of = i
    <3>1. n = r.pi
      <4>1. RowBacked(i)
        BY DEF Backed
      <4>2. QED BY <2>2, <4>1 DEF RowBacked, IInv, ChargedOnce
    <3>2. QED BY <1>1, <2>1, <2>2, <3>1 DEF ChargeBacked, Charged
  <2>3. CASE Charged(n) /\ intent[n].of # i
    <3>1. intent[n].of \in Installments
      BY <2>3, ChargedAmount
    <3>2. inst'[intent[n].of] = inst[intent[n].of]
      BY <1>1, <2>3, <3>1
    <3>3. QED BY <2>1, <3>1, <3>2 DEF ChargeBacked, Charged
  <2>4. CASE ~ Charged(n)
    BY <2>4 DEF ChargeBacked, Charged
  <2>5. QED BY <2>2, <2>3, <2>4
<1>5. ASSUME NEW w \in Workers PROVE HandsBack(work[w])'
  <2>1. CASE HandsBack(work[w])'
    BY <2>1
  <2>2. CASE work'[w] = work[w]
    <3>1. HandsBack(work[w])
      BY DEF Backed
    <3>2. work[w].at = "handBack" => work[w].i \in Installments
      BY DEF IInv, Sound
    <3>3. \A j \in Installments : Left(j)' <= Left(j)
      <4>1. \A j \in Installments : inst[j].amount \in Int /\ inst[j].refunded \in Int
        BY DEF IInv, Rows
      <4>2. r.refunded \in Int
        BY BoundsAssumption DEF RowFits, Amounts
      <4>3. QED BY <1>1, <4>1, <4>2 DEF Left
    <3>4. \A j \in Installments : Left(j) \in Int /\ Left(j)' \in Int
      <4>1. \A j \in Installments : inst[j].amount \in Int /\ inst[j].refunded \in Int
        BY DEF IInv, Rows
      <4>2. r.refunded \in Int
        BY BoundsAssumption DEF RowFits, Amounts
      <4>3. QED BY <1>1, <4>1, <4>2 DEF Left
    <3>5. work[w].amount \in Int
      BY DEF IInv, Handlings
    <3>6. work[w].at = "handBack" => Left(work[w].i)' <= work[w].amount
      <4>1. SUFFICES ASSUME work[w].at = "handBack" PROVE Left(work[w].i)' <= work[w].amount
        OBVIOUS
      <4>2. PICK j \in Installments : j = work[w].i
        BY <3>2, <4>1
      <4>3. Left(j) <= work[w].amount
        BY <3>1, <4>1, <4>2 DEF HandsBack
      <4>4. Left(j)' <= work[w].amount
        BY <3>3, <3>4, <3>5, <4>3
      <4>5. QED BY <2>2, <4>2, <4>4 DEF Left
    <3>7. QED BY <2>2, <3>1, <3>6 DEF HandsBack, Charged, Left
  <2>3. QED BY <2>1, <2>2
<1>6. QED BY <1>2, <1>3, <1>4, <1>5 DEF Backed

\* What is left of a row is never negative.
LEMMA LeftFits ==
  ASSUME IInv, Fits, Backed, NEW i \in Installments
  PROVE  Left(i) \in Amounts
<1>1. RowFits(inst[i]) /\ RowBacked(i)
  BY DEF Fits, Backed
<1>2. inst[i].amount \in 0..MaxAmount /\ inst[i].refunded \in 0..MaxAmount /\ MaxAmount \in Nat
  BY <1>1, BoundsAssumption DEF RowFits, Amounts
<1>3. inst[i].refunded <= inst[i].amount
  <2>1. CASE inst[i].refunded > 0
    <3>1. PICK n \in Intents : n = inst[i].pi /\ Charged(n) /\ intent[n].of = i
      BY <1>1, <2>1 DEF RowBacked
    <3>2. ChargeBacked(n) /\ intent[n] \in Succeeded
      BY DEF Backed, IInv, IntentsSound
    <3>3. QED BY <1>2, <3>1, <3>2 DEF ChargeBacked, Succeeded
  <2>2. CASE ~ inst[i].refunded > 0
    BY <1>2, <2>2
  <2>3. QED BY <2>1, <2>2
<1>4. QED BY <1>2, <1>3 DEF Left, Amounts

\* A handler sees that the booking ended, and what it has to hand back.
LEMMA BackedLooks ==
  ASSUME PlainBooking, IInv, Fits, Backed, AnswersLost = FALSE, NEW w \in Workers,
         UNCHANGED cancelling, LookForUndo(w)
  PROVE  Fits' /\ Backed'
<1>1. work[w].at = "undo"
  BY DEF LookForUndo
<1>2. PICK i \in Installments : /\ i = work[w].i /\ Mine(w) = i /\ Row(w) = inst[i]
                                /\ work[w] \in Handlings /\ MemoryFits(work[w])
  BY <1>1, AtItsRow
<1>3. UNCHANGED <<inst, intent>> /\ MoneyKept
  BY SameMoney DEF LookForUndo
<1>4. CASE NothingToUndo(w)
  BY <1>1, <1>3, <1>4, AfterUndoIsDone, MovesBacked DEF LookForUndo
<1>5. CASE ~ NothingToUndo(w)
  <2>1. PICK p : p = IF inst[i].status = "PAID" THEN "handBack" ELSE "dropHold"
    OBVIOUS
  <2>2. PICK m : m = [work[w] EXCEPT !.at = p, !.n = inst[i].pi, !.amount = Left(i)]
    OBVIOUS
  <2>3. work' = [work EXCEPT ![w] = m]
    BY <1>2, <1>5, <2>1, <2>2 DEF LookForUndo, IInv
  <2>4. m.at = p /\ m.n = inst[i].pi /\ m.amount = Left(i) /\ m.attempts = work[w].attempts /\ m.i = i
    BY <1>2, <2>2 DEF Handlings
  <2>5. Left(i) \in Amounts
    BY LeftFits
  <2>6. MemoryFits(m)
    BY <1>2, <2>4, <2>5 DEF MemoryFits
  <2>7. p = "handBack" => inst[i].status = "PAID" /\ Left(i) > 0
    BY <1>2, <1>5, <2>1, <2>5, BoundsAssumption DEF NothingToUndo, Amounts
  <2>8. RowBacked(i)
    BY DEF Backed
  <2>9. p = "handBack" => Left(i) <= Left(i)
    BY <2>5, BoundsAssumption DEF Amounts
  <2>10. HandsBack(m)
    BY <2>1, <2>4, <2>7, <2>8, <2>9 DEF HandsBack, RowBacked
  <2>11. QED BY <1>3, <2>3, <2>6, <2>10, ThinksBacked
<1>6. QED BY <1>4, <1>5

\* Stripe hands back all that is left, or refuses: what the cancellation has refunded but
\* not recorded makes that too much.
LEMMA BackedHandsBack ==
  ASSUME PlainBooking, IInv, Fits, Backed, AnswersLost = FALSE, NEW w \in Workers,
         UNCHANGED cancelling, HandBack(w)
  PROVE  Fits' /\ Backed'
<1>1. work[w].at = "handBack"
  BY DEF HandBack
<1>2. PICK i \in Installments : /\ i = work[w].i /\ Mine(w) = i /\ inst[i] \in Rows
                                /\ work[w] \in Handlings /\ MemoryFits(work[w])
  BY <1>1, AtItsRow
<1>3. PICK n \in Intents : n = work[w].n /\ Charged(n) /\ intent[n].of = i
  <2>1. HandsBack(work[w])
    BY DEF Backed
  <2>2. QED BY <1>1, <1>2, <2>1 DEF HandsBack
<1>4. PICK a \in Amounts : a = work[w].amount /\ a > 0 /\ Left(i) <= a
  <2>1. HandsBack(work[w])
    BY DEF Backed
  <2>2. QED BY <1>1, <1>2, <2>1 DEF HandsBack, MemoryFits
<1>5. PICK m : m = [work[w] EXCEPT !.at = "recordBack"]
  OBVIOUS
<1>6. m.at = "recordBack" /\ m.n = n /\ m.i = i /\ m.amount = a /\ m.attempts = work[w].attempts
  BY <1>2, <1>3, <1>4, <1>5 DEF Handlings
<1>7. MemoryFits(m)
  BY <1>2, <1>4, <1>6 DEF MemoryFits
<1>8. CASE ~ (~ KeyUsed(i) /\ CanRefund(n, a)) /\ intent[n].undone # a
  <2>1. UNCHANGED <<inst, intent, cancelling>> /\ AfterUndo(w)
    BY <1>2, <1>3, <1>4, <1>8 DEF HandBack
  <2>2. QED BY <1>1, <2>1, AfterUndoIsDone, SameMoney, MovesBacked
<1>9. CASE ~ KeyUsed(i) /\ CanRefund(n, a)
  <2>1. PICK back : back = intent[n].back + a
    OBVIOUS
  <2>2. /\ intent' = [intent EXCEPT ![n] = [intent[n] EXCEPT !.back = back, !.undone = a]]
        /\ Goto(w, "recordBack")
    BY <1>2, <1>3, <1>4, <1>9, <2>1 DEF HandBack, IInv, IntentsSound
  <2>3. ChargeBacked(n) /\ intent[n] \in Succeeded /\ a \in Int /\ IntentFits(intent[n])
    BY <1>4, BoundsAssumption DEF Backed, IInv, IntentsSound, Amounts, Fits
  <2>4. back \in Int /\ intent[n].back <= back /\ back <= intent[n].taken
    BY <1>4, <1>9, <2>1, <2>3 DEF CanRefund, Succeeded
  <2>5. intent[n].undone <= 0
    BY <1>3, <1>9, <2>3 DEF KeyUsed, Succeeded
  <2>6. /\ intent'[n].of = i /\ intent'[n].state = intent[n].state
        /\ intent'[n].taken = intent[n].taken /\ intent'[n].back = back /\ intent'[n].undone = a
    BY <1>3, <2>2, <2>3 DEF Succeeded, IInv, IntentsSound
  <2>7. UNCHANGED <<inst, cancelling>>
    BY DEF HandBack
  <2>8. inst[i].amount = intent[n].taken /\ inst[i].refunded <= intent[n].back
    BY <1>3, <2>3 DEF ChargeBacked
  <2>9. inst[i].refunded \in Int /\ intent[n].taken \in Int /\ intent[n].back \in Int
    BY <1>2, <2>3 DEF Rows, Succeeded
  <2>10. intent[n].taken - inst[i].refunded <= a
    BY <1>4, <2>8 DEF Left
  <2>11. back = intent[n].taken /\ intent[n].back <= inst[i].refunded
    BY <2>1, <2>3, <2>4, <2>8, <2>9, <2>10
  <2>12. ~ Refunding(i)
    <3>1. SUFFICES ASSUME Refunding(i) PROVE FALSE
      OBVIOUS
    <3>2. Take \in Int /\ Take > 0
      BY <3>1, TakeNumber DEF Refunding, Backed
    <3>3. inst[i].refunded + Take <= intent[n].back
      BY <1>3, <2>3, <3>1 DEF ChargeBacked
    <3>4. QED BY <2>9, <2>11, <3>2, <3>3
  <2>13. (\A j \in Installments : Refunding(j)' <=> Refunding(j)) /\ Take' = Take
           /\ (At("refunded")' <=> At("refunded"))
    BY <2>7 DEF Refunding, At, Visited, Take, SeenLeft, SeenRow
  <2>14. ChargeBacked(n)'
    <3>1. inst'[i].refunded <= back
      BY <2>4, <2>7, <2>8, <2>9
    <3>2. back <= intent[n].taken /\ inst'[i].amount = intent[n].taken
      BY <2>4, <2>7, <2>8
    <3>3. ~ Refunding(i)'
      BY <1>2, <2>12, <2>13
    <3>4. QED BY <2>6, <2>11, <3>1, <3>2, <3>3 DEF ChargeBacked
  <2>15. work' = [work EXCEPT ![w] = m]
    BY <1>5, <2>2 DEF Goto, IInv
  <2>16. /\ \A v \in Workers : work'[v] = IF v = w THEN m ELSE work[v]
         /\ \A v \in Workers : MemoryFits(work'[v])
    BY <1>7, <2>15, OtherMemories
  <2>17. HandsBack(m)'
    BY <1>3, <1>4, <1>6, <2>6 DEF HandsBack, Charged
  <2>18. HandsBack(work[w])'
    BY <2>16, <2>17 DEF HandsBack, Charged, Left
  <2>19. \A v \in Workers : /\ MemoryFits(work'[v])
                            /\ work'[v] = work[v] \/ HandsBack(work[v])'
    BY <2>16, <2>18
  <2>20. intent[n].undone <= a
    BY <1>4, <2>3, <2>5 DEF Succeeded
  <2>21. At("refunded")' => Take' > 0
    BY <2>13 DEF Backed
  <2>22. /\ \A j \in Installments : cancelling'.seen[j] = cancelling.seen[j]
         /\ cancelling'.left = cancelling.left
    BY <2>7
  <2>23. /\ \A j \in Installments : j # intent[n].of =>
              (Refunding(j)' <=> Refunding(j)) /\ (Refunding(j) => Take' = Take)
         /\ Refunding(intent[n].of)' => inst[intent[n].of].pi \in Intents
    BY <1>3, <2>6, <2>12, <2>13
  <2>24. intent' = [intent EXCEPT ![n] = [intent[n] EXCEPT !.back = back, !.undone = a]]
    BY <2>2
  <2>25. QED BY <1>3, <1>4, <2>4, <2>7, <2>14, <2>19, <2>20, <2>21, <2>22, <2>23, <2>24, RefundsBacked
<1>10. CASE ~ (~ KeyUsed(i) /\ CanRefund(n, a)) /\ intent[n].undone = a
  <2>1. UNCHANGED <<inst, intent, cancelling>> /\ Goto(w, "recordBack")
    BY <1>2, <1>3, <1>4, <1>10 DEF HandBack
  <2>2. work' = [work EXCEPT ![w] = m]
    BY <1>5, <2>1 DEF Goto, IInv
  <2>3. HandsBack(m)
    BY <1>3, <1>4, <1>6, <1>10 DEF HandsBack
  <2>4. QED BY <1>7, <2>1, <2>2, <2>3, SameMoney, ThinksBacked
<1>11. QED BY <1>8, <1>9, <1>10

\* What was handed back is recorded: all of it, and the cancellation has refunded nothing
\* that it could still record.
LEMMA BackedRecordsBack ==
  ASSUME PlainBooking, IInv, Fits, Backed, AnswersLost = FALSE, NEW w \in Workers,
         UNCHANGED cancelling, RecordHandedBack(w)
  PROVE  Fits' /\ Backed'
<1>1. work[w].at = "recordBack" /\ Done(w) /\ UNCHANGED intent
  BY AfterUndoIsDone DEF RecordHandedBack
<1>2. PICK i \in Installments : /\ i = work[w].i /\ Mine(w) = i /\ inst[i] \in Rows
                                /\ RowFits(inst[i]) /\ Row(w) = inst[i]
  BY <1>1, AtItsRow
<1>3. CASE UNCHANGED inst
  BY <1>1, <1>3, SameMoney, MovesBacked
<1>4. CASE ~ UNCHANGED inst
  <2>1. inst[i].status = "PAID" /\ Left(i) = work[w].amount
    BY <1>2, <1>4 DEF RecordHandedBack
  <2>2. PICK a : a = inst[i].refunded + work[w].amount
    OBVIOUS
  <2>3. PICK r : r = [inst[i] EXCEPT !.status = "REFUNDED", !.refunded = a]
    OBVIOUS
  <2>4. inst' = [inst EXCEPT ![i] = r]
    BY <1>2, <1>4, <2>2, <2>3 DEF RecordHandedBack, IInv
  <2>5. a = inst[i].amount /\ inst[i].refunded <= a
    <3>1. Left(i) \in Amounts /\ inst[i].amount \in Int /\ inst[i].refunded \in Int
      BY <1>2, LeftFits DEF Rows
    <3>2. Left(i) >= 0 /\ Left(i) \in Int
      BY <3>1, BoundsAssumption DEF Amounts
    <3>3. QED BY <2>1, <2>2, <3>1, <3>2 DEF Left
  <2>6. r.refunded = a /\ r.amount = inst[i].amount /\ r.pi = inst[i].pi /\ RowFits(r)
    BY <1>2, <2>3, <2>5 DEF Rows, RowFits
  <2>7. PICK n \in Intents : n = inst[i].pi /\ Charged(n) /\ intent[n].of = i
    <3>1. RowBacked(i)
      BY DEF Backed
    <3>2. QED BY <2>1, <3>1 DEF RowBacked
  <2>8. intent[n].undone > 0
    <3>1. HandsBack(work[w])
      BY DEF Backed
    <3>2. PICK k \in Intents : k = work[w].n /\ Charged(k) /\ intent[k].of = i /\ intent[k].undone > 0
      BY <1>1, <1>2, <3>1 DEF HandsBack
    <3>3. k = n
      BY <2>7, <3>2 DEF IInv, ChargedOnce
    <3>4. QED BY <3>2, <3>3
  <2>9. intent[n].back = intent[n].taken /\ ~ Refunding(i) /\ inst[i].amount = intent[n].taken
    <3>1. ChargeBacked(n)
      BY DEF Backed
    <3>2. QED BY <2>7, <2>8, <3>1 DEF ChargeBacked
  <2>10. intent[n].taken \in Int /\ inst[i].amount \in Int
    BY <1>2 DEF IInv, IntentsSound, Succeeded, Rows
  <2>11. r.refunded <= intent[r.pi].back
    BY <2>5, <2>6, <2>7, <2>9, <2>10
  <2>12. /\ \A j \in Installments : Refunding(j)' => Refunding(j) /\ j # i /\ Take' = Take
         /\ At("refunded")' => Take' > 0
    BY <2>9 DEF Refunding, At, Visited, Take, SeenLeft, SeenRow, Backed
  <2>13. PICK m : m = Idle
    OBVIOUS
  <2>14. work' = [work EXCEPT ![w] = m] /\ MemoryFits(m)
    BY <1>1, <2>13, FreshFits DEF Done
  <2>15. /\ \A v \in Workers : work'[v] = IF v = w THEN m ELSE work[v]
         /\ \A v \in Workers : MemoryFits(work'[v])
    BY <2>14, OtherMemories
  <2>16. HandsBack(work[w])'
    BY <2>13, <2>15 DEF HandsBack, Idle
  <2>17. \A v \in Workers : /\ MemoryFits(work'[v])
                            /\ work'[v] = work[v] \/ HandsBack(work[v])'
    BY <2>15, <2>16
  <2>18. cancelling.left >= 0
    BY DEF Fits
  <2>19. QED BY <1>1, <2>4, <2>5, <2>6, <2>7, <2>11, <2>12, <2>17, <2>18, RecordsBacked
<1>5. QED BY <1>3, <1>4

----------------------------------------------------------------------------
(* The cancellation.                                                       *)

\* It looks, moves on, or calls a row off.
LEMMA BackedTalks ==
  ASSUME IInv, Fits, Backed, AnswersLost = FALSE, UNCHANGED <<work, intent>>, CancellationKept,
         \/ UNCHANGED inst
         \/ /\ cancelling.todo # <<>>
            /\ inst' = [inst EXCEPT ![Visited].status = "CANCELLED"]
  PROVE  Fits' /\ Backed'
<1>1. CASE UNCHANGED inst
  BY <1>1, SameRow, SameMoney, KeepsBacked DEF Fits
<1>2. CASE cancelling.todo # <<>> /\ inst' = [inst EXCEPT ![Visited].status = "CANCELLED"]
  <2>1. PICK i \in Installments : i = Visited /\ inst[i] \in Rows /\ RowFits(inst[i])
    BY <1>2, TakeNumber DEF Fits, IInv
  <2>2. PICK r : r = [inst[i] EXCEPT !.status = "CANCELLED"]
    OBVIOUS
  <2>3. inst' = [inst EXCEPT ![i] = r]
    BY <1>2, <2>1, <2>2 DEF IInv
  <2>4. /\ RowFits(r) /\ r.refunded = inst[i].refunded /\ r.amount = inst[i].amount
        /\ r.pi = inst[i].pi /\ r.status # "PAID"
    BY <2>1, <2>2 DEF Rows, RowFits
  <2>5. QED BY <2>3, <2>4, StatusBacked
<1>3. QED BY <1>1, <1>2

\* Only refunds and their records leave the cancellation with something to record.
LEMMA TalkingCancellation ==
  ASSUME IInv, Fits,
         \/ LoadToCancel \/ SelectOverdue \/ ClearWindow \/ LoadForNonPayment
         \/ ClaimCancellation \/ SetTerms \/ LookForOpen \/ VoidUnpaid \/ VoidNothing
         \/ VoidHold \/ RecordVoidedHold \/ VoidDone \/ ReadForRefund \/ RefundCallsOff
         \/ RefundDropsHold \/ RecordDroppedHold \/ RefundNothing \/ RefundDone
         \/ CrashCancelling
  PROVE  CancellationKept
<1> DEFINE C == [at : CancelPlaces, by : Cancellers, paid : BOOLEAN,
                 seen : [Installments -> Rows], todo : Seq(Installments), left : Int]
<1>1. cancelling \in C /\ cancelling.left >= 0
  BY DEF IInv, CancellingSound, Fits
<1>2. CASE CancelDone
  BY <1>2 DEF CancelDone, NoCancellation, CancellationKept
<1>3. ASSUME NEW p, p # "refunded", CancelGoto(p) \/ NextVisit(p) PROVE CancellationKept
  BY <1>1, <1>3 DEF CancelGoto, NextVisit, CancellationKept
<1>4. CASE LoadToCancel
  <2>1. PICK by, paid : cancelling' = [NoCancellation EXCEPT !.at = "claim", !.by = by, !.paid = paid]
    BY <1>4 DEF LoadToCancel
  <2>2. QED BY <2>1 DEF NoCancellation, CancellationKept
<1>5. CASE SelectOverdue
  <2>1. PICK p \in {"overdue", "load"} :
          cancelling' = [NoCancellation EXCEPT !.by = "SYSTEM", !.at = p]
    BY <1>5 DEF SelectOverdue
  <2>2. QED BY <2>1 DEF NoCancellation, CancellationKept
<1>6. CASE LoadForNonPayment
  <2>1. CASE ~ CancelDone
    <3>1. cancelling' = [cancelling EXCEPT !.at = "claim", !.paid = booking.paid]
      BY <1>6, <2>1 DEF LoadForNonPayment
    <3>2. QED BY <1>1, <3>1 DEF CancellationKept
  <2>2. QED BY <1>2, <2>1
<1>7. CASE SetTerms
  <2>1. MaxTotal \in Int
    <3>1. Cardinality(Installments) \in Nat
      BY FiniteAssumption, FS_CardinalityType
    <3>2. MaxAmount \in Nat
      BY BoundsAssumption
    <3>3. QED BY <3>1, <3>2 DEF MaxTotal
  <2>2. PICK total \in 0..MaxTotal :
          cancelling' = [cancelling EXCEPT !.at = "look", !.left = total]
    BY <1>7 DEF SetTerms
  <2>3. total >= 0
    BY <2>1, <2>2
  <2>4. QED BY <1>1, <2>2, <2>3 DEF CancellationKept
<1>8. CASE LookForOpen \/ ReadForRefund
  <2>1. PICK p \in {"void", "refund"} :
          cancelling' = [cancelling EXCEPT !.at = p, !.seen = inst, !.todo = Newest]
    BY <1>8 DEF LookForOpen, ReadForRefund
  <2>2. QED BY <1>1, <2>1 DEF CancellationKept
<1>9. CASE ClearWindow \/ RefundDone \/ CrashCancelling
  BY <1>2, <1>9 DEF ClearWindow, RefundDone, CrashCancelling
<1>10. CASE ClaimCancellation
  <2>1. CancelDone \/ CancelGoto("terms") \/ CancelGoto("look")
    BY <1>10 DEF ClaimCancellation
  <2>2. QED BY <1>2, <1>3, <2>1
<1>11. CASE VoidDone
  <2>1. CancelDone \/ CancelGoto("refundRead")
    BY <1>11 DEF VoidDone
  <2>2. QED BY <1>2, <1>3, <2>1
<1>12. CASE \/ VoidUnpaid \/ VoidNothing \/ VoidHold \/ RecordVoidedHold \/ RefundCallsOff
            \/ RefundDropsHold \/ RecordDroppedHold \/ RefundNothing
  <2>1. NextVisit("void") \/ NextVisit("refund") \/ CancelGoto("voided") \/ CancelGoto("dropped")
    BY <1>12 DEF VoidUnpaid, VoidNothing, VoidHold, RecordVoidedHold, RefundCallsOff,
                 RefundDropsHold, RecordDroppedHold, RefundNothing
  <2>2. QED BY <1>3, <2>1
<1>13. QED BY <1>4, <1>5, <1>6, <1>7, <1>8, <1>9, <1>10, <1>11, <1>12

\* So the cancellation's steps but the refunds and their records keep rows and charges backed.
LEMMA BackedCancels ==
  ASSUME IInv, Fits, Backed, AnswersLost = FALSE,
         \/ LoadToCancel \/ SelectOverdue \/ ClearWindow \/ LoadForNonPayment
         \/ ClaimCancellation \/ SetTerms \/ LookForOpen \/ VoidUnpaid \/ VoidNothing
         \/ VoidHold \/ RecordVoidedHold \/ VoidDone \/ ReadForRefund \/ RefundCallsOff
         \/ RefundDropsHold \/ RecordDroppedHold \/ RefundNothing \/ RefundDone
         \/ CrashCancelling
  PROVE  Fits' /\ Backed'
<1>1. CancellationKept
  BY TalkingCancellation
<1>2. UNCHANGED work
  BY DEF LoadToCancel, SelectOverdue, ClearWindow, LoadForNonPayment, ClaimCancellation,
         SetTerms, LookForOpen, VoidUnpaid, VoidNothing, VoidHold, RecordVoidedHold, VoidDone,
         ReadForRefund, RefundCallsOff, RefundDropsHold, RecordDroppedHold, RefundNothing,
         RefundDone, CrashCancelling, chargingVars
<1>3. UNCHANGED intent
  BY CancelDoesNothing
     DEF LoadToCancel, SelectOverdue, ClearWindow, LoadForNonPayment, ClaimCancellation,
         SetTerms, LookForOpen, VoidUnpaid, VoidNothing, VoidHold, RecordVoidedHold, VoidDone,
         ReadForRefund, RefundCallsOff, RefundDropsHold, RecordDroppedHold, RefundNothing,
         RefundDone, CrashCancelling, chargingVars
<1>4. \/ UNCHANGED inst
      \/ /\ cancelling.todo # <<>>
         /\ inst' = [inst EXCEPT ![Visited].status = "CANCELLED"]
  <2>1. At("voided") \/ At("dropped") => cancelling.todo # <<>>
    BY DEF At, IInv, CancellingSound
  <2>2. QED BY <2>1
     DEF LoadToCancel, SelectOverdue, ClearWindow, LoadForNonPayment, ClaimCancellation,
         SetTerms, LookForOpen, VoidUnpaid, VoidNothing, VoidHold, RecordVoidedHold, VoidDone,
         ReadForRefund, RefundCallsOff, RefundDropsHold, RecordDroppedHold, RefundNothing,
         RefundDone, CrashCancelling, chargingVars, CallOffAsSeen
<1>5. QED BY <1>1, <1>2, <1>3, <1>4, BackedTalks

\* Stripe refunds an installment, unless that is more than is left of its charge.
LEMMA BackedRefunds ==
  ASSUME IInv, Fits, Backed, AnswersLost = FALSE, RefundAtStripe
  PROVE  Fits' /\ Backed'
<1>1. At("refund") /\ cancelling.todo # <<>> /\ Take > 0 /\ UNCHANGED <<inst, work>>
  BY DEF RefundAtStripe
<1>2. PICK i \in Installments : i = Visited /\ Take \in Int
  BY <1>1, TakeNumber
<1>3. CASE ~ CanRefund(SeenRow.pi, Take)
  <2>1. UNCHANGED intent /\ CancellationKept
    BY <1>3 DEF RefundAtStripe, CancelDone, NoCancellation, CancellationKept
  <2>2. QED BY <1>1, <2>1, BackedTalks
<1>4. CASE CanRefund(SeenRow.pi, Take)
  <2>1. PICK n \in Intents : n = SeenRow.pi
    BY <1>4 DEF CanRefund
  <2>2. inst[i].pi = n /\ Charged(n) /\ intent[n].of = i
    <3>1. RowBacked(i) /\ SeenRow = cancelling.seen[i]
      BY <1>2 DEF Backed, SeenRow
    <3>2. QED BY <2>1, <3>1 DEF RowBacked
  <2>3. ChargeBacked(n) /\ intent[n] \in Succeeded /\ IntentFits(intent[n])
    BY DEF Backed, IInv, IntentsSound, Fits
  <2>4. PICK back \in Int : back = intent[n].back + Take
    BY <1>2, <2>3 DEF Succeeded
  <2>5. PICK undone \in Amounts : undone = intent[n].undone
    BY <2>3 DEF IntentFits
  <2>6. intent' = [intent EXCEPT ![n] = [intent[n] EXCEPT !.back = back, !.undone = undone]]
    <3>1. intent' = [intent EXCEPT ![n] = [intent[n] EXCEPT !.back = back]]
      BY <1>4, <2>1, <2>4 DEF RefundAtStripe, IInv, IntentsSound
    <3>2. [intent[n] EXCEPT !.back = back] = [intent[n] EXCEPT !.back = back, !.undone = undone]
      BY <2>3, <2>5 DEF Succeeded
    <3>3. QED BY <3>1, <3>2
  <2>7. intent[n].back <= back /\ back <= intent[n].taken
    BY <1>1, <1>2, <1>4, <2>1, <2>3, <2>4 DEF CanRefund, Succeeded
  <2>8. /\ intent'[n].of = i /\ intent'[n].state = intent[n].state
        /\ intent'[n].taken = intent[n].taken /\ intent'[n].back = back
        /\ intent'[n].undone = intent[n].undone
    BY <2>2, <2>3, <2>5, <2>6 DEF Succeeded, IInv, IntentsSound
  <2>9. /\ cancelling'.at = "refunded" /\ cancelling'.todo = cancelling.todo
        /\ cancelling'.seen = cancelling.seen /\ cancelling'.left = cancelling.left
    BY <1>4 DEF RefundAtStripe, CancelGoto, IInv, CancellingSound
  <2>10. Visited' = Visited /\ Take' = Take
    BY <2>9 DEF Visited, Take, SeenLeft, SeenRow
  <2>11. \A j \in Installments : (Refunding(j)' <=> j = i) /\ ~ Refunding(j)
    BY <1>1, <1>2, <2>9, <2>10 DEF Refunding, At
  <2>12. ChargeBacked(n)'
    <3>1. /\ inst[i].amount = intent[n].taken /\ inst[i].refunded <= intent[n].back
          /\ intent[n].undone > 0 => intent[n].back = intent[n].taken
      BY <2>2, <2>3 DEF ChargeBacked
    <3>2. /\ inst[i].refunded \in Int /\ intent[n].back \in Int /\ intent[n].taken \in Int
          /\ intent[n].undone \in Int /\ intent[n].undone >= 0
      BY <2>3, BoundsAssumption DEF IInv, Rows, Succeeded, IntentFits, Amounts
    <3>3. inst[i].refunded + Take <= back /\ inst[i].refunded <= back
      BY <1>1, <1>2, <2>4, <3>1, <3>2
    <3>4. intent[n].undone = 0
      BY <1>1, <1>2, <2>4, <2>7, <3>1, <3>2
    <3>5. QED BY <1>1, <2>7, <2>8, <2>10, <3>1, <3>3, <3>4 DEF ChargeBacked
  <2>13. intent[n].undone <= undone
    BY <2>3, <2>5 DEF Succeeded
  <2>14. /\ \A j \in Installments : cancelling'.seen[j] = cancelling.seen[j]
         /\ \A j \in Installments : j # intent[n].of =>
              (Refunding(j)' <=> Refunding(j)) /\ (Refunding(j) => Take' = Take)
         /\ Refunding(intent[n].of)' => inst[intent[n].of].pi \in Intents
         /\ At("refunded")' => Take' > 0
    BY <1>1, <2>2, <2>9, <2>10, <2>11
  <2>15. \A w \in Workers : /\ MemoryFits(work'[w])
                            /\ work'[w] = work[w] \/ HandsBack(work[w])'
    BY <1>1 DEF Fits
  <2>16. QED BY <1>1, <2>2, <2>6, <2>7, <2>9, <2>12, <2>13, <2>14, <2>15, RefundsBacked
<1>5. QED BY <1>3, <1>4

\* The refund is recorded: Stripe has given back that much.
LEMMA BackedRecordsRefund ==
  ASSUME IInv, Fits, Backed, AnswersLost = FALSE, RecordRefund
  PROVE  Fits' /\ Backed'
<1>1. At("refunded") /\ UNCHANGED <<work, intent>>
  BY DEF RecordRefund
<1>2. PICK i \in Installments : /\ i = Visited /\ Take \in Int /\ Take > 0
                                /\ Take <= cancelling.left /\ inst[i] \in Rows /\ RowFits(inst[i])
  BY <1>1, TakeNumber DEF Backed, IInv, Fits
<1>3. Refunding(i)
  BY <1>1, <1>2 DEF Refunding
<1>4. PICK n \in Intents : n = inst[i].pi /\ Charged(n) /\ intent[n].of = i
  <2>1. RowBacked(i)
    BY DEF Backed
  <2>2. QED BY <1>3, <2>1 DEF RowBacked
<1>5. PICK s \in {"REFUNDED", "PAID"} : s = IF Take >= SeenLeft THEN "REFUNDED" ELSE "PAID"
  OBVIOUS
<1>6. PICK a \in Int : a = inst[i].refunded + Take
  BY <1>2 DEF Rows
<1>7. PICK r : r = [inst[i] EXCEPT !.refunded = a, !.status = s]
  OBVIOUS
<1>8. inst' = [inst EXCEPT ![i] = r]
  BY <1>2, <1>5, <1>6, <1>7 DEF RecordRefund, IInv
<1>9. /\ inst[i].refunded <= a /\ a <= intent[n].back /\ a \in Amounts
  <2>1. ChargeBacked(n) /\ IntentFits(intent[n])
    BY DEF Backed, Fits
  <2>2. a <= intent[n].back /\ intent[n].back \in Amounts
    BY <1>3, <1>4, <1>6, <2>1 DEF ChargeBacked, IntentFits
  <2>3. inst[i].refunded \in Amounts
    BY <1>2 DEF RowFits
  <2>4. QED BY <1>2, <1>6, <2>2, <2>3, BoundsAssumption DEF Amounts
<1>10. r.refunded = a /\ r.amount = inst[i].amount /\ r.pi = inst[i].pi /\ RowFits(r)
  BY <1>2, <1>5, <1>7, <1>9 DEF Rows, RowFits
<1>11. /\ cancelling'.at = "refund" /\ cancelling'.seen = cancelling.seen
       /\ cancelling'.left = cancelling.left - Take
  BY DEF RecordRefund, IInv, CancellingSound
<1>12. cancelling'.left >= 0
  BY <1>2, <1>11 DEF IInv, CancellingSound
<1>13. /\ \A j \in Installments : cancelling'.seen[j] = cancelling.seen[j]
       /\ ~ At("refunded")' /\ \A j \in Installments : ~ Refunding(j)'
  BY <1>11 DEF At, Refunding
<1>14. \A w \in Workers : /\ MemoryFits(work'[w])
                          /\ work'[w] = work[w] \/ HandsBack(work[w])'
  BY <1>1 DEF Fits
<1>15. QED BY <1>1, <1>4, <1>8, <1>9, <1>10, <1>12, <1>13, <1>14, RecordsBacked

\* Every step keeps counts within their bounds, and rows, charges and refunds backed.
LEMMA StepBacked ==
  ASSUME PlainBooking, AnswersLost = FALSE, IInv, Ledger, Fits, Backed, [Next]_vars
  PROVE  Fits' /\ Backed'
<1>1. ASSUME NEW w \in Workers, Begin(w), UNCHANGED cancelling PROVE Fits' /\ Backed'
  <2>1. ASSUME NEW i \in Installments, SelectDue(w, i) \/ RetryInstallment(w, i)
        PROVE  Fits' /\ Backed'
    BY <1>1, <2>1, BackedReads
  <2>2. ASSUME NEW i \in Installments, GiveBack(w, i) PROVE Fits' /\ Backed'
    BY <1>1, <2>2, BackedSurroundings
  <2>3. ASSUME NEW n \in Intents, Deliver(w, n) PROVE Fits' /\ Backed'
    BY <1>1, <2>3, BackedElsewhere
  <2>4. CASE Complete(w)
    BY <1>1, <2>4, BackedElsewhere
  <2>5. QED BY <1>1, <2>1, <2>2, <2>3, <2>4 DEF Begin
<1>2. ASSUME NEW w \in Workers, Step(w), UNCHANGED cancelling PROVE Fits' /\ Backed'
  <2>1. CASE FindNothingToCharge(w) \/ FindBookingEnded(w) \/ ReadForCharge(w) \/ ChargeFails(w)
    BY <1>2, <2>1, BackedReads
  <2>2. CASE CallOff(w) \/ RecordDropped(w)
    BY <1>2, <2>2, BackedCallsOff
  <2>3. CASE ClaimAttempt(w) \/ ResetAttempts(w)
    BY <1>2, <2>3, BackedClaims
  <2>4. CASE ChargeSavedCard(w) \/ MarkPaid(w)
    BY <1>2, <2>4, BackedCharges, BackedPays
  <2>5. CASE RecordFailure(w) \/ RecordMissedDeposit(w)
    BY <1>2, <2>5, BackedFails
  <2>6. CASE LookForUndo(w) \/ HandBack(w) \/ RecordHandedBack(w)
    BY <1>2, <2>6, BackedLooks, BackedHandsBack, BackedRecordsBack
  <2>7. CASE \/ StartWindow(w) \/ SaveNewCard(w) \/ Reconcile(w) \/ DropHold(w)
             \/ LookForHold(w)
    BY <1>2, <2>7, BackedElsewhere
  <2>8. QED BY <1>2, <2>1, <2>2, <2>3, <2>4, <2>5, <2>6, <2>7, NoHoldSteps DEF Step
<1>3. ASSUME NEW w \in Workers, Crash(w), UNCHANGED cancelling PROVE Fits' /\ Backed'
  BY <1>3, BackedElsewhere
<1>4. CASE Surroundings /\ UNCHANGED cancelling
  BY <1>4, BackedSurroundings
<1>5. CASE LoadToCancel \/ SelectOverdue \/ CancelStep \/ CrashCancelling
  BY <1>5, BackedCancels, BackedRefunds, BackedRecordsRefund DEF CancelStep
<1>6. CASE UNCHANGED vars
  BY <1>6, BackedTalks DEF vars, CancellationKept
<1>7. QED BY <1>1, <1>2, <1>3, <1>4, <1>5, <1>6 DEF Next

\* So every row, handler, intent and refund stays within the type the runs check: no
\* attempt beyond the limit, no refund of more than was charged, nothing negative left.
LEMMA BackedTypes ==
  ASSUME IInv, Fits PROVE TypeOK
<1>1. ASSUME NEW row \in Rows, RowFits(row) PROVE row \in InstallmentRows
  BY <1>1 DEF Rows, RowFits, InstallmentRows
<1>2. inst \in [Installments -> InstallmentRows]
  BY <1>1 DEF IInv, Fits
<1>3. work \in [Workers -> Memories]
  <2>1. ASSUME NEW w \in Workers PROVE work[w] \in Memories
    <3>1. work[w] \in Handlings /\ MemoryFits(work[w])
      BY DEF IInv, Fits
    <3>2. QED BY <3>1 DEF Handlings, MemoryFits, Memories, IntentStatus
  <2>2. QED BY <2>1 DEF IInv
<1>4. intent \in [Intents -> IntentRecords(Amounts)]
  <2>1. ASSUME NEW n \in Intents PROVE intent[n] \in IntentRecords(Amounts)
    <3>1. intent[n] \in Succeeded /\ IntentFits(intent[n])
      BY DEF IInv, IntentsSound, Fits
    <3>2. QED BY <3>1 DEF Succeeded, IntentFits, IntentRecords, IntentStatus
  <2>2. QED BY <2>1 DEF IInv, IntentsSound
<1>5. cancelling \in Cancellations
  <2>1. cancelling.seen \in [Installments -> InstallmentRows]
    <3>1. cancelling.seen \in [Installments -> Rows]
      BY DEF IInv, CancellingSound
    <3>2. QED BY <1>1, <3>1 DEF Fits
  <2>2. cancelling.left \in Nat
    BY DEF IInv, CancellingSound, Fits
  <2>3. QED BY <2>1, <2>2 DEF IInv, CancellingSound, Cancellations
<1>6. QED BY <1>2, <1>3, <1>4, <1>5 DEF TypeOK, ChargingTypeOK, IInv

\* Rows, charges and refunds agree at every moment, before a cancellation and after it.
LEMMA BackedHolds ==
  ASSUME PlainBooking, AnswersLost = FALSE PROVE Spec => [](IInv /\ Ledger /\ Fits /\ Backed)
<1>1. Init => IInv /\ Ledger /\ Fits /\ Backed
  BY InitIInv, InitLedger, InitBacked
<1>2. IInv /\ Ledger /\ Fits /\ Backed /\ [Next]_vars => (IInv /\ Ledger /\ Fits /\ Backed)'
  BY StepIInv, StepLedger, StepBacked
<1>3. QED BY <1>1, <1>2, PTL DEF Spec

\* The types the runs check, their numbers included: attempts up to the limit, and no row,
\* refund or memory of a handler beyond what was to pay (claim, recordFailure, giveBack's update,
\* refundParts, undoIfBookingEnded).
THEOREM TypesHold ==
  ASSUME PlainBooking, AnswersLost = FALSE PROVE Spec => []TypeOK
<1>1. IInv /\ Fits => TypeOK
  BY BackedTypes
<1>2. QED BY <1>1, BackedHolds, PTL

\* A row never shows more refunded than Stripe gave back, and Stripe never gives back more
\* than it took.
RefundsAreReal ==
  \A n \in Intents : Charged(n) =>
    inst[intent[n].of].refunded <= intent[n].back /\ intent[n].back <= intent[n].taken

\* So it is however a late charge, its hand-back, its event and a cancellation's refund race,
\* also where the server stops between a refund and its record (refundParts, undoIfBookingEnded).
THEOREM RefundsAreRealHolds ==
  ASSUME PlainBooking, AnswersLost = FALSE PROVE Spec => []RefundsAreReal
<1>1. Backed => RefundsAreReal
  BY DEF Backed, ChargeBacked, RefundsAreReal
<1>2. QED BY <1>1, BackedHolds, PTL

\* What was charged stays charged for its installment.
LEMMA ChargesStay ==
  ASSUME IInv, [Next]_vars
  PROVE  \A n \in Intents : Charged(n) => Charged(n)' /\ intent'[n].of = intent[n].of
<1> DEFINE Stays == \A n \in Intents : Charged(n) => Charged(n)' /\ intent'[n].of = intent[n].of
<1>1. CASE UNCHANGED intent
  BY <1>1 DEF Charged
<1>2. ASSUME NEW n, NEW record, intent' = [intent EXCEPT ![n] = record],
             n \in Intents /\ Charged(n) =>
               record.state = "succeeded" /\ record.of = intent[n].of
      PROVE  Stays
  BY <1>2 DEF IInv, IntentsSound, Charged
<1>3. ASSUME NEW w \in Workers, Begin(w) \/ Step(w) \/ Crash(w), ~ UNCHANGED intent PROVE Stays
  <2>1. CASE ChargeSavedCard(w)
    <3>1. PICK n, record :
            intent[n].state = "unused" /\ intent' = [intent EXCEPT ![n] = record]
      BY <2>1 DEF ChargeSavedCard
    <3>2. QED BY <1>2, <3>1 DEF Charged
  <2>2. CASE HandBack(w)
    <3>1. PICK a, b : intent' = [intent EXCEPT ![work[w].n] =
                                   [intent[work[w].n] EXCEPT !.back = a, !.undone = b]]
      BY <1>3, <2>2 DEF HandBack, IInv, IntentsSound
    <3>2. PICK record : record = [intent[work[w].n] EXCEPT !.back = a, !.undone = b]
      OBVIOUS
    <3>3. work[w].n \in Intents /\ Charged(work[w].n) =>
            record.state = "succeeded" /\ record.of = intent[work[w].n].of
      BY <3>2 DEF IInv, IntentsSound, Succeeded, Charged
    <3>4. QED BY <1>2, <3>1, <3>2, <3>3
  <2>3. CASE Crash(w) \/ \E n \in Intents : Deliver(w, n)
    <3>1. PICK n, news : intent' = [intent EXCEPT ![n] = [intent[n] EXCEPT !.news = news]]
      <4>1. ASSUME NEW n \in Intents, Deliver(w, n)
            PROVE  \E news : intent' = [intent EXCEPT ![n] = [intent[n] EXCEPT !.news = news]]
        <5>1. PICK e : intent' = [intent EXCEPT ![n] = [intent[n] EXCEPT !.news = intent[n].news \ {e}]]
          BY <4>1 DEF Deliver, IInv, IntentsSound
        <5>2. QED BY <5>1
      <4>2. CASE Crash(w)
        <5>1. intent' = [intent EXCEPT ![work[w].from] =
                 [intent[work[w].from] EXCEPT !.news = intent[work[w].from].news \cup {work[w].event}]]
          BY <1>3, <4>2 DEF Crash, IInv, IntentsSound
        <5>2. QED BY <5>1
      <4>3. QED BY <2>3, <4>1, <4>2
    <3>2. PICK record : record = [intent[n] EXCEPT !.news = news]
      OBVIOUS
    <3>3. n \in Intents /\ Charged(n) => record.state = "succeeded" /\ record.of = intent[n].of
      BY <3>2 DEF IInv, IntentsSound, Succeeded, Charged
    <3>4. QED BY <1>2, <3>1, <3>2, <3>3
  <2>4. CASE Step(w)
    BY <1>3, <2>1, <2>2, <2>4, NoHoldSteps, CancelDoesNothing
       DEF Step, FindNothingToCharge, FindBookingEnded, ReadForCharge, CallOff, ClaimAttempt,
           ChargeFails, MarkPaid, LookForUndo, RecordHandedBack, DropHold, RecordDropped,
           LookForHold, RecordFailure, StartWindow, RecordMissedDeposit, SaveNewCard,
           ResetAttempts, Reconcile
  <2>5. CASE Begin(w)
    BY <1>3, <2>3, <2>5 DEF Begin, SelectDue, RetryInstallment, GiveBack, Complete
  <2>6. QED BY <1>3, <2>3, <2>4, <2>5
<1>4. CASE Surroundings
  BY <1>1, <1>4, CancelDoesNothing
     DEF Surroundings, DueDatePasses, RetryDatePasses, HoldExpires, DeadlinePasses
<1>5. CASE RefundAtStripe /\ ~ UNCHANGED intent
  <2>1. PICK a : intent' = [intent EXCEPT ![SeenRow.pi] = [intent[SeenRow.pi] EXCEPT !.back = a]]
    BY <1>5 DEF RefundAtStripe, IInv, IntentsSound
  <2>2. PICK record : record = [intent[SeenRow.pi] EXCEPT !.back = a]
    OBVIOUS
  <2>3. SeenRow.pi \in Intents /\ Charged(SeenRow.pi) =>
          record.state = "succeeded" /\ record.of = intent[SeenRow.pi].of
    BY <2>2 DEF IInv, IntentsSound, Succeeded, Charged
  <2>4. QED BY <1>2, <2>1, <2>2, <2>3
<1>6. CASE (LoadToCancel \/ SelectOverdue \/ CancelStep \/ CrashCancelling) /\ ~ RefundAtStripe
  <2>1. UNCHANGED intent
    BY <1>6, CancelDoesNothing
       DEF CancelStep, LoadToCancel, SelectOverdue, ClearWindow, LoadForNonPayment,
           ClaimCancellation, SetTerms, LookForOpen, VoidUnpaid, VoidNothing, VoidHold,
           RecordVoidedHold, VoidDone, ReadForRefund, RefundCallsOff, RefundDropsHold,
           RecordDroppedHold, RefundNothing, RecordRefund, RefundDone, CrashCancelling,
           chargingVars
  <2>2. QED BY <1>1, <2>1
<1>7. CASE UNCHANGED vars
  BY <1>1, <1>7 DEF vars
<1>8. QED BY <1>1, <1>3, <1>4, <1>5, <1>6, <1>7 DEF Next

\* A recorded payment never turns back into a failed or a scheduled one, also while the
\* cancellation of its booking races it: a row that is PAID was charged, and nobody is left
\* who may open it (recordFailure and retryInstallment, which do). Lost answers are what
\* the run collection_lost_answer refutes it with.
THEOREM PaidStays ==
  ASSUME PlainBooking, AnswersLost = FALSE PROVE Spec => PaidNeverFails
<1>1. ASSUME IInv, IInv', Backed, [Next]_vars
      PROVE  [\A i \in Installments :
                inst[i].status = "PAID" => inst'[i].status \notin {"FAILED", "SCHEDULED"}]_vars
  <2> SUFFICES ASSUME NEW i \in Installments, inst[i].status = "PAID"
               PROVE  inst'[i].status \notin {"FAILED", "SCHEDULED"}
    OBVIOUS
  <2>1. PICK n \in Intents : Charged(n) /\ intent[n].of = i
    <3>1. RowBacked(i)
      BY <1>1 DEF Backed
    <3>2. QED BY <3>1 DEF RowBacked
  <2>2. Charged(n)' /\ intent'[n].of = i
    BY <1>1, <2>1, ChargesStay
  <2>3. ~ Open(i)'
    BY <1>1, <2>2 DEF IInv, ChargedOnce
  <2>4. QED BY <2>3 DEF Open, OpenStatus
<1>2. QED BY <1>1, BackedHolds, PTL DEF Spec, PaidNeverFails
=============================================================================
