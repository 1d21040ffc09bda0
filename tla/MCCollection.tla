---------------------------- MODULE MCCollection ----------------------------
(* Instances of Collection: one charge, which is all of the price or its   *)
(* deposit; and, for crashes, also a card hold beside a paid add-on while  *)
(* the booking is being cancelled.                                         *)
EXTENDS Collection, TLC

CONSTANTS i1, i2, i3

\* One charge of a full-payment plan; a deposit.
OneInstallment == {i1}
OneNewest == <<i1>>
FullPayment == [i \in {i1} |-> "none"]
DepositOnly == [i \in {i1} |-> "deposit"]
Nothing == {}

\* A deposit i1; or a payment after the service i2 and an add-on i3.
TwoPlans == {i1, i2, i3}
TwoPlansNewest == <<i3, i2, i1>>
TwoPlansDueKind == (i1 :> "deposit" @@ i2 :> "none" @@ i3 :> "none")
TwoPlansHolds == {i2}

\* What the other plan would have.
NotPlanned == [FreshRow EXCEPT !.status = "CANCELLED", !.amount = 0, !.due = TRUE]

Booked == [status |-> "ON", by |-> "nobody", window |-> "none", kind |-> "none",
           paid |-> FALSE, card |-> CardSaved, rental |-> FALSE, settling |-> FALSE]

DepositPlan ==
  /\ inst = (i1 :> FreshRow @@ i2 :> NotPlanned @@ i3 :> NotPlanned)
  /\ booking = Booked
  /\ work = [w \in Workers |-> Idle]
  /\ StripeInit
  /\ cancelling = NoCancellation

\* The hold is on its way while the cancellation of the booking, loaded with
\* its add-on paid, has just been claimed.
FirstAttempt(amount) ==
  [FreshRow EXCEPT !.attempts = 1, !.amount = amount, !.due = TRUE]
CancelledWhileHolding ==
  \E w \in Workers, n \in Intents, by \in Requesters :
    /\ inst = (i1 :> NotPlanned
            @@ i2 :> [FirstAttempt(1) EXCEPT !.status = "PROCESSING"]
            @@ i3 :> [FirstAttempt(1) EXCEPT !.status = "PAID", !.pi = n, !.rows = 1])
    /\ booking = [Booked EXCEPT !.status = "CANCELLED", !.by = by, !.paid = TRUE]
    /\ work = [v \in Workers |-> IF v # w THEN Idle ELSE
                [Idle EXCEPT !.at = "call", !.i = i2, !.attempts = 1, !.amount = 1,
                             !.on = TRUE, !.hold = TRUE]]
    /\ intent = [m \in Intents |-> IF m # n THEN Unused
                                   ELSE [Created(i3, 1, "succeeded") EXCEPT !.news = {}]]
    /\ cancelling = [NoCancellation EXCEPT !.at = "terms", !.by = by, !.paid = TRUE]

TwoPlansSpec == (DepositPlan \/ CancelledWhileHolding) /\ [][Next]_vars

Symmetric == Permutations(Workers) \cup Permutations(Intents)
=============================================================================
