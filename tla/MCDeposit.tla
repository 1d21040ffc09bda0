------------------------------ MODULE MCDeposit ------------------------------
(* A payment after the service or, in a rental, a security deposit; and an  *)
(* add-on.                                                                   *)
EXTENDS Deposit, TLC

CONSTANTS i1, i2

MCInstallments == {i1, i2}
MCNewest == <<i2, i1>>
MCDueKind == (i1 :> "none" @@ i2 :> "none")
MCHolds == {i1}

\* Every charge is due from the start.  Of a rental only the deposit is followed:
\* its own charge was called off, or paid and given back.
Due(amount) == [FreshRow EXCEPT !.due = TRUE, !.amount = amount]
CalledOff == [Due(0) EXCEPT !.status = "CANCELLED"]

MCInit ==
  /\ booking \in [status : {"ON"}, by : {"nobody"}, window : {"none"}, kind : {"none"},
                  paid : BOOLEAN, card : {CardSaved}, rental : MayBeRental, settling : {FALSE}]
  /\ booking.paid => booking.rental
  /\ inst = IF booking.rental THEN (i1 :> Due(MaxAmount) @@ i2 :> CalledOff)
                               ELSE (i1 :> Due(1) @@ i2 :> Due(1))
  /\ work = [w \in Workers |-> Idle]
  /\ StripeInit
  /\ cancelling = NoCancellation
  /\ return = NoReturn

MCSpec == MCInit /\ [][DepositNext]_depositVars

Symmetric == Permutations(Workers) \cup Permutations(Intents)
=============================================================================
