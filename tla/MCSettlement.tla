---------------------------- MODULE MCSettlement ----------------------------
(* Small instances of Settlement: a deposit and what comes after it. *)
EXTENDS Settlement, TLC

CONSTANTS deposit, balance, Amount, FeeOf

MCInstallments == {deposit, balance}
MCSequence == (deposit :> 1) @@ (balance :> 2)
MCPrice == [i \in MCInstallments |-> Amount]
\* A vendor who owes Vendly, or does not.
Debts == {0, -60}
MCFee == [i \in MCInstallments |-> FeeOf]
=============================================================================
