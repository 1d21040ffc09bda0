------------------------------ MODULE MCWallet ------------------------------
(* Two withdrawals that together exceed the balance, and a deposit. *)
EXTENDS Wallet

CONSTANTS w1, w2, d1

MCWithdrawals == {w1, w2}
MCAmount == [r \in {w1, w2, d1} |-> 20]
MCChanges == {-20, 20}
=============================================================================
