---------------------------- MODULE MCMoneyLock ----------------------------
(* Three calls on one booking, a lease of three ticks, a wait of one: long *)
(* enough for a lease to outlive a waiting call and short enough for it to *)
(* run out under a holder that is still working.                           *)
EXTENDS MoneyLock
=============================================================================
