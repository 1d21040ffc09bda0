----------------------------- MODULE MCContracts -----------------------------
(* Small instances of Contracts.                                            *)
EXTENDS Contracts
=============================================================================
