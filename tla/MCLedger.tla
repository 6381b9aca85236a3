------------------------------ MODULE MCLedger ------------------------------
(* Small instances of Ledger for TLC.                                      *)
EXTENDS Ledger, TLC

MCAmounts == {0, 1, 2}

Symmetric == Permutations(Sessions) \cup Permutations(Users)
=============================================================================
