------------------------------ MODULE MCDocking ------------------------------
(* Small instances of Docking for TLC.                                     *)
EXTENDS Docking, TLC

Symmetric == Permutations(Sessions) \cup Permutations(Orders)
=============================================================================
