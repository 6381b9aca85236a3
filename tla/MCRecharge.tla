----------------------------- MODULE MCRecharge -----------------------------
(* A small instance of Recharge for TLC.                                   *)
EXTENDS Recharge, TLC

Symmetric == Permutations(Sessions) \cup Permutations(Orders)
             \cup Permutations(Reviewers) \cup Permutations(Recharges)
=============================================================================
