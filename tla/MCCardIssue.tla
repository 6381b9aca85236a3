---------------------------- MODULE MCCardIssue ----------------------------
(* Small instances of CardIssue for TLC.                                   *)
EXTENDS CardIssue, TLC

Symmetric == Permutations(Sessions) \cup Permutations(Orders) \cup Permutations(Batches)
=============================================================================
