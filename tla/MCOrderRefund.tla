---------------------------- MODULE MCOrderRefund ----------------------------
(* Small instances of OrderRefund for TLC.                                 *)
EXTENDS OrderRefund, TLC

Symmetric == Permutations(Sessions) \cup Permutations(Orders)
             \cup Permutations(Refunds) \cup Permutations(Keys)
=============================================================================
