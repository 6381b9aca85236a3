------------------------------ MODULE MCNotify ------------------------------
(* A small instance of Notify for TLC.                                     *)
EXTENDS Notify
=============================================================================
