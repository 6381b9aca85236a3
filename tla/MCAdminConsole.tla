--------------------------- MODULE MCAdminConsole ---------------------------
(* A small instance of AdminConsole for TLC.                               *)
EXTENDS AdminConsole
=============================================================================
