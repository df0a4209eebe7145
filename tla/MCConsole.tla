----------------------------- MODULE MCConsole ------------------------------
(* Console on a screen of 3 lines of 4 cells with a tab stop every 2. *)
EXTENDS Console

=============================================================================
