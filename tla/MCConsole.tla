----------------------------- MODULE MCConsole -----------------------------
(* Instances of Console: a few short rows, the last one incomplete. *)
EXTENDS Console
=============================================================================
