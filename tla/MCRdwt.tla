------------------------------- MODULE MCRdwt -------------------------------
(* Instances of Rdwt: a few short sectors, a buffer smaller than the file. *)
EXTENDS Rdwt
=============================================================================
