------------------------------- MODULE MCFork -------------------------------
(* Instances of Fork. *)
EXTENDS Fork

NoMsg == [type |-> "none", source |-> ANY, PID |-> 0, RETVAL |-> 0]
MCProc == Tasks \cup Entry
=============================================================================
