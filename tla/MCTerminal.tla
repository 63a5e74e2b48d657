---------------------------- MODULE MCTerminal ----------------------------
(* Instances of Terminal. *)
EXTENDS Terminal

NoMsg == [type |-> "none", source |-> ANY, DEVICE |-> 0, CNT |-> 0, PROC_NR |-> ANY]
=============================================================================
