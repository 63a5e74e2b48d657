------------------------------ MODULE MCSched ------------------------------
(* Two tasks, of which an interrupt can wake the first, and two users. *)
EXTENDS Sched

TwoTasksTwoUsers == <<3, 3, 1, 1>>
=============================================================================
