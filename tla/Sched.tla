------------------------------- MODULE Sched -------------------------------
(***************************************************************************)
(* The scheduler: schedule() in kernel/proc.c and clock_handler in         *)
(* kernel/clock.c.  A process has ticks left to run; the clock takes them  *)
(* from the running process, schedule() picks the ready process with the   *)
(* most, and refills the ready processes when none of them has any.        *)
(*                                                                         *)
(* Who blocks and wakes whom is up to the message passing (module Ipc);    *)
(* here a system call may wake any process and may block its caller.       *)
(* schedule() is one step: that a clock interrupt in the middle of its     *)
(* scan charges the candidate found so far is left out.                    *)
(***************************************************************************)
EXTENDS Integers, FiniteSets, FiniteSetsExt

CONSTANTS N,         \* number of used entries of proc_table
          priority,  \* priority[p], also the ticks of a refill
          Informed   \* the tasks that interrupt handlers wake with inform_int

Proc == 1 .. N

ASSUME SchedAssumption ==
    /\ N \in Nat \ {0}
    /\ priority \in [Proc -> Nat \ {0}]
    /\ Informed \subseteq Proc

VARIABLES ticks,        \* p->ticks
          blocked,      \* the processes with p_flags # 0
          p_proc_ready, \* the process that runs
          mode,         \* "user"; "call": in a system call (k_reenter = 0
                        \* there, 1 in a handler that interrupts it);
                        \* "sched": in block(), the caller is blocked
          waited        \* history: ticks charged to others since the process
                        \* last ran or was blocked
vars == <<ticks, blocked, p_proc_ready, mode, waited>>

TypeOK ==
    /\ ticks \in [Proc -> Nat]
    /\ \A p \in Proc : ticks[p] <= priority[p]
    /\ blocked \subseteq Proc
    /\ p_proc_ready \in Proc
    /\ mode \in {"user", "call", "sched"}
    /\ waited \in [Proc -> Nat]

Ready == Proc \ blocked

Init ==
    /\ ticks = priority
    /\ blocked = {}
    /\ p_proc_ready = 1
    /\ mode = "user"
    /\ waited = [p \in Proc |-> 0]

-----------------------------------------------------------------------------
(* Mutant: the scan does not look at p_flags. *)
Choice_Blocked(t) ==
    CHOOSE p \in Proc : \A q \in Proc : t[q] < t[p] \/ (t[q] = t[p] /\ p <= q)

(* The first in the table among the ready processes with the most ticks. *)
Choice(t) ==
    CHOOSE p \in Ready : \A q \in Ready : t[q] < t[p] \/ (t[q] = t[p] /\ p <= q)

(* Mutant: the refill stops at the first ready process. *)
Refilled_First(t) ==
    IF \A p \in Ready : t[p] = 0
    THEN LET f == CHOOSE p \in Ready : \A q \in Ready : p <= q
         IN  [t EXCEPT ![f] = priority[f]]
    ELSE t

(* The ticks after the refill, which happens when the ready have none left. *)
Refilled(t) ==
    IF \A p \in Ready : t[p] = 0
    THEN [p \in Proc |-> IF p \in Ready THEN priority[p] ELSE t[p]]
    ELSE t

(* schedule() with ticks t; without a ready process it spins. *)
schedule(t) ==
    /\ Ready # {}
    /\ ticks' = Refilled(t)
    /\ p_proc_ready' = Choice(Refilled(t))

(* The ticks after the clock has charged the running process. *)
Charged == [ticks EXCEPT ![p_proc_ready] = IF @ > 0 THEN @ - 1 ELSE 0]

(* The history: q runs next, and n ticks were charged to p_proc_ready. *)
Waits(n, q, b) ==
    waited' = [p \in Proc |-> IF p \in b \cup {q, p_proc_ready} THEN 0
                                                             ELSE waited[p] + n]
Cost == ticks[p_proc_ready] - Charged[p_proc_ready]

(* Mutant: the clock never preempts. *)
ClockUser_NoPreemption ==
    /\ mode = "user"
    /\ ticks' = Charged
    /\ UNCHANGED <<p_proc_ready, blocked, mode>>
    /\ Waits(Cost, p_proc_ready, blocked)

(* clock_handler in user mode: k_reenter = 0. *)
ClockUser ==
    /\ mode = "user"
    /\ IF Charged[p_proc_ready] > 0
       THEN ticks' = Charged /\ UNCHANGED p_proc_ready
       ELSE schedule(Charged)
    /\ UNCHANGED <<blocked, mode>>
    /\ Waits(Cost, p_proc_ready', blocked)

(* clock_handler inside a system call: k_reenter # 0, it only charges. *)
ClockKernel ==
    /\ mode # "user"
    /\ ticks' = Charged
    /\ UNCHANGED <<p_proc_ready, blocked, mode>>
    /\ Waits(Cost, p_proc_ready, blocked)

Trap ==
    /\ mode = "user"
    /\ mode' = "call"
    /\ UNCHANGED <<ticks, blocked, p_proc_ready, waited>>

(* msg_send or msg_receive makes another process ready. *)
CallUnblocks(q) ==
    /\ mode = "call"
    /\ q \in blocked
    /\ blocked' = blocked \ {q}
    /\ UNCHANGED <<ticks, p_proc_ready, mode, waited>>

CallReturns ==
    /\ mode = "call"
    /\ mode' = "user"
    /\ UNCHANGED <<ticks, blocked, p_proc_ready, waited>>

(* The caller blocks itself; block() goes on to schedule(). *)
CallBlocks ==
    /\ mode = "call"
    /\ blocked' = blocked \cup {p_proc_ready}
    /\ mode' = "sched"
    /\ UNCHANGED <<ticks, p_proc_ready, waited>>

BlockSchedules ==
    /\ mode = "sched"
    /\ schedule(ticks)
    /\ mode' = "user"
    /\ UNCHANGED blocked
    /\ Waits(0, p_proc_ready', blocked)

(* inform_int in an interrupt handler, at any time. *)
InterruptWakes(q) ==
    /\ q \in blocked \cap Informed
    /\ blocked' = blocked \ {q}
    /\ UNCHANGED <<ticks, p_proc_ready, mode, waited>>

Next ==
    \/ ClockUser \/ ClockKernel
    \/ Trap \/ CallReturns \/ CallBlocks \/ BlockSchedules
    \/ \E q \in Proc : CallUnblocks(q) \/ InterruptWakes(q)

(***************************************************************************)
(* The code of a system call runs to its end, and the clock does not       *)
(* always strike inside one: it ticks 100 times a second, a call is a few  *)
(* hundred instructions, and most of the time is spent in user mode.       *)
(***************************************************************************)
Fairness ==
    /\ WF_vars(CallReturns \/ CallBlocks)
    /\ WF_vars(BlockSchedules)
    /\ SF_vars(ClockUser)

Spec == Init /\ [][Next]_vars /\ Fairness

-----------------------------------------------------------------------------
(***************************************************************************)
(* The process that restart() resumes is never a blocked one: schedule()   *)
(* picks among the ready, and nobody blocks another process.               *)
(***************************************************************************)
RunningIsReady == mode = "user" => p_proc_ready \in Ready

SumPriority(S) == MapThenSumSet(LAMBDA p : priority[p], S)

(***************************************************************************)
(* A ready process waits for at most two rounds of the others: the ticks   *)
(* they still have and the ticks of one refill, which it shares in.        *)
(***************************************************************************)
BoundedWait ==
    \A p \in Proc : waited[p] <= 2 * SumPriority(Proc \ {p})

(***************************************************************************)
(* No starvation: a ready process runs, or is ready no more, eventually.   *)
(***************************************************************************)
NoStarvation ==
    \A p \in Proc : p \in Ready ~> (p_proc_ready = p \/ p \in blocked)
=============================================================================
