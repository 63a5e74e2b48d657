---------------------------- MODULE KernelProofs ----------------------------
(***************************************************************************)
(* Proofs about the two parts of the kernel that share no state.           *)
(*                                                                         *)
(* About Sched, for any number of processes and any priorities: the type   *)
(* invariant, that the process which runs is ready, and the bound on the   *)
(* ticks that a ready process waits.                                       *)
(*                                                                         *)
(* About Console, for every size of the screen and of the consoles: the    *)
(* screen stays in the console's memory whoever prints; the cursor does,   *)
(* and out_char can always scroll, as long as nobody prints in the middle  *)
(* of an out_char of task_tty.                                             *)
(***************************************************************************)
EXTENDS Sched, Console, SetFacts, TLAPS

-----------------------------------------------------------------------------
(* The scan of schedule() *)

Best(t, S, p) == \A q \in S : t[q] < t[p] \/ (t[q] = t[p] /\ p <= q)

(* The loop of schedule() over the table finds a process to run whenever    *)
(* one is ready: among any processes there is a first one with the most     *)
(* ticks.  The proof looks at a smallest set without one.                   *)
LEMMA BestExists ==
    ASSUME NEW t \in [Proc -> Nat], NEW S, S \subseteq Proc, S # {}
    PROVE  \E p \in S : Best(t, S, p)
<1> DEFINE Bad == {T \in SUBSET Proc : T # {} /\ ~ \E p \in T : Best(t, T, p)}
<1>1. SUFFICES ASSUME Bad # {} PROVE FALSE
  OBVIOUS
<1>2. IsFiniteSet(Proc)
  BY FS_Interval, SchedAssumption DEF Proc
<1>4. PICK T \in Bad : \A y \in T : T \ {y} \notin Bad
  <2>1. Bad \subseteq SUBSET Proc
    OBVIOUS
  <2> HIDE DEF Bad
  <2> QED
    BY <1>1, <1>2, <2>1, LeastSubset
<1>5. PICK x : x \in T
  OBVIOUS
<1>6. T \ {x} \notin Bad
  BY <1>4, <1>5
<1>7. \A p \in Proc : p \in Nat /\ t[p] \in Nat
  BY SchedAssumption DEF Proc
<1>8. CASE T = {x}
  <2>1. Best(t, T, x)
    BY <1>5, <1>7, <1>8 DEF Best
  <2> QED
    BY <2>1, <1>5
<1>9. CASE T # {x}
  <2>1. PICK p \in T \ {x} : Best(t, T \ {x}, p)
    BY <1>5, <1>6, <1>9
  <2>2. CASE t[x] < t[p] \/ (t[x] = t[p] /\ p <= x)
    <3>1. Best(t, T, p)
      BY <2>1, <2>2 DEF Best
    <3> QED
      BY <3>1, <2>1
  <2>3. CASE ~(t[x] < t[p] \/ (t[x] = t[p] /\ p <= x))
    <3>1. p \in Nat /\ x \in Nat /\ t[p] \in Nat /\ t[x] \in Nat
      BY <1>7, <1>5, <2>1
    <3>2. ASSUME NEW q \in T
          PROVE  t[q] < t[x] \/ (t[q] = t[x] /\ x <= q)
      <4>1. q \in Nat /\ t[q] \in Nat
        BY <1>7
      <4>2. CASE q = x
        BY <4>2, <3>1
      <4>3. CASE q # x
        <5>1. t[q] < t[p] \/ (t[q] = t[p] /\ p <= q)
          BY <4>3, <2>1 DEF Best
        <5> QED
          BY <5>1, <4>1, <3>1, <2>3
      <4> QED
        BY <4>2, <4>3
    <3>3. Best(t, T, x)
      BY <3>2 DEF Best
    <3> QED
      BY <3>3, <1>5
  <2> QED
    BY <2>2, <2>3
<1> QED
  BY <1>8, <1>9

(* schedule() gives the processor to a ready process.                       *)
LEMMA ChoiceIsReady ==
    ASSUME NEW t \in [Proc -> Nat], Ready # {}
    PROVE  Choice(t) \in Ready
<1>1. \E p \in Ready : \A q \in Ready : t[q] < t[p] \/ (t[q] = t[p] /\ p <= q)
  BY BestExists, Zenon DEF Best, Ready
<1> QED
  BY <1>1, Zenon DEF Choice

(* The refill leaves no process more ticks than its priority.               *)
LEMMA RefilledType ==
    ASSUME NEW t \in [Proc -> Nat], \A p \in Proc : t[p] <= priority[p]
    PROVE  /\ Refilled(t) \in [Proc -> Nat]
           /\ \A p \in Proc : Refilled(t)[p] <= priority[p]
BY SchedAssumption DEF Refilled

(* The charge of the clock keeps the ticks in their range.                  *)
LEMMA ChargedType ==
    ASSUME TypeOK
    PROVE  /\ Charged \in [Proc -> Nat]
           /\ \A p \in Proc : Charged[p] <= priority[p]
           /\ Cost \in Nat
<1>1. ticks \in [Proc -> Nat] /\ p_proc_ready \in Proc
      /\ \A p \in Proc : ticks[p] <= priority[p] /\ priority[p] \in Nat
  BY SchedAssumption DEF TypeOK
<1>2. Charged \in [Proc -> Nat]
  BY <1>1 DEF Charged
<1>3. ASSUME NEW p \in Proc PROVE Charged[p] <= ticks[p] /\ Charged[p] \in Nat
  BY <1>1 DEF Charged
<1>4. \A p \in Proc : Charged[p] <= priority[p]
  BY <1>1, <1>3
<1>5. Cost \in Nat
  BY <1>1, <1>3 DEF Cost
<1> QED
  BY <1>2, <1>4, <1>5

-----------------------------------------------------------------------------
(***************************************************************************)
(* RunningIsReady is not inductive: a step of a system call takes the mode *)
(* back to "user".  The process that makes the call is ready too, until it *)
(* blocks itself and block() goes on to schedule().                        *)
(***************************************************************************)
CallerIsReady == mode \in {"user", "call"} => p_proc_ready \in Ready

IInv == TypeOK /\ CallerIsReady

LEMMA WaitsType ==
    ASSUME TypeOK, NEW n \in Nat, NEW q, NEW b, Waits(n, q, b)
    PROVE  waited' \in [Proc -> Nat]
BY DEF TypeOK, Waits

LEMMA ScheduleType ==
    ASSUME NEW t \in [Proc -> Nat], \A p \in Proc : t[p] <= priority[p], schedule(t)
    PROVE  /\ ticks' \in [Proc -> Nat]
           /\ \A p \in Proc : ticks'[p] <= priority[p]
           /\ p_proc_ready' \in Ready
BY RefilledType, ChoiceIsReady DEF schedule

LEMMA IInvInit == Init => IInv
BY SchedAssumption DEF Init, IInv, TypeOK, CallerIsReady, Ready, Proc

LEMMA IInvStep == IInv /\ [Next]_vars => IInv'
<1> SUFFICES ASSUME IInv, [Next]_vars PROVE IInv'
  OBVIOUS
<1>0. TypeOK /\ CallerIsReady
  BY DEF IInv
<1>1. CASE ClockUser
  <2>0. mode = "user" /\ mode' = mode /\ blocked' = blocked
    BY <1>1 DEF ClockUser
  <2>1. waited' \in [Proc -> Nat]
    BY <1>0, <1>1, WaitsType, ChargedType DEF ClockUser
  <2>2. CASE Charged[p_proc_ready] > 0
    BY <2>0, <2>1, <2>2, <1>0, <1>1, ChargedType
    DEF ClockUser, IInv, TypeOK, CallerIsReady, Ready
  <2>3. CASE ~(Charged[p_proc_ready] > 0)
    <3>1. schedule(Charged)
      BY <2>3, <1>1 DEF ClockUser
    <3>2. /\ ticks' \in [Proc -> Nat]
          /\ \A p \in Proc : ticks'[p] <= priority[p]
          /\ p_proc_ready' \in Ready
      BY <3>1, <1>0, ChargedType, ScheduleType
    <3> QED
      BY <2>0, <2>1, <3>2, <1>0 DEF IInv, TypeOK, CallerIsReady, Ready
  <2> QED
    BY <2>2, <2>3
<1>2. CASE ClockKernel
  <2>1. waited' \in [Proc -> Nat]
    BY <1>0, <1>2, WaitsType, ChargedType DEF ClockKernel
  <2> QED
    BY <2>1, <1>0, <1>2, ChargedType
    DEF ClockKernel, IInv, TypeOK, CallerIsReady, Ready
<1>3. CASE Trap
  BY <1>0, <1>3 DEF Trap, IInv, TypeOK, CallerIsReady, Ready
<1>4. CASE CallReturns
  BY <1>0, <1>4 DEF CallReturns, IInv, TypeOK, CallerIsReady, Ready
<1>5. CASE CallBlocks
  BY <1>0, <1>5 DEF CallBlocks, IInv, TypeOK, CallerIsReady, Ready
<1>6. CASE BlockSchedules
  <2>1. waited' \in [Proc -> Nat]
    BY <1>0, <1>6, WaitsType DEF BlockSchedules
  <2>2. /\ ticks' \in [Proc -> Nat]
        /\ \A p \in Proc : ticks'[p] <= priority[p]
        /\ p_proc_ready' \in Ready
    BY <1>0, <1>6, ScheduleType DEF BlockSchedules, TypeOK
  <2> QED
    BY <2>1, <2>2, <1>0, <1>6 DEF BlockSchedules, IInv, TypeOK, CallerIsReady, Ready
<1>7. ASSUME NEW q \in Proc, CallUnblocks(q) \/ InterruptWakes(q)
      PROVE  IInv'
  BY <1>0, <1>7
  DEF CallUnblocks, InterruptWakes, IInv, TypeOK, CallerIsReady, Ready
<1>8. CASE UNCHANGED vars
  BY <1>0, <1>8 DEF vars, IInv, TypeOK, CallerIsReady, Ready
<1> QED
  BY <1>1, <1>2, <1>3, <1>4, <1>5, <1>6, <1>7, <1>8 DEF Next

(* Ticks and choices have their types, and a process that calls is ready.   *)
THEOREM Invariant == Spec => []IInv
BY IInvInit, IInvStep, PTL DEF Spec

(* The ticks of a process stay between 0 and its priority, and schedule()   *)
(* always hands the processor to an entry of the table.                     *)
THEOREM TypeCorrect == Spec => []TypeOK
BY Invariant, PTL DEF IInv

(* The process that restart() resumes in user mode is never a blocked one,  *)
(* whatever system calls and interrupt handlers block and wake.             *)
THEOREM RunningReady == Spec => []RunningIsReady
<1>1. IInv => RunningIsReady
  BY DEF IInv, CallerIsReady, RunningIsReady
<1> QED
  BY <1>1, Invariant, PTL

-----------------------------------------------------------------------------
(***************************************************************************)
(* BoundedWait is not inductive: the ticks that the others still have can  *)
(* all be charged before a ready process runs.  So these are counted with  *)
(* the ticks it has waited already.  Together they are at most one round   *)
(* (the priorities of the others) while the process has no ticks; a refill *)
(* adds a round, but gives the process ticks, so that there is no second   *)
(* refill before it has run.                                               *)
(***************************************************************************)
RoundsLeft ==
    \A p \in Proc :
        LET round == SumOf(priority, Proc \ {p})
        IN  /\ p \in blocked \cup {p_proc_ready} => waited[p] = 0
            /\ waited[p] + SumOf(ticks, Proc \ {p}) <=
                  IF ticks[p] = 0 THEN round ELSE 2 * round

(* The processes other than p are finitely many.                            *)
LEMMA OthersFinite ==
    ASSUME NEW p
    PROVE  IsFiniteSet(Proc \ {p})
<1>1. IsFiniteSet(Proc)
  BY FS_Interval, SchedAssumption DEF Proc
<1> QED
  BY <1>1, FS_RemoveElement

(* The others never have more ticks left than one round of refills.         *)
LEMMA OneRound ==
    ASSUME NEW t \in [Proc -> Nat], \A q \in Proc : t[q] <= priority[q], NEW p \in Proc
    PROVE  /\ SumOf(t, Proc \ {p}) \in Nat
           /\ SumOf(priority, Proc \ {p}) \in Nat
           /\ SumOf(t, Proc \ {p}) <= SumOf(priority, Proc \ {p})
<1>1. IsFiniteSet(Proc \ {p})
  BY OthersFinite
<1>2. \A q \in Proc \ {p} : t[q] \in Nat /\ priority[q] \in Nat /\ t[q] <= priority[q]
  BY SchedAssumption
<1> QED
  BY <1>1, <1>2, SumType, SumMonotone

(* What the clock charges to the running process is taken from the ticks of *)
(* the processes other than p.                                              *)
LEMMA ChargeMoves ==
    ASSUME TypeOK, NEW p \in Proc, p # p_proc_ready
    PROVE  Cost + SumOf(Charged, Proc \ {p}) = SumOf(ticks, Proc \ {p})
<1> DEFINE S == Proc \ {p}
           r == p_proc_ready
<1>1. ticks \in [Proc -> Nat] /\ Charged \in [Proc -> Nat] /\ Cost \in Nat
  BY ChargedType DEF TypeOK
<1>2. r \in S
  BY DEF TypeOK
<1>3. IsFiniteSet(S) /\ IsFiniteSet(S \ {r})
  BY OthersFinite, FS_Subset
<1>4. \A q \in S : ticks[q] \in Nat /\ Charged[q] \in Nat
  BY <1>1
<1>5. \A q \in S \ {r} : Charged[q] = ticks[q]
  BY <1>1 DEF Charged
<1>6. SumOf(ticks, S) = ticks[r] + SumOf(ticks, S \ {r})
  <2> HIDE DEF S, r
  <2> QED
    BY <1>2, <1>3, <1>4, SumRemove
<1>7. SumOf(Charged, S) = Charged[r] + SumOf(Charged, S \ {r})
  <2> HIDE DEF S, r
  <2> QED
    BY <1>2, <1>3, <1>4, SumRemove
<1>8. SumOf(ticks, S \ {r}) = SumOf(Charged, S \ {r})
  <2> HIDE DEF S, r
  <2> QED
    BY <1>3, <1>4, <1>5, SumEqual
<1>9. SumOf(ticks, S \ {r}) \in Nat
  <2> HIDE DEF S, r
  <2> QED
    BY <1>3, <1>4, SumType
<1>10. Cost = ticks[r] - Charged[r] /\ ticks[r] \in Nat /\ Charged[r] \in Nat
  BY <1>2, <1>4 DEF Cost
<1> HIDE DEF S, r
<1>11. Cost + SumOf(Charged, S) = SumOf(ticks, S)
  BY <1>6, <1>7, <1>8, <1>9, <1>10
<1> QED
  BY <1>11 DEF S

(* What the invariant says of one process, in the next state, when it waits *)
(* there and waited before: the bound of the sum before, t the ticks the    *)
(* clock left, refilled or not.                                             *)
LEMMA WaiterStep ==
    ASSUME IInv, RoundsLeft, NEW p \in Proc, p \in Ready, p # p_proc_ready,
           NEW n \in Nat, NEW t \in [Proc -> Nat],
           \A q \in Proc : t[q] <= priority[q],
           t[p] = ticks[p],
           n + SumOf(t, Proc \ {p}) = SumOf(ticks, Proc \ {p}),
           ticks' = t \/ ticks' = Refilled(t),
           waited'[p] = waited[p] + n
    PROVE  LET round == SumOf(priority, Proc \ {p})
           IN  waited'[p] + SumOf(ticks', Proc \ {p}) <=
                   IF ticks'[p] = 0 THEN round ELSE 2 * round
<1> DEFINE round == SumOf(priority, Proc \ {p})
           left == SumOf(t, Proc \ {p})
<1>1. left \in Nat /\ round \in Nat /\ left <= round
  BY OneRound
<1>2. waited[p] \in Nat /\ priority[p] \in Nat \ {0}
  BY SchedAssumption DEF IInv, TypeOK
<1>3. waited[p] + (n + left) <= IF ticks[p] = 0 THEN round ELSE 2 * round
  BY DEF RoundsLeft
<1>4. CASE ticks' = t
  <2> HIDE DEF round, left
  <2>1. waited'[p] + left <= IF t[p] = 0 THEN round ELSE 2 * round
    BY <1>1, <1>2, <1>3
  <2> QED
    BY <1>4, <2>1 DEF round, left
<1>5. CASE ticks' = Refilled(t) /\ \A q \in Ready : t[q] = 0
  <2>1. ticks'[p] = priority[p]
    BY <1>5 DEF Refilled
  <2>2. ticks' \in [Proc -> Nat] /\ \A q \in Proc : ticks'[q] <= priority[q]
    BY <1>5, RefilledType
  <2> DEFINE next == SumOf(ticks', Proc \ {p})
  <2>3. next \in Nat /\ next <= round
    BY <2>2, OneRound
  <2>4. waited[p] + (n + left) <= round
    BY <1>3, <1>5
  <2> HIDE DEF round, left, next
  <2>5. waited'[p] + next <= 2 * round
    BY <1>1, <1>2, <2>3, <2>4
  <2> QED
    BY <1>2, <2>1, <2>5 DEF round, next
<1>6. CASE ticks' = Refilled(t) /\ ~ \A q \in Ready : t[q] = 0
  BY <1>4, <1>6 DEF Refilled
<1> QED
  BY <1>4, <1>5, <1>6

(* The same of a process that has not waited: one that is blocked or runs.  *)
LEMMA NoWaiterStep ==
    ASSUME TypeOK', NEW p \in Proc, waited'[p] = 0
    PROVE  LET round == SumOf(priority, Proc \ {p})
           IN  waited'[p] + SumOf(ticks', Proc \ {p}) <=
                   IF ticks'[p] = 0 THEN round ELSE 2 * round
<1> DEFINE round == SumOf(priority, Proc \ {p})
           next == SumOf(ticks', Proc \ {p})
<1>1. next \in Nat /\ round \in Nat /\ next <= round
  BY OneRound DEF TypeOK
<1> HIDE DEF round, next
<1>2. 0 + next <= IF ticks'[p] = 0 THEN round ELSE 2 * round
  BY <1>1
<1> QED
  BY <1>2 DEF round, next

LEMMA RoundsInit == Init => RoundsLeft
<1> SUFFICES ASSUME Init, NEW p \in Proc
             PROVE  LET round == SumOf(priority, Proc \ {p})
                    IN  /\ p \in blocked \cup {p_proc_ready} => waited[p] = 0
                        /\ waited[p] + SumOf(ticks, Proc \ {p}) <=
                              IF ticks[p] = 0 THEN round ELSE 2 * round
  BY DEF RoundsLeft
<1>1. ticks = priority /\ waited[p] = 0 /\ priority[p] # 0
  BY SchedAssumption DEF Init
<1> DEFINE round == SumOf(priority, Proc \ {p})
<1>2. round \in Nat
  BY OneRound, SchedAssumption
<1> HIDE DEF round
<1>3. 0 + round <= 2 * round
  BY <1>2
<1> QED
  BY <1>1, <1>3 DEF round

(* The steps of the clock and of schedule(), which charge n ticks, leave t  *)
(* and write the history; the other steps change neither.                   *)
LEMMA RoundsCharge ==
    ASSUME IInv, TypeOK', RoundsLeft,
           NEW n \in Nat, NEW t \in [Proc -> Nat],
           \A q \in Proc : t[q] <= priority[q],
           \A q \in Proc : q # p_proc_ready => t[q] = ticks[q],
           \A q \in Proc : q # p_proc_ready =>
               n + SumOf(t, Proc \ {q}) = SumOf(ticks, Proc \ {q}),
           ticks' = t \/ ticks' = Refilled(t),
           blocked' = blocked,
           Waits(n, p_proc_ready', blocked)
    PROVE  RoundsLeft'
<1> SUFFICES ASSUME NEW p \in Proc
             PROVE  LET round == SumOf(priority, Proc \ {p})
                    IN  /\ p \in blocked' \cup {p_proc_ready'} => waited'[p] = 0
                        /\ waited'[p] + SumOf(ticks', Proc \ {p}) <=
                              IF ticks'[p] = 0 THEN round ELSE 2 * round
  BY DEF RoundsLeft
<1>1. waited'[p] = IF p \in blocked \cup {p_proc_ready', p_proc_ready}
                   THEN 0 ELSE waited[p] + n
  BY DEF Waits
<1>2. CASE p \in blocked \cup {p_proc_ready', p_proc_ready}
  BY <1>1, <1>2, NoWaiterStep
<1>3. CASE p \notin blocked \cup {p_proc_ready', p_proc_ready}
  <2>1. p \in Ready /\ p # p_proc_ready /\ waited'[p] = waited[p] + n
    BY <1>1, <1>3 DEF Ready
  <2>2. LET round == SumOf(priority, Proc \ {p})
        IN  waited'[p] + SumOf(ticks', Proc \ {p}) <=
              IF ticks'[p] = 0 THEN round ELSE 2 * round
    BY <2>1, WaiterStep
  <2> QED
    BY <2>2, <1>3
<1> QED
  BY <1>2, <1>3

LEMMA RoundsStep == IInv /\ IInv' /\ RoundsLeft /\ [Next]_vars => RoundsLeft'
<1> SUFFICES ASSUME IInv, IInv', RoundsLeft, [Next]_vars PROVE RoundsLeft'
  OBVIOUS
<1>0. TypeOK /\ TypeOK' /\ ticks \in [Proc -> Nat] /\ Charged \in [Proc -> Nat]
      /\ Cost \in Nat /\ \A q \in Proc : Charged[q] <= priority[q]
  BY ChargedType DEF IInv, TypeOK
<1>1. /\ \A q \in Proc : q # p_proc_ready => Charged[q] = ticks[q]
      /\ \A q \in Proc : q # p_proc_ready =>
            Cost + SumOf(Charged, Proc \ {q}) = SumOf(ticks, Proc \ {q})
  BY <1>0, ChargeMoves DEF Charged
<1>2. CASE ClockUser
  <2>1. ticks' = Charged \/ ticks' = Refilled(Charged)
    BY <1>2 DEF ClockUser, schedule
  <2>2. blocked' = blocked /\ Waits(Cost, p_proc_ready', blocked)
    BY <1>2 DEF ClockUser
  <2> QED
    BY <1>0, <1>1, <2>1, <2>2, RoundsCharge
<1>3. CASE ClockKernel
  <2>1. ticks' = Charged /\ blocked' = blocked /\ Waits(Cost, p_proc_ready', blocked)
    BY <1>3 DEF ClockKernel
  <2> QED
    BY <1>0, <1>1, <2>1, RoundsCharge
<1>4. CASE BlockSchedules
  <2>1. ticks' = Refilled(ticks) /\ blocked' = blocked /\ Waits(0, p_proc_ready', blocked)
    BY <1>4 DEF BlockSchedules, schedule
  <2>2. \A q \in Proc : 0 + SumOf(ticks, Proc \ {q}) = SumOf(ticks, Proc \ {q})
    BY <1>0, OneRound DEF TypeOK
  <2>3. \A q \in Proc : ticks[q] <= priority[q]
    BY <1>0 DEF TypeOK
  <2> QED
    BY <1>0, <2>1, <2>2, <2>3, RoundsCharge
<1>5. CASE /\ UNCHANGED <<ticks, p_proc_ready, waited>>
           /\ blocked' \subseteq blocked \cup {p_proc_ready}
  BY <1>5 DEF RoundsLeft
<1>6. CASE Trap \/ CallReturns \/ CallBlocks
  BY <1>5, <1>6 DEF Trap, CallReturns, CallBlocks
<1>7. ASSUME NEW q \in Proc, CallUnblocks(q) \/ InterruptWakes(q)
      PROVE  RoundsLeft'
  BY <1>5, <1>7 DEF CallUnblocks, InterruptWakes
<1>8. CASE UNCHANGED vars
  BY <1>5, <1>8 DEF vars
<1> QED
  BY <1>2, <1>3, <1>4, <1>6, <1>7, <1>8 DEF Next

(* A ready process waits for at most two rounds of the others' priorities,  *)
(* however many processes there are: nobody is passed over twice.           *)
THEOREM WaitIsBounded == Spec => []BoundedWait
<1>1. IInv /\ RoundsLeft => BoundedWait
  <2> SUFFICES ASSUME IInv, RoundsLeft, NEW p \in Proc
               PROVE  waited[p] <= 2 * SumPriority(Proc \ {p})
    BY DEF BoundedWait
  <2> DEFINE round == SumOf(priority, Proc \ {p})
             left == SumOf(ticks, Proc \ {p})
  <2>1. left \in Nat /\ round \in Nat /\ waited[p] \in Nat
    BY OneRound DEF IInv, TypeOK
  <2>2. waited[p] + left <= IF ticks[p] = 0 THEN round ELSE 2 * round
    BY DEF RoundsLeft
  <2>3. SumPriority(Proc \ {p}) = round
    BY DEF SumPriority, SumOf
  <2> HIDE DEF round, left
  <2> QED
    BY <2>1, <2>2, <2>3
<1>2. Init => RoundsLeft
  BY RoundsInit
<1>3. IInv /\ IInv' /\ RoundsLeft /\ [Next]_vars => RoundsLeft'
  BY RoundsStep
<1> QED
  BY <1>1, <1>2, <1>3, Invariant, PTL DEF Spec

-----------------------------------------------------------------------------
(* Arithmetic *)

(* What \div and % are, for a divisor that is a variable. *)
LEMMA DivMod ==
    ASSUME NEW a \in Nat, NEW w \in Nat \ {0}
    PROVE  /\ a \div w \in Nat
           /\ a % w \in 0 .. w - 1
           /\ a = w * (a \div w) + (a % w)
  BY SMT

(* A multiple of w between 0 and w - 1 is 0. *)
LEMMA SmallMultiple ==
    ASSUME NEW w \in Nat \ {0}, NEW d \in Int, w * d \in 0 .. w - 1
    PROVE  w * d = 0
  <1>1. CASE d <= -1
    <2>1. w * d <= w * (-1)
      BY <1>1
    <2> QED
      BY <2>1
  <1>2. CASE d >= 1
    <2>1. w * d >= w * 1
      BY <1>2
    <2> QED
      BY <2>1
  <1>3. CASE d = 0
    BY <1>3
  <1> QED
    BY <1>1, <1>2, <1>3

LEMMA MultipleMod ==
    ASSUME NEW k \in Nat, NEW w \in Nat \ {0}
    PROVE  (w * k) % w = 0
  <1> DEFINE a == w * k
             q == a \div w
  <1>1. a \in Nat
    OBVIOUS
  <1>2. q \in Nat /\ a % w \in 0 .. w - 1 /\ a = w * q + (a % w)
    BY <1>1, DivMod
  <1> HIDE DEF q
  <1>3. w * (k - q) = w * k - w * q
    BY <1>2
  <1>4. a % w = w * (k - q)
    BY <1>2, <1>3
  <1> HIDE DEF a
  <1>5. k - q \in Int
    BY <1>2
  <1>6. w * (k - q) = 0
    BY <1>2, <1>4, <1>5, SmallMultiple
  <1> QED
    BY <1>4, <1>6 DEF a

LEMMA ModMultiple ==
    ASSUME NEW a \in Nat, NEW w \in Nat \ {0}, a % w = 0
    PROVE  \E k \in Nat : a = w * k
  <1> WITNESS a \div w \in Nat
  <1> QED
    BY DivMod

(* One row further, and one row back from a row that is not the first. *)
LEMMA RowDown ==
    ASSUME NEW a \in Nat, NEW w \in Nat \ {0}, a % w = 0
    PROVE  (a + w) % w = 0
  <1>1. PICK k \in Nat : a = w * k
    BY ModMultiple
  <1>2. a + w = w * (k + 1)
    BY <1>1
  <1>3. k + 1 \in Nat
    OBVIOUS
  <1> QED
    BY <1>2, <1>3, MultipleMod

LEMMA RowUp ==
    ASSUME NEW a \in Nat, NEW w \in Nat \ {0}, a % w = 0, a > 0
    PROVE  a - w \in Nat /\ (a - w) % w = 0
  <1>1. PICK k \in Nat : a = w * k
    BY ModMultiple
  <1>2. k # 0
    BY <1>1
  <1>3. k - 1 \in Nat
    BY <1>2
  <1>4. a - w = w * (k - 1)
    BY <1>1
  <1>5. w * (k - 1) \in Nat
    BY <1>3
  <1> QED
    BY <1>3, <1>4, <1>5, MultipleMod

(* The start of the next row is at most a row away. *)
LEMMA NextRow ==
    ASSUME NEW a \in Nat
    PROVE  /\ SCREEN_WIDTH * (Row(a) + 1) \in Nat
           /\ SCREEN_WIDTH * (Row(a) + 1) <= a + SCREEN_WIDTH
  <1> DEFINE q == Row(a)
  <1>1. SCREEN_WIDTH \in Nat \ {0}
    BY ConsoleAssumption
  <1>2. /\ q \in Nat
        /\ SCREEN_WIDTH * q <= a
    BY <1>1, DivMod DEF Row
  <1> HIDE DEF q
  <1>3. SCREEN_WIDTH * (q + 1) = SCREEN_WIDTH * q + SCREEN_WIDTH
    BY <1>1, <1>2
  <1>4. SCREEN_WIDTH * q \in Nat
    BY <1>1, <1>2
  <1> QED
    BY <1>1, <1>2, <1>3, <1>4 DEF q

-----------------------------------------------------------------------------
(* The inductive invariant *)

(* Only one context is in out_char. *)
Alone == pc["tty"] = "idle" \/ pc["kernel"] = "idle"

(* What the conditions at console.c:55 and 79 found still holds when the    *)
(* cursor moves.                                                            *)
RoomLeft ==
    \A x \in Context : /\ pc[x] = "newline" => HasRoom(con[x], SCREEN_WIDTH)
                       /\ pc[x] = "put" => HasRoom(con[x], 1)

(* The screen lags behind only while the current console is written to. *)
ScreenLags ==
    (\A x \in Context : pc[x] # "idle" => con[x] # nr_current_console) =>
        crtc = [cursor |-> cursor[nr_current_console],
                start  |-> current_start_addr[nr_current_console]]

Undisturbed == Alone /\ RoomLeft /\ CursorInConsole /\ ScreenLags

ConsoleIInv == ConsoleTypeOK /\ WindowInConsole /\ (~Concurrent => Undisturbed)

(* The types and the window at the start. *)
LEMMA ConsoleInitIInv == ConsoleInit => ConsoleIInv
  <1> SUFFICES ASSUME ConsoleInit PROVE ConsoleIInv
    OBVIOUS
  <1> USE ConsoleAssumption
  <1>1. 0 \in Console
    BY DEF Console
  <1>2. 0 % SCREEN_WIDTH = 0
    <2>1. SCREEN_WIDTH * 0 = 0
      OBVIOUS
    <2> QED
      BY <2>1, MultipleMod
  <1>3. ConsoleTypeOK
    BY <1>1 DEF ConsoleInit, ConsoleTypeOK, Context
  <1>4. WindowInConsole
    BY <1>2 DEF ConsoleInit, WindowInConsole
  <1>5. Undisturbed
    <2>1. \A c \in Console : cursor[c] \in 0 .. SCREEN_SIZE - 1
      BY DEF ConsoleInit
    <2>2. CursorInConsole
      BY <2>1 DEF CursorInConsole
    <2>3. Alone /\ RoomLeft
      BY DEF ConsoleInit, Alone, RoomLeft, Context
    <2>4. ScreenLags
      BY <1>1 DEF ConsoleInit, ScreenLags
    <2> QED
      BY <2>2, <2>3, <2>4 DEF Undisturbed
  <1> QED
    BY <1>3, <1>4, <1>5 DEF ConsoleIInv

(* scroll_screen moves the start by a row and stays in the console. *)
LEMMA ScrollStart ==
    ASSUME ConsoleTypeOK, WindowInConsole, NEW c \in Console,
           NEW s \in {Down(c), Up(c)}
    PROVE  /\ s \in Nat
           /\ s % SCREEN_WIDTH = 0
           /\ s + SCREEN_SIZE < v_mem_limit + SCREEN_WIDTH
  <1> USE ConsoleAssumption
  <1> DEFINE a == current_start_addr[c]
  <1>1. a \in Nat /\ a % SCREEN_WIDTH = 0 /\ a + SCREEN_SIZE < v_mem_limit + SCREEN_WIDTH
    BY DEF ConsoleTypeOK, WindowInConsole
  <1>2. CASE s = a
    BY <1>1, <1>2
  <1>3. CASE s = a + SCREEN_WIDTH /\ CanScroll(c)
    BY <1>1, <1>3, RowDown DEF CanScroll
  <1>4. CASE s = a - SCREEN_WIDTH /\ a > 0
    <2>1. a - SCREEN_WIDTH \in Nat /\ (a - SCREEN_WIDTH) % SCREEN_WIDTH = 0
      BY <1>1, <1>4, RowUp
    <2>2. s \in Nat /\ s % SCREEN_WIDTH = 0
      BY <1>4, <2>1
    <2> HIDE DEF a
    <2>3. s + SCREEN_SIZE < v_mem_limit + SCREEN_WIDTH
      BY <1>1, <1>4
    <2> QED
      BY <2>2, <2>3
  <1>5. s = Down(c) \/ s = Up(c)
    OBVIOUS
  <1>6. CASE s = Down(c)
    BY <1>2, <1>3, <1>6 DEF Down
  <1>7. CASE s = Up(c)
    BY <1>2, <1>4, <1>7 DEF Up
  <1> QED
    BY <1>5, <1>6, <1>7

(* The types and the window hold whoever prints. *)
LEMMA ConsoleStepType ==
    ASSUME ConsoleTypeOK, WindowInConsole, [ConsoleNext]_consoleVars
    PROVE  ConsoleTypeOK' /\ WindowInConsole'
  <1> USE ConsoleAssumption DEF Context
  <1>1. ASSUME NEW x \in Context, NEW c \in Console, OutChar(x, c)
        PROVE  ConsoleTypeOK' /\ WindowInConsole'
    BY <1>1 DEF OutChar, ConsoleTypeOK, WindowInConsole
  <1>2. ASSUME NEW x \in Context, NewlineCheck(x) \/ PutCheck(x)
        PROVE  ConsoleTypeOK' /\ WindowInConsole'
    <2>1. PICK b \in {"newline", "put", "scroll"} : pc' = [pc EXCEPT ![x] = b]
      BY <1>2 DEF NewlineCheck, PutCheck, Goto
    <2>2. UNCHANGED <<cursor, current_start_addr, nr_current_console, crtc, con>>
      BY <1>2 DEF NewlineCheck, PutCheck, Goto
    <2> QED
      BY <2>1, <2>2 DEF ConsoleTypeOK, WindowInConsole
  <1>3. ASSUME NEW x \in Context, Newline(x) \/ Put(x) \/ Backspace(x)
        PROVE  ConsoleTypeOK' /\ WindowInConsole'
    <2>1. con[x] \in Console /\ cursor[con[x]] \in Nat
      BY DEF ConsoleTypeOK
    <2>2. PICK a \in Nat : cursor' = [cursor EXCEPT ![con[x]] = a]
      <3>1. CASE Newline(x)
        <4>1. SCREEN_WIDTH * (Row(cursor[con[x]]) + 1) \in Nat
          BY <2>1, NextRow
        <4>2. cursor' = [cursor EXCEPT ![con[x]] = SCREEN_WIDTH * (Row(cursor[con[x]]) + 1)]
          BY <3>1 DEF Newline
        <4> QED
          BY <4>1, <4>2
      <3>2. CASE Put(x)
        <4>1. cursor[con[x]] + 1 \in Nat
          BY <2>1
        <4>2. cursor' = [cursor EXCEPT ![con[x]] = cursor[con[x]] + 1]
          BY <3>2 DEF Put
        <4> QED
          BY <4>1, <4>2
      <3>3. CASE Backspace(x)
        <4>1. Backspaced(cursor[con[x]]) \subseteq Nat
          BY <2>1 DEF Backspaced
        <4> QED
          BY <3>3, <4>1 DEF Backspace
      <3> QED
        BY <1>3, <3>1, <3>2, <3>3
    <2>3. /\ pc' = [pc EXCEPT ![x] = "scroll"]
          /\ UNCHANGED <<current_start_addr, nr_current_console, crtc, con>>
      BY <1>3 DEF Newline, Put, Backspace, Goto
    <2> QED
      BY <2>1, <2>2, <2>3 DEF ConsoleTypeOK, WindowInConsole
  <1>4. ASSUME NEW c \in Console, NEW s \in {Down(c), Up(c)},
               current_start_addr' = [current_start_addr EXCEPT ![c] = s],
               flush(c, s),
               UNCHANGED <<cursor, nr_current_console, pc, con>>
        PROVE  ConsoleTypeOK' /\ WindowInConsole'
    <2>1. s \in Nat /\ s % SCREEN_WIDTH = 0 /\ s + SCREEN_SIZE < v_mem_limit + SCREEN_WIDTH
      BY <1>4, ScrollStart
    <2>2. cursor[c] \in Nat
      BY DEF ConsoleTypeOK
    <2>3. crtc' \in [cursor : Nat, start : Nat]
      BY <1>4, <2>1, <2>2 DEF flush, ConsoleTypeOK
    <2> QED
      BY <1>4, <2>1, <2>3 DEF ConsoleTypeOK, WindowInConsole
  <1>5. ASSUME NEW x \in Context, ScrollLoop(x)
        PROVE  ConsoleTypeOK' /\ WindowInConsole'
    <2>1. con[x] \in Console
      BY DEF ConsoleTypeOK
    <2> QED
      BY <1>4, <1>5, <2>1 DEF ScrollLoop
  <1>6. ASSUME NEW x \in Context, ScrollDone(x)
        PROVE  ConsoleTypeOK' /\ WindowInConsole'
    BY <1>6 DEF ScrollDone, Goto, ConsoleTypeOK, WindowInConsole
  <1>7. ASSUME NEW x \in Context, OutCharFlush(x)
        PROVE  ConsoleTypeOK' /\ WindowInConsole'
    <2>1. crtc' \in [cursor : Nat, start : Nat]
      BY <1>7 DEF OutCharFlush, flush, ConsoleTypeOK
    <2> QED
      BY <1>7, <2>1 DEF OutCharFlush, Goto, ConsoleTypeOK, WindowInConsole
  <1>8. ASSUME ScrollKey
        PROVE  ConsoleTypeOK' /\ WindowInConsole'
    <2>1. nr_current_console \in Console
      BY DEF ConsoleTypeOK
    <2> QED
      BY <1>4, <1>8, <2>1 DEF ScrollKey
  <1>9. ASSUME NEW c \in Console, select_console(c)
        PROVE  ConsoleTypeOK' /\ WindowInConsole'
    BY <1>9 DEF select_console, ConsoleTypeOK, WindowInConsole
  <1>10. CASE UNCHANGED consoleVars
    BY <1>10 DEF consoleVars, ConsoleTypeOK, WindowInConsole
  <1> QED
    BY <1>1, <1>2, <1>3, <1>5, <1>6, <1>7, <1>8, <1>9, <1>10 DEF ConsoleNext, OutCharStep

(* Without Concurrent, out_char finds what its conditions have found. *)
LEMMA ConsoleStepUndisturbed ==
    ASSUME ConsoleIInv, ~Concurrent, [ConsoleNext]_consoleVars
    PROVE  Undisturbed'
  <1> USE ConsoleAssumption DEF Context
  <1>0. ConsoleTypeOK /\ Alone /\ RoomLeft /\ CursorInConsole /\ ScreenLags
    BY DEF ConsoleIInv, Undisturbed
  <1>1. ASSUME NEW x \in Context, NEW c \in Console, OutChar(x, c)
        PROVE  Undisturbed'
    <2>1. \A y \in Context : pc[y] = "idle"
      BY <1>1 DEF OutChar, MayStart, Runs
    <2>2. /\ pc' = [pc EXCEPT ![x] = "switch"]
          /\ con' = [con EXCEPT ![x] = c]
          /\ UNCHANGED <<cursor, current_start_addr, nr_current_console, crtc>>
      BY <1>1 DEF OutChar
    <2>3. Alone' /\ RoomLeft' /\ CursorInConsole'
      BY <1>0, <2>1, <2>2 DEF ConsoleTypeOK, Alone, RoomLeft, CursorInConsole
    <2>4. ScreenLags'
      BY <1>0, <2>1, <2>2 DEF ConsoleTypeOK, ScreenLags
    <2> QED
      BY <2>3, <2>4 DEF Undisturbed
  <1>2. ASSUME NEW x \in Context, NEW a, At(x, a), a # "idle"
        PROVE  \A y \in Context : y # x => pc[y] = "idle"
    BY <1>0, <1>2 DEF Alone, At
  <1>3. ASSUME NEW x \in Context, NewlineCheck(x) \/ PutCheck(x)
        PROVE  Undisturbed'
    <2>1. \A y \in Context : y # x => pc[y] = "idle"
      BY <1>2, <1>3 DEF NewlineCheck, PutCheck
    <2>2. PICK b \in {"newline", "put", "scroll"} :
             /\ pc' = [pc EXCEPT ![x] = b]
             /\ b = "newline" => HasRoom(con[x], SCREEN_WIDTH)
             /\ b = "put" => HasRoom(con[x], 1)
      BY <1>3 DEF NewlineCheck, PutCheck, Goto
    <2>3. pc[x] # "idle"
      BY <1>3 DEF NewlineCheck, PutCheck, At
    <2>4. UNCHANGED <<cursor, current_start_addr, nr_current_console, crtc, con>>
      BY <1>3 DEF NewlineCheck, PutCheck, Goto
    <2>5. Alone' /\ RoomLeft' /\ CursorInConsole'
      BY <1>0, <2>1, <2>2, <2>4 DEF ConsoleTypeOK, Alone, RoomLeft, HasRoom, CursorInConsole
    <2>6. ScreenLags'
      BY <1>0, <2>1, <2>2, <2>3, <2>4 DEF ConsoleTypeOK, ScreenLags
    <2> QED
      BY <2>5, <2>6 DEF Undisturbed
  <1>4. ASSUME NEW x \in Context, Newline(x) \/ Put(x) \/ Backspace(x)
        PROVE  Undisturbed'
    <2>1. con[x] \in Console /\ cursor[con[x]] \in Nat
      BY <1>0 DEF ConsoleTypeOK
    <2>2. PICK a \in Nat : /\ cursor' = [cursor EXCEPT ![con[x]] = a]
                           /\ a < v_mem_limit
      <3>1. CASE Newline(x)
        <4> DEFINE a == SCREEN_WIDTH * (Row(cursor[con[x]]) + 1)
        <4>1. a \in Nat /\ a <= cursor[con[x]] + SCREEN_WIDTH
          BY <2>1, NextRow
        <4>2. cursor[con[x]] + SCREEN_WIDTH < v_mem_limit
          BY <1>0, <3>1 DEF Newline, At, RoomLeft, HasRoom
        <4>3. cursor' = [cursor EXCEPT ![con[x]] = a]
          BY <3>1 DEF Newline
        <4> HIDE DEF a
        <4>4. a < v_mem_limit
          BY <2>1, <4>1, <4>2
        <4> QED
          BY <4>1, <4>3, <4>4
      <3>2. CASE Put(x)
        <4>1. cursor[con[x]] + 1 \in Nat
          BY <2>1
        <4>2. cursor' = [cursor EXCEPT ![con[x]] = cursor[con[x]] + 1]
          BY <3>2 DEF Put
        <4>3. cursor[con[x]] + 1 < v_mem_limit
          BY <1>0, <3>2 DEF Put, At, RoomLeft, HasRoom
        <4> QED
          BY <4>1, <4>2, <4>3
      <3>3. CASE Backspace(x)
        <4>1. PICK a \in Backspaced(cursor[con[x]]) :
                 cursor' = [cursor EXCEPT ![con[x]] = a]
          BY <3>3 DEF Backspace
        <4>2. a \in Nat /\ a <= cursor[con[x]]
          BY <2>1, <4>1 DEF Backspaced
        <4>3. cursor[con[x]] < v_mem_limit
          BY <1>0, <2>1 DEF CursorInConsole
        <4>4. a < v_mem_limit
          BY <2>1, <4>2, <4>3
        <4> QED
          BY <4>1, <4>2, <4>4
      <3> QED
        BY <1>4, <3>1, <3>2, <3>3
    <2>3. /\ pc' = [pc EXCEPT ![x] = "scroll"]
          /\ pc[x] # "idle"
          /\ UNCHANGED <<current_start_addr, nr_current_console, crtc, con>>
      BY <1>4 DEF Newline, Put, Backspace, Goto, At
    <2>4. \A y \in Context : y # x => pc[y] = "idle"
      BY <1>2, <1>4 DEF Newline, Put, Backspace
    <2>5. CursorInConsole'
      BY <1>0, <2>1, <2>2 DEF ConsoleTypeOK, CursorInConsole
    <2>6. Alone' /\ RoomLeft'
      BY <1>0, <2>3, <2>4 DEF ConsoleTypeOK, Alone, RoomLeft
    <2>7. ScreenLags'
      BY <1>0, <2>1, <2>2, <2>3, <2>4 DEF ConsoleTypeOK, ScreenLags
    <2> QED
      BY <2>5, <2>6, <2>7 DEF Undisturbed
  <1>5. ASSUME NEW x \in Context, ScrollLoop(x)
        PROVE  Undisturbed'
    <2>1. /\ pc[x] = "scroll"
          /\ \E s : /\ current_start_addr' = [current_start_addr EXCEPT ![con[x]] = s]
                    /\ flush(con[x], s)
          /\ UNCHANGED <<cursor, nr_current_console, pc, con>>
      BY <1>5 DEF ScrollLoop, At
    <2>2. Alone' /\ RoomLeft' /\ CursorInConsole'
      BY <1>0, <2>1 DEF Alone, RoomLeft, HasRoom, CursorInConsole
    <2>3. ScreenLags'
      BY <1>0, <2>1 DEF ConsoleTypeOK, ScreenLags, flush
    <2> QED
      BY <2>2, <2>3 DEF Undisturbed
  <1>6. ASSUME NEW x \in Context, ScrollDone(x)
        PROVE  Undisturbed'
    <2>1. /\ pc[x] = "scroll"
          /\ pc' = [pc EXCEPT ![x] = "flush"]
          /\ UNCHANGED <<cursor, current_start_addr, nr_current_console, crtc, con>>
      BY <1>6 DEF ScrollDone, At, Goto
    <2>2. Alone' /\ RoomLeft' /\ CursorInConsole'
      BY <1>0, <2>1 DEF ConsoleTypeOK, Alone, RoomLeft, HasRoom, CursorInConsole
    <2>3. ScreenLags'
      BY <1>0, <2>1 DEF ConsoleTypeOK, ScreenLags
    <2> QED
      BY <2>2, <2>3 DEF Undisturbed
  <1>7. ASSUME NEW x \in Context, OutCharFlush(x)
        PROVE  Undisturbed'
    <2>1. /\ pc' = [pc EXCEPT ![x] = "idle"]
          /\ flush(con[x], current_start_addr[con[x]])
          /\ UNCHANGED <<cursor, current_start_addr, nr_current_console, con>>
      BY <1>7 DEF OutCharFlush, Goto
    <2>2. \A y \in Context : y # x => pc[y] = "idle"
      BY <1>2, <1>7 DEF OutCharFlush
    <2>3. Alone' /\ RoomLeft' /\ CursorInConsole'
      BY <1>0, <2>1, <2>2 DEF ConsoleTypeOK, Alone, RoomLeft, CursorInConsole
    <2>4. ScreenLags'
      <3>1. CASE con[x] = nr_current_console
        BY <2>1, <3>1 DEF ScreenLags, flush
      <3>2. CASE con[x] # nr_current_console
        BY <1>0, <2>1, <2>2, <3>2 DEF ConsoleTypeOK, ScreenLags, flush
      <3> QED
        BY <3>1, <3>2
    <2> QED
      BY <2>3, <2>4 DEF Undisturbed
  <1>8. ASSUME ScrollKey
        PROVE  Undisturbed'
    <2>1. PICK s : /\ current_start_addr' =
                        [current_start_addr EXCEPT ![nr_current_console] = s]
                   /\ flush(nr_current_console, s)
      BY <1>8 DEF ScrollKey
    <2>2. UNCHANGED <<cursor, nr_current_console, pc, con>>
      BY <1>8 DEF ScrollKey
    <2>3. Alone' /\ RoomLeft' /\ CursorInConsole'
      BY <1>0, <2>2 DEF Alone, RoomLeft, HasRoom, CursorInConsole
    <2>4. ScreenLags'
      BY <1>0, <2>1, <2>2 DEF ConsoleTypeOK, ScreenLags, flush
    <2> QED
      BY <2>3, <2>4 DEF Undisturbed
  <1>9. ASSUME NEW c \in Console, select_console(c)
        PROVE  Undisturbed'
    BY <1>0, <1>9
    DEF select_console, Undisturbed, Alone, RoomLeft, HasRoom, CursorInConsole, ScreenLags
  <1>10. CASE UNCHANGED consoleVars
    BY <1>0, <1>10
    DEF consoleVars, Undisturbed, Alone, RoomLeft, HasRoom, CursorInConsole, ScreenLags
  <1> QED
    BY <1>1, <1>3, <1>4, <1>5, <1>6, <1>7, <1>8, <1>9, <1>10 DEF ConsoleNext, OutCharStep

-----------------------------------------------------------------------------
(* The inductive invariant holds in every reachable state. *)
THEOREM ConsoleInvariant == ConsoleSpec => []ConsoleIInv
  <1>1. ConsoleInit => ConsoleIInv
    BY ConsoleInitIInv
  <1>2. ConsoleIInv /\ [ConsoleNext]_consoleVars => ConsoleIInv'
    <2> SUFFICES ASSUME ConsoleIInv, [ConsoleNext]_consoleVars PROVE ConsoleIInv'
      OBVIOUS
    <2>1. ConsoleTypeOK' /\ WindowInConsole'
      BY ConsoleStepType DEF ConsoleIInv
    <2>2. ASSUME ~Concurrent PROVE Undisturbed'
      BY <2>2, ConsoleStepUndisturbed
    <2> QED
      BY <2>1, <2>2 DEF ConsoleIInv
  <1> QED
    BY <1>1, <1>2, PTL DEF ConsoleSpec

(* The types: no address that out_char, scroll_screen and select_console    *)
(* compute is negative (they are unsigned in the code).                     *)
THEOREM ConsoleTypeCorrect == ConsoleSpec => []ConsoleTypeOK
  <1>1. ConsoleIInv => ConsoleTypeOK
    BY DEF ConsoleIInv
  <1> QED
    BY <1>1, ConsoleInvariant, PTL

(* scroll_screen keeps the screen in the console's memory and on a row,     *)
(* whoever prints at the same time.                                         *)
THEOREM WindowStays == ConsoleSpec => []WindowInConsole
  <1>1. ConsoleIInv => WindowInConsole
    BY DEF ConsoleIInv
  <1> QED
    BY <1>1, ConsoleInvariant, PTL

(* out_char keeps the cursor in the console's memory, if nobody prints in   *)
(* the middle of an out_char of task_tty.                                   *)
THEOREM CursorStays == ASSUME ~Concurrent PROVE ConsoleSpec => []CursorInConsole
  <1>1. ConsoleIInv => CursorInConsole
    BY DEF ConsoleIInv, Undisturbed
  <1> QED
    BY <1>1, ConsoleInvariant, PTL

(* Then the loop of out_char can scroll whenever it has to. *)
THEOREM ScrollGoesOn == ASSUME ~Concurrent PROVE ConsoleSpec => []ScrollPossible
  <1>1. ConsoleIInv => ScrollPossible
    <2> SUFFICES ASSUME ConsoleIInv, NEW x \in Context, BelowScreen(con[x])
                 PROVE  CanScroll(con[x])
      BY DEF ScrollPossible
    <2>1. con[x] \in Console
      BY DEF ConsoleIInv, ConsoleTypeOK
    <2>2. cursor[con[x]] < v_mem_limit
      BY <2>1 DEF ConsoleIInv, Undisturbed, CursorInConsole
    <2>3. cursor[con[x]] \in Nat /\ current_start_addr[con[x]] \in Nat
      BY <2>1 DEF ConsoleIInv, ConsoleTypeOK
    <2> QED
      BY <2>2, <2>3, ConsoleAssumption DEF BelowScreen, CanScroll
  <1> QED
    BY <1>1, ConsoleInvariant, PTL

(* And the hardware shows the current console whenever nobody is printing. *)
THEOREM ScreenCurrent == ASSUME ~Concurrent PROVE ConsoleSpec => []ScreenShowsCurrent
  <1>1. ConsoleIInv => ScreenShowsCurrent
    BY DEF ConsoleIInv, Undisturbed, ScreenLags, ScreenShowsCurrent, Context
  <1> QED
    BY <1>1, ConsoleInvariant, PTL
=============================================================================
