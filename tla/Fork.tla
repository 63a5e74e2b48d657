-------------------------------- MODULE Fork --------------------------------
(***************************************************************************)
(* fork: task_mm and do_fork (mm/main.c, mm/forkexit.c) with the processes *)
(* that call it, the part of task_fs it asks, and task_sys, which answers  *)
(* getpid and get_ticks (kernel/systask.c).  A clock interrupt may give    *)
(* the processor to any process that is ready between two steps.           *)
(*                                                                         *)
(* Abstractions: of a process's registers, whether it is inside sendrec;   *)
(* of its memory, the last call of sendrec pushed on its stack, which is   *)
(* where it goes when sendrec returns.  A copied table entry is taken over *)
(* in one step.  Regions of memory bear the number of the entry they are   *)
(* for; the region of the first process is the kernel's own memory.  What  *)
(* task_fs does about the descriptors of the child is module Files.        *)
(***************************************************************************)
EXTENDS Rendezvous, FiniteSets, FiniteSetsExt

CONSTANTS TASK_MM, TASK_FS, TASK_SYS,
          INIT_PID,     \* the process there is at the start
          NR_CHILDREN,  \* the free entries of the process table
          TickCallers   \* bound: the processes that call get_ticks

Children == INIT_PID + 1 .. INIT_PID + NR_CHILDREN
Entry == {INIT_PID} \cup Children
NO_TASK == INIT_PID - 1
Tasks == {TASK_MM, TASK_FS, TASK_SYS}

ASSUME ForkAssumption ==
    /\ INIT_PID \in Nat \ {0} /\ NR_CHILDREN \in Nat \ {0}
    /\ TASK_MM # TASK_FS /\ TASK_MM # TASK_SYS /\ TASK_FS # TASK_SYS
    /\ Tasks \cap (0 .. INIT_PID + NR_CHILDREN) = {}
    /\ Proc = Tasks \cup Entry /\ TickCallers \subseteq Entry
    /\ {ANY, INTERRUPT} \cap Proc = {} /\ ANY # INTERRUPT

Call == {"FORK", "GET_PID", "GET_TICKS"}
Message == [type : Call \cup {"SYSCALL_RET", "none"}, source : Proc \cup {ANY, INTERRUPT},
            PID : 0 .. INIT_PID + NR_CHILDREN, RETVAL : {0, 1}]
ASSUME MessageAssumption == NoMessage \in Message

NoFrame == [call |-> "FORK", function |-> "none"]
Frame == [call : Call, function : {"SEND", "RECEIVE"}] \cup {NoFrame}

VARIABLES
    free,        \* the entries whose p_flags are FREE_SLOT
    base,        \* of an entry, the region its descriptors stand for
    p_parent,
    at,          \* its registers: in the "user" program, or in "sendrec"
    frame,       \* of a region, the call of sendrec on the stack in it
    memory_size, \* the children whose images fit into the memory
    pc,          \* the next statement of each task
    src,         \* the process task_mm works for
    child_pid,
    halted,
    made,        \* history: the call of sendrec that a process is in
    forked,      \* history: what the fork that a process is in has come to, see below
    torn         \* history: the parent or the child ran while do_fork copied
tableVars == <<free, base, p_parent, at, frame, made, forked>>
taskVars == <<pc, src, child_pid>>
vars == <<ipcVars, tableVars, taskVars, memory_size, halted, torn>>

(* forked of a process is the child that do_fork has made for the call the  *)
(* process is in, 0 in that child until it has returned, and NoFork in      *)
(* every other process.                                                     *)
NoFork == -1

TypeOK ==
    /\ IpcTypeOK(Message)
    /\ free \subseteq Children
    /\ base \in [Entry -> Entry]
    /\ p_parent \in [Entry -> Entry \cup {NO_TASK}]
    /\ at \in [Entry -> {"user", "sendrec"}]
    /\ frame \in [Entry -> Frame] /\ made \in [Entry -> Frame]
    /\ forked \in [Entry -> Children \cup {0, NoFork}]
    /\ memory_size \in 0 .. NR_CHILDREN
    /\ pc[TASK_MM] \in {"receive", "do_fork", "phys_copy", "init_descriptor",
                        "tell", "told", "wake", "reply", "failed"}
    /\ pc[TASK_FS] \in {"receive", "serve"} /\ pc[TASK_SYS] \in {"receive", "serve"}
    /\ src \in Entry
    /\ child_pid \in Entry
    /\ halted \in {"no", "deadlock", "mm/main.c:78"}
    /\ torn \in BOOLEAN

Init ==
    /\ IpcInit
    /\ free = Children
    /\ base = [e \in Entry |-> INIT_PID]
    /\ p_parent = [e \in Entry |-> NO_TASK]
    /\ at = [e \in Entry |-> "user"]
    /\ frame = [r \in Entry |-> NoFrame]
    /\ made = frame
    /\ forked = [e \in Entry |-> NoFork]
    /\ memory_size \in 0 .. NR_CHILDREN
    /\ pc = [t \in Tasks |-> "receive"]
    /\ src = INIT_PID
    /\ child_pid = INIT_PID
    /\ halted = "no"
    /\ torn = FALSE

Halt(where) ==
    /\ halted' = where
    /\ UNCHANGED <<ipcVars, tableVars, taskVars, memory_size, torn>>

(***************************************************************************)
(* The processes                                                           *)
(***************************************************************************)
User(p) == p \notin free /\ Running(p)

Calls(p) == {call \in Call : call = "GET_TICKS" => p \in TickCallers}

Server(call) == IF call = "FORK" THEN TASK_MM ELSE TASK_SYS

(* The parent or the child runs before do_fork has given the child a       *)
(* memory of its own.                                                      *)
Between == pc[TASK_MM] \in {"phys_copy", "init_descriptor"}
Tears(p) == Between /\ p \in {src, child_pid}

Pushes(p, call, function) ==
    LET f == [call |-> call, function |-> function]
    IN  /\ frame' = [frame EXCEPT ![base[p]] = f]
        /\ made' = [made EXCEPT ![p] = f]

(* What is beyond the top of a stack matters only to another process that  *)
(* has its stack there.                                                    *)
Pops(p) ==
    /\ frame' = IF \E q \in Entry \ ({p} \cup free) : base[q] = base[p] /\ at[q] = "sendrec"
                THEN frame ELSE [frame EXCEPT ![base[p]] = NoFrame]
    /\ made' = [made EXCEPT ![p] = NoFrame]

(* The first half of a send_recv(BOTH, ...): fork, getpid or get_ticks. *)
UserSends(p) ==
    /\ User(p) /\ at[p] = "user"
    /\ \E call \in Calls(p) :
          \/ /\ Send(p, Server(call), [NoMessage EXCEPT !.type = call])
             /\ Pushes(p, call, "SEND")
             /\ at' = [at EXCEPT ![p] = "sendrec"]
             /\ torn' = (torn \/ Tears(p))
             /\ UNCHANGED <<free, base, p_parent, forked, taskVars, memory_size, halted>>
          \/ deadlock(p, Server(call)) /\ Halt("deadlock")

(* sendrec returns to where the stack says: to the second half of the      *)
(* call, or to the program with the message that has come.                 *)
UserReceives(p) ==
    /\ User(p) /\ at[p] = "sendrec" /\ frame[base[p]].function = "SEND"
    /\ Receive(p, Server(frame[base[p]].call), NoMessage)
    /\ Pushes(p, frame[base[p]].call, "RECEIVE")
    /\ torn' = (torn \/ Tears(p))
    /\ UNCHANGED <<free, base, p_parent, at, forked, taskVars, memory_size, halted>>

UserReturns(p) ==
    /\ User(p) /\ at[p] = "sendrec" /\ frame[base[p]].function = "RECEIVE"
    /\ at' = [at EXCEPT ![p] = "user"]
    /\ mail' = [mail EXCEPT ![p] = NoMessage]
    /\ Pops(p)
    /\ forked' = [forked EXCEPT ![p] = NoFork]
    /\ torn' = (torn \/ Tears(p))
    /\ UNCHANGED <<wait, q_sending, has_int_msg, free, base, p_parent, taskVars, memory_size, halted>>

(***************************************************************************)
(* The tasks                                                               *)
(***************************************************************************)
TaskReceives(t) ==
    /\ Running(t) /\ pc[t] = "receive"
    /\ Receive(t, ANY, NoMessage)
    /\ pc' = [pc EXCEPT ![t] = IF t = TASK_MM THEN "do_fork" ELSE "serve"]
    /\ UNCHANGED <<tableVars, src, child_pid, memory_size, halted, torn>>

TaskSends(t, d, m, next) ==
    /\ Running(t)
    /\ \/ /\ Send(t, d, m)
          /\ pc' = [pc EXCEPT ![t] = next]
          /\ UNCHANGED <<tableVars, src, child_pid, memory_size, halted, torn>>
       \/ deadlock(t, d) /\ Halt("deadlock")

(* What the tasks answer.  1 stands for the failure, -1 in the code, and 0 *)
(* for the number of ticks.  The answer to GET_TICKS keeps its type.       *)
Answer(t) ==
    LET m == mail[t]
    IN  CASE t = TASK_SYS /\ m.type = "GET_PID" ->
                 [m EXCEPT !.type = "SYSCALL_RET", !.PID = m.source]
          [] t = TASK_SYS /\ m.type # "GET_PID" -> m
          [] t = TASK_FS -> [m EXCEPT !.type = "SYSCALL_RET"]

TaskServes(t) ==
    /\ pc[t] = "serve"
    /\ TaskSends(t, mail[t].source, Answer(t), "receive")

(* The lowest free entry becomes a copy of the parent's: its flags and     *)
(* list of senders, its registers and, for now, its descriptors.           *)
CopyEntry(parent, child) ==
    /\ wait' = [wait EXCEPT ![child] = wait[parent]]
    /\ q_sending' = [q_sending EXCEPT ![child] = q_sending[parent]]
    /\ mail' = [mail EXCEPT ![child] = mail[parent]]
    /\ has_int_msg' = [has_int_msg EXCEPT ![child] = has_int_msg[parent]]
    /\ at' = [at EXCEPT ![child] = at[parent]]
    /\ made' = [made EXCEPT ![child] = made[parent]]
    /\ base' = [base EXCEPT ![child] = base[parent]]
    /\ p_parent' = [p_parent EXCEPT ![child] = parent]
    /\ free' = free \ {child}
    /\ forked' = [forked EXCEPT ![parent] = child, ![child] = 0]

do_fork ==
    /\ Running(TASK_MM) /\ pc[TASK_MM] = "do_fork"
    /\ src' = mail[TASK_MM].source
    /\ IF free = {}
       THEN /\ pc' = [pc EXCEPT ![TASK_MM] = "failed"]
            /\ UNCHANGED <<ipcVars, tableVars, child_pid>>
       ELSE /\ child_pid' = Min(free)
            /\ CopyEntry(mail[TASK_MM].source, child_pid')
            /\ pc' = [pc EXCEPT ![TASK_MM] = "phys_copy"]
            /\ UNCHANGED frame
    /\ UNCHANGED <<memory_size, halted, torn>>

(* Mutant: the children share a region. *)
alloc_mem_Same(pid) == INIT_PID + 1

(* The region of an entry, if the memory reaches that far. *)
alloc_mem(pid) == pid

phys_copy ==
    /\ Running(TASK_MM) /\ pc[TASK_MM] = "phys_copy"
    /\ IF child_pid - INIT_PID > memory_size
       THEN Halt("mm/main.c:78")
       ELSE /\ frame' = [frame EXCEPT ![alloc_mem(child_pid)] = frame[base[src]]]
            /\ pc' = [pc EXCEPT ![TASK_MM] = "init_descriptor"]
            /\ UNCHANGED <<ipcVars, free, base, p_parent, at, made, forked, src,
                           child_pid, memory_size, halted, torn>>

init_descriptor ==
    /\ Running(TASK_MM) /\ pc[TASK_MM] = "init_descriptor"
    /\ base' = [base EXCEPT ![child_pid] = alloc_mem(child_pid)]
    /\ pc' = [pc EXCEPT ![TASK_MM] = "tell"]
    /\ UNCHANGED <<ipcVars, free, p_parent, at, frame, made, forked, src,
                   child_pid, memory_size, halted, torn>>

(* send_recv(BOTH, TASK_FS, ...) *)
TellFs ==
    /\ pc[TASK_MM] = "tell"
    /\ TaskSends(TASK_MM, TASK_FS, [NoMessage EXCEPT !.type = "FORK", !.PID = child_pid], "told")

FsTold ==
    /\ Running(TASK_MM) /\ pc[TASK_MM] = "told"
    /\ Receive(TASK_MM, TASK_FS, NoMessage)
    /\ pc' = [pc EXCEPT ![TASK_MM] = "wake"]
    /\ UNCHANGED <<tableVars, src, child_pid, memory_size, halted, torn>>

Result(pid, val) == [NoMessage EXCEPT !.type = "SYSCALL_RET", !.PID = pid, !.RETVAL = val]

(* Mutant: the child is not woken. *)
WakeChild_Missing ==
    /\ pc[TASK_MM] = "wake" /\ Running(TASK_MM)
    /\ pc' = [pc EXCEPT ![TASK_MM] = "reply"]
    /\ UNCHANGED <<ipcVars, tableVars, src, child_pid, memory_size, halted, torn>>

WakeChild ==
    /\ pc[TASK_MM] = "wake"
    /\ TaskSends(TASK_MM, child_pid, Result(0, 0), "reply")

(* Mutant: the message is as the child's. *)
ReplyToParent_NoPid ==
    /\ pc[TASK_MM] \in {"reply", "failed"}
    /\ TaskSends(TASK_MM, src, Result(0, 0), "receive")

(* mm_msg.PID is set by a fork that went well; otherwise it is the caller's. *)
ReplyToParent ==
    \/ /\ pc[TASK_MM] = "reply"
       /\ TaskSends(TASK_MM, src, Result(child_pid, 0), "receive")
    \/ /\ pc[TASK_MM] = "failed"
       /\ TaskSends(TASK_MM, src, Result(NoMessage.PID, 1), "receive")

MM == \/ TaskReceives(TASK_MM) \/ do_fork \/ phys_copy \/ init_descriptor
      \/ TellFs \/ FsTold \/ WakeChild \/ ReplyToParent

(* A panic stops the machine. *)
Stopped == halted # "no" /\ UNCHANGED vars

Next ==
    \/ /\ halted = "no"
       /\ \/ \E p \in Entry : UserSends(p) \/ UserReceives(p) \/ UserReturns(p)
          \/ MM
          \/ \E t \in {TASK_FS, TASK_SYS} : TaskReceives(t) \/ TaskServes(t)
    \/ Stopped

(* The scheduler starves no ready process (module Sched); a process need   *)
(* not make a call, and goes on with one it has made.                      *)
Fairness ==
    /\ \A p \in Entry : WF_vars(halted = "no" /\ (UserReceives(p) \/ UserReturns(p)))
    /\ WF_vars(halted = "no" /\ MM)
    /\ \A t \in {TASK_FS, TASK_SYS} : WF_vars(halted = "no" /\ (TaskReceives(t) \/ TaskServes(t)))

Spec == Init /\ [][Next]_vars /\ Fairness

-----------------------------------------------------------------------------
(* Whenever a process is inside sendrec, the stack in its memory ends with *)
(* the call that it made, so that sendrec returns to the right place: the  *)
(* child's copied registers fit its copied memory, and no two processes    *)
(* use one stack, for any order of forks and calls in which neither parent *)
(* nor child ran between the copies of do_fork (forkexit.c:35-67).         *)
StackMatchesCall ==
    torn \/ \A p \in Entry \ free :
               at[p] = "sendrec" /\ ~ (Between /\ p = child_pid) => frame[base[p]] = made[p]

(* The message that a call returns with.  fork: the number of the child    *)
(* that this call has made, 0 in that child, which has not returned before *)
(* and does not get 0 again, and a failure only for a call that has made   *)
(* no child because the table is full.  getpid: the number of the caller.  *)
RightAnswers ==
    torn \/ \A p \in Entry \ free :
        LET m == mail[p]
        IN  Running(p) /\ at[p] = "sendrec" /\ made[p].function = "RECEIVE" =>
                CASE made[p].call = "FORK" ->
                        /\ m.type = "SYSCALL_RET" /\ m.source = TASK_MM
                        /\ IF m.RETVAL = 0 THEN m.PID = forked[p]
                                           ELSE forked[p] = NoFork /\ free = {}
                  [] made[p].call = "GET_PID" -> m.type = "SYSCALL_RET" /\ m.PID = p
                  [] made[p].call = "GET_TICKS" -> m.type = "GET_TICKS" /\ m.source = TASK_SYS

(* Every fork, getpid and get_ticks returns, in the parent and in the      *)
(* child, however the forks of several processes follow each other, unless *)
(* the machine stopped or a fork was torn.                                 *)
ForkReturns ==
    \A p \in Entry : (p \notin free /\ at[p] = "sendrec")
                        ~> (at[p] = "user" \/ torn \/ halted # "no")
=============================================================================
