-------------------------------- MODULE Ipc --------------------------------
(***************************************************************************)
(* The message passing of the kernel (kernel/proc.c): sendrec() with its   *)
(* two primitives msg_send and msg_receive, the blocking and waking of     *)
(* processes, the deadlock test, and the messages the interrupt handlers   *)
(* make with inform_int.                                                   *)
(*                                                                         *)
(* sys_call enables interrupts (kernel.asm:317), so a handler can run      *)
(* between any two statements of msg_send and msg_receive.  A step of a    *)
(* system call below is a run of statements that no handler can tell from  *)
(* one statement; where a handler can come between two statements and      *)
(* matter, they are two steps.  A system call itself is never preempted:   *)
(* clock_handler returns before schedule() when k_reenter # 0.             *)
(*                                                                         *)
(* Abstractions: the list q_sending/next_sending is a sequence; a pointer  *)
(* p_msg is "null" or "m"; a MESSAGE is its source and a body; schedule()  *)
(* may pick any ready process (module Sched has the ticks).                *)
(***************************************************************************)
EXTENDS Naturals, Sequences, FiniteSets

CONSTANTS Proc,        \* the used entries of proc_table
          TASK_TTY,    \* the process that clock_handler informs
          TASK_HD,     \* the process that hd_handler informs
          ANY, INTERRUPT, NO_TASK,
          Calls,       \* the sendrec calls that the programs make
          Body         \* what a message carries besides its source

Peer == Proc \cup {ANY, INTERRUPT}

ASSUME IpcAssumption ==
    /\ TASK_TTY \in Proc
    /\ TASK_HD \in Proc
    /\ TASK_TTY # TASK_HD
    /\ {ANY, INTERRUPT, NO_TASK} \cap Proc = {}
    /\ ANY # INTERRUPT /\ ANY # NO_TASK /\ INTERRUPT # NO_TASK
    /\ Calls \subseteq [p : Proc, fn : {"SEND", "RECEIVE", "BOTH"}, peer : Peer]
    /\ \A c \in Calls : c.p # c.peer /\ (c.fn # "RECEIVE" => c.peer \in Proc)

VARIABLES
    p_flags,      \* the set of flags of a process: SENDING, RECEIVING
    p_msg,        \* whether its p_msg points to a message
    p_recvfrom,   \* whom it waits to receive from
    p_sendto,     \* whom it waits to send to
    has_int_msg,  \* an interrupt came while it was not receiving
    q_sending,    \* the processes that wait to send to it, oldest first
    msg,          \* its MESSAGE, the argument of its last sendrec
    both,         \* peer of the RECEIVE that send_recv(BOTH) still has to make
    key_pressed,  \* set by keyboard_handler, read by clock_handler
    p_proc_ready, \* the process that runs, or will at the next restart
    pc,           \* the next statement of the system call, or "user"
    caller, peer, \* the arguments of the system call
    halted        \* "no", or the place in proc.c where the kernel stopped

procVars == <<p_flags, p_msg, p_recvfrom, p_sendto>>
vars == <<p_flags, p_msg, p_recvfrom, p_sendto, has_int_msg, q_sending, msg,
          both, key_pressed, p_proc_ready, pc, caller, peer, halted>>

SendPc == {"msg_send", "send_181", "send_185", "send_186", "send_187",
           "send_block", "send_sched", "send_228"}
RecvPc == {"msg_receive", "recv_255", "recv_333", "recv_block", "recv_sched",
           "recv_338"}
Halts == {"deadlock", "131", "181", "191", "202", "228", "255", "269", "338",
          "420"}

Message == [source : Proc \cup {INTERRUPT, NO_TASK},
            body : Body \cup {"none", "HARD_INT"}]

(* The message that stands for an interrupt. *)
HardInt == [source |-> INTERRUPT, body |-> "HARD_INT"]

TypeOK ==
    /\ p_flags \in [Proc -> SUBSET {"SENDING", "RECEIVING"}]
    /\ p_msg \in [Proc -> {"null", "m"}]
    /\ p_recvfrom \in [Proc -> Peer \cup {NO_TASK}]
    /\ p_sendto \in [Proc -> Proc \cup {NO_TASK}]
    /\ has_int_msg \in [Proc -> {0, 1}]
    /\ q_sending \in [Proc -> Seq(Proc)]
    /\ msg \in [Proc -> Message]
    /\ both \in [Proc -> Proc \cup {NO_TASK}]
    /\ key_pressed \in {0, 1}
    /\ p_proc_ready \in Proc
    /\ pc \in {"user"} \cup SendPc \cup RecvPc
    /\ caller \in Proc
    /\ peer \in Peer
    /\ pc \in SendPc => peer \in Proc
    /\ halted \in {"no"} \cup Halts

-----------------------------------------------------------------------------
Ready == {p \in Proc : p_flags[p] = {}}

Sending(p) == "SENDING" \in p_flags[p]
Receiving(p) == "RECEIVING" \in p_flags[p]

(* What the assertions ask of a process that is not blocked. *)
Clean(p) ==
    /\ p_flags[p] = {}
    /\ p_msg[p] = "null"
    /\ p_recvfrom[p] = NO_TASK
    /\ p_sendto[p] = NO_TASK

(* What they ask of a process blocked in a SEND to d. *)
BlockedSender(p, d) ==
    /\ p_flags[p] = {"SENDING"}
    /\ p_msg[p] # "null"
    /\ p_recvfrom[p] = NO_TASK
    /\ p_sendto[p] = d

(* Mutant: the walk compares p_sendto with its own start. *)
deadlock_WrongEnd(src, dest) ==
    ~ \E C \in SUBSET Proc :
        /\ dest \in C
        /\ \A p \in C : Sending(p) => p_sendto[p] \in C \ {dest}

(***************************************************************************)
(* deadlock(src, dest) walks from dest along p_sendto.  It does not come   *)
(* to a process that sends to src iff some set of processes holds the      *)
(* whole walk, and none of them sends to src.                              *)
(***************************************************************************)
deadlock(src, dest) ==
    ~ \E C \in SUBSET Proc :
        /\ dest \in C
        /\ \A p \in C : Sending(p) => p_sendto[p] \in C \ {src}

(* Mutant: the element after the one to remove is unlinked. *)
Unlink_Next(q, i) == [j \in 1 .. Len(q) - 1 |-> IF j <= i THEN q[j] ELSE q[j + 1]]

(* A list without its i-th element. *)
Unlink(q, i) == [j \in 1 .. Len(q) - 1 |-> IF j < i THEN q[j] ELSE q[j + 1]]

Init ==
    /\ p_flags = [p \in Proc |-> {}]
    /\ p_msg = [p \in Proc |-> "null"]
    /\ p_recvfrom = [p \in Proc |-> NO_TASK]
    /\ p_sendto = [p \in Proc |-> NO_TASK]
    /\ has_int_msg = [p \in Proc |-> 0]
    /\ q_sending = [p \in Proc |-> <<>>]
    /\ msg = [p \in Proc |-> [source |-> NO_TASK, body |-> "none"]]
    /\ both = [p \in Proc |-> NO_TASK]
    /\ key_pressed = 0
    /\ p_proc_ready = TASK_TTY
    /\ pc = "user"
    /\ caller = TASK_TTY
    /\ peer = ANY
    /\ halted = "no"

-----------------------------------------------------------------------------
(* The kernel stops at the assertion or panic named a. *)
Halt(a) ==
    /\ halted' = a
    /\ UNCHANGED <<procVars, has_int_msg, q_sending, msg, both, key_pressed,
                   p_proc_ready, pc, caller, peer>>

(* The running kernel is at statement a. *)
At(a) == halted = "no" /\ pc = a

Goto(b) == pc' = b /\ UNCHANGED <<caller, peer, halted>>

Enter(p, fn, c) ==
    /\ At("user")
    /\ p_proc_ready = p
    /\ pc' = fn
    /\ caller' = p
    /\ peer' = c
    /\ UNCHANGED <<procVars, has_int_msg, q_sending, key_pressed, p_proc_ready,
                   halted>>

(***************************************************************************)
(* A process calls send_recv.  sys_sendrec stamps the message with the     *)
(* caller, also when the message is only a buffer to receive into.         *)
(***************************************************************************)
CallSend(c) ==
    /\ c.fn \in {"SEND", "BOTH"}
    /\ both[c.p] = NO_TASK
    /\ Enter(c.p, "msg_send", c.peer)
    /\ \E b \in Body : msg' = [msg EXCEPT ![c.p] = [source |-> c.p, body |-> b]]
    /\ both' = IF c.fn = "BOTH" THEN [both EXCEPT ![c.p] = c.peer] ELSE both

CallReceive(c) ==
    /\ c.fn = "RECEIVE"
    /\ both[c.p] = NO_TASK
    /\ Enter(c.p, "msg_receive", c.peer)
    /\ msg' = [msg EXCEPT ![c.p] = [source |-> c.p, body |-> "none"]]
    /\ UNCHANGED both

(* The second half of send_recv(BOTH): the same MESSAGE, not cleared. *)
CallBoth(p) ==
    /\ both[p] # NO_TASK
    /\ Enter(p, "msg_receive", both[p])
    /\ msg' = [msg EXCEPT ![p] = [source |-> p, body |-> @.body]]
    /\ both' = [both EXCEPT ![p] = NO_TASK]

-----------------------------------------------------------------------------
(* msg_send *)

(* Mutant: any receiver will do. *)
WaitsFor_Anyone(d, s) == Receiving(d)

(* d sleeps until s, or anybody, sends. *)
WaitsFor(d, s) == Receiving(d) /\ p_recvfrom[d] \in {s, ANY}

SendDeadlock ==
    /\ At("msg_send")
    /\ deadlock(caller, peer)
    /\ Halt("deadlock")

SendMeets ==
    /\ At("msg_send")
    /\ ~ deadlock(caller, peer)
    /\ WaitsFor(peer, caller)
    /\ Goto("send_181")
    /\ UNCHANGED <<procVars, has_int_msg, q_sending, msg, both, key_pressed,
                   p_proc_ready>>

SendEnqueue ==
    /\ At("msg_send")
    /\ ~ deadlock(caller, peer)
    /\ ~ WaitsFor(peer, caller)
    /\ IF p_flags[caller] \subseteq {"SENDING"}
       THEN /\ Goto("send_block")
            /\ p_flags' = [p_flags EXCEPT ![caller] = {"SENDING"}]
            /\ p_sendto' = [p_sendto EXCEPT ![caller] = peer]
            /\ p_msg' = [p_msg EXCEPT ![caller] = "m"]
            /\ q_sending' = [q_sending EXCEPT ![peer] = Append(@, caller)]
            /\ UNCHANGED <<p_recvfrom, has_int_msg, msg, both, key_pressed,
                           p_proc_ready>>
       ELSE Halt("202")

(* assert(p_dest->p_msg): a handler may have taken the message pointer. *)
SendAssert ==
    /\ At("send_181")
    /\ IF p_msg[peer] # "null"
       THEN /\ Goto("send_185")
            /\ UNCHANGED <<procVars, has_int_msg, q_sending, msg, both,
                           key_pressed, p_proc_ready>>
       ELSE Halt("181")

(* Mutant: phys_copy is missing. *)
SendCopy_Missing ==
    /\ At("send_185")
    /\ Goto("send_186")
    /\ UNCHANGED <<procVars, has_int_msg, q_sending, msg, both, key_pressed,
                   p_proc_ready>>

(* phys_copy; through a null p_msg it writes to address 0 of the kernel. *)
SendCopy ==
    /\ At("send_185")
    /\ Goto("send_186")
    /\ msg' = IF p_msg[peer] # "null" THEN [msg EXCEPT ![peer] = msg[caller]]
                                      ELSE msg
    /\ UNCHANGED <<procVars, has_int_msg, q_sending, both, key_pressed,
                   p_proc_ready>>

(* Mutant: p_msg of the receiver is not cleared. *)
SendClear_Missing ==
    /\ At("send_186")
    /\ Goto("send_187")
    /\ UNCHANGED <<procVars, has_int_msg, q_sending, msg, both, key_pressed,
                   p_proc_ready>>

SendClear ==
    /\ At("send_186")
    /\ Goto("send_187")
    /\ p_msg' = [p_msg EXCEPT ![peer] = "null"]
    /\ UNCHANGED <<p_flags, p_recvfrom, p_sendto, has_int_msg, q_sending, msg,
                   both, key_pressed, p_proc_ready>>

(* The receiver is made ready; the assertions look at both processes. *)
SendWake ==
    /\ At("send_187")
    /\ IF /\ p_flags[peer] \subseteq {"RECEIVING"}
          /\ p_msg[peer] = "null"
          /\ p_sendto[peer] = NO_TASK
          /\ Clean(caller)
       THEN /\ Goto("user")
            /\ p_flags' = [p_flags EXCEPT ![peer] = {}]
            /\ p_recvfrom' = [p_recvfrom EXCEPT ![peer] = NO_TASK]
            /\ UNCHANGED <<p_msg, p_sendto, has_int_msg, q_sending, msg, both,
                           key_pressed, p_proc_ready>>
       ELSE Halt("191")

(* The assertions after block(sender). *)
SendReturn ==
    /\ At("send_228")
    /\ IF BlockedSender(caller, peer)
       THEN /\ Goto("user")
            /\ UNCHANGED <<procVars, has_int_msg, q_sending, msg, both,
                           key_pressed, p_proc_ready>>
       ELSE Halt("228")

-----------------------------------------------------------------------------
(* msg_receive *)

(* Mutant: only the head of the list is looked at. *)
Offers_HeadOnly(s, p, src) ==
    /\ q_sending[p] # <<>>
    /\ s = Head(q_sending[p])
    /\ src \in {s, ANY}

(* Mutant: a RECEIVE from ANY takes the youngest sender. *)
Offers_Youngest(s, p, src) ==
    \/ src = ANY /\ q_sending[p] # <<>> /\ s = q_sending[p][Len(q_sending[p])]
    \/ src \in Proc /\ s = src /\ Sending(s) /\ p_sendto[s] = p

(* The process whose message a RECEIVE from src by p can take at once. *)
Offers(s, p, src) ==
    \/ src = ANY /\ q_sending[p] # <<>> /\ s = Head(q_sending[p])
    \/ src \in Proc /\ s = src /\ Sending(s) /\ p_sendto[s] = p

TakesInterrupt(p, src) == has_int_msg[p] = 1 /\ src \in {ANY, INTERRUPT}

RecvInterrupt ==
    /\ At("msg_receive")
    /\ TakesInterrupt(caller, peer)
    /\ Goto("recv_255")
    /\ msg' = [msg EXCEPT ![caller] = HardInt]
    /\ has_int_msg' = [has_int_msg EXCEPT ![caller] = 0]
    /\ UNCHANGED <<procVars, q_sending, both, key_pressed, p_proc_ready>>

(* The assertions behind it; a handler may have set has_int_msg again. *)
RecvInterruptReturn ==
    /\ At("recv_255")
    /\ IF /\ p_flags[caller] = {}
          /\ p_msg[caller] = "null"
          /\ p_sendto[caller] = NO_TASK
          /\ has_int_msg[caller] = 0
       THEN /\ Goto("user")
            /\ UNCHANGED <<procVars, has_int_msg, q_sending, msg, both,
                           key_pressed, p_proc_ready>>
       ELSE Halt("255")

(* Mutant: the message of the head of the list is copied. *)
RecvTake_Head(s) ==
    /\ At("msg_receive")
    /\ ~ TakesInterrupt(caller, peer)
    /\ Offers(s, caller, peer)
    /\ \E i \in DOMAIN q_sending[caller] :
         /\ q_sending[caller][i] = s
         /\ q_sending' = [q_sending EXCEPT ![caller] = Unlink(@, i)]
         /\ msg' = [msg EXCEPT ![caller] = msg[Head(q_sending[caller])]]
         /\ p_msg' = [p_msg EXCEPT ![s] = "null"]
         /\ p_sendto' = [p_sendto EXCEPT ![s] = NO_TASK]
         /\ p_flags' = [p_flags EXCEPT ![s] = @ \ {"SENDING"}]
         /\ Goto("user")
         /\ UNCHANGED <<p_recvfrom, has_int_msg, both, key_pressed, p_proc_ready>>

(* A sender waits already: its message is copied and it is made ready.  The *)
(* last condition stands for the list: with the sender not in it, the code  *)
(* would fail at line 288 or unlink the wrong one at line 319; by           *)
(* QueueHoldsSenders that does not happen.                                  *)
RecvTake(s) ==
    /\ At("msg_receive")
    /\ ~ TakesInterrupt(caller, peer)
    /\ Offers(s, caller, peer)
    /\ IF /\ Clean(caller)
          /\ BlockedSender(s, caller)
          /\ \E i \in DOMAIN q_sending[caller] : q_sending[caller][i] = s
       THEN \E i \in DOMAIN q_sending[caller] :
            /\ q_sending[caller][i] = s
            /\ q_sending' = [q_sending EXCEPT ![caller] = Unlink(@, i)]
            /\ msg' = [msg EXCEPT ![caller] = msg[s]]
            /\ p_msg' = [p_msg EXCEPT ![s] = "null"]
            /\ p_sendto' = [p_sendto EXCEPT ![s] = NO_TASK]
            /\ p_flags' = [p_flags EXCEPT ![s] = @ \ {"SENDING"}]
            /\ Goto("user")
            /\ UNCHANGED <<p_recvfrom, has_int_msg, both, key_pressed,
                           p_proc_ready>>
       ELSE Halt("269")

RecvNothing ==
    /\ At("msg_receive")
    /\ ~ TakesInterrupt(caller, peer)
    /\ \A s \in Proc : ~ Offers(s, caller, peer)
    /\ Goto("recv_333")
    /\ UNCHANGED <<procVars, has_int_msg, q_sending, msg, both, key_pressed,
                   p_proc_ready>>

RecvSleep ==
    /\ At("recv_333")
    /\ Goto("recv_block")
    /\ p_flags' = [p_flags EXCEPT ![caller] = @ \cup {"RECEIVING"}]
    /\ p_msg' = [p_msg EXCEPT ![caller] = "m"]
    /\ p_recvfrom' = [p_recvfrom EXCEPT ![caller] = peer]
    /\ UNCHANGED <<p_sendto, has_int_msg, q_sending, msg, both, key_pressed,
                   p_proc_ready>>

(* The assertions after block(p_who_wanna_recv). *)
RecvReturn ==
    /\ At("recv_338")
    /\ IF /\ p_flags[caller] = {"RECEIVING"}
          /\ p_msg[caller] # "null"
          /\ p_recvfrom[caller] # NO_TASK
          /\ p_sendto[caller] = NO_TASK
          /\ has_int_msg[caller] = 0
       THEN /\ Goto("user")
            /\ UNCHANGED <<procVars, has_int_msg, q_sending, msg, both,
                           key_pressed, p_proc_ready>>
       ELSE Halt("338")

-----------------------------------------------------------------------------
(* block(p): the assertion, then schedule(), which spins until some process *)
(* is ready; the handlers run meanwhile.                                    *)
BlockAssert(a, b) ==
    /\ At(a)
    /\ IF p_flags[caller] # {}
       THEN /\ Goto(b)
            /\ UNCHANGED <<procVars, has_int_msg, q_sending, msg, both,
                           key_pressed, p_proc_ready>>
       ELSE Halt("131")

BlockSchedule(a, b) ==
    /\ At(a)
    /\ Goto(b)
    /\ p_proc_ready' \in Ready
    /\ UNCHANGED <<procVars, has_int_msg, q_sending, msg, both, key_pressed>>

Block == \/ BlockAssert("send_block", "send_sched")
         \/ BlockSchedule("send_sched", "send_228")
         \/ BlockAssert("recv_block", "recv_sched")
         \/ BlockSchedule("recv_sched", "recv_338")

-----------------------------------------------------------------------------
(* The interrupt handlers: each can run in user mode and inside a system    *)
(* call.                                                                    *)

(***************************************************************************)
(* inform_int(t).  A null p_msg is written through as well, which reaches  *)
(* address 0 and no message.                                               *)
(***************************************************************************)
inform_int(t) ==
    IF Receiving(t) /\ p_recvfrom[t] \in {INTERRUPT, ANY}
    THEN IF p_flags[t] \subseteq {"RECEIVING"} /\ p_sendto[t] = NO_TASK
         THEN /\ msg' = IF p_msg[t] = "null" THEN msg
                        ELSE [msg EXCEPT ![t] = HardInt]
              /\ p_msg' = [p_msg EXCEPT ![t] = "null"]
              /\ has_int_msg' = [has_int_msg EXCEPT ![t] = 0]
              /\ p_flags' = [p_flags EXCEPT ![t] = {}]
              /\ p_recvfrom' = [p_recvfrom EXCEPT ![t] = NO_TASK]
              /\ UNCHANGED <<p_sendto, halted>>
         ELSE /\ halted' = "420"
              /\ UNCHANGED <<procVars, has_int_msg, msg>>
    ELSE /\ has_int_msg' = [has_int_msg EXCEPT ![t] = 1]
         /\ UNCHANGED <<procVars, msg, halted>>

HdHandler ==
    /\ halted = "no"
    /\ inform_int(TASK_HD)
    /\ UNCHANGED <<q_sending, both, key_pressed, p_proc_ready, pc, caller, peer>>

(* Inside a system call (k_reenter # 0) the clock never reschedules. *)
ClockHandler ==
    /\ halted = "no"
    /\ IF key_pressed = 1 THEN inform_int(TASK_TTY)
                          ELSE UNCHANGED <<procVars, has_int_msg, msg, halted>>
    /\ p_proc_ready' \in {p_proc_ready} \cup
          (IF pc = "user" THEN {p \in Proc : p_flags'[p] = {}} ELSE {})
    /\ UNCHANGED <<q_sending, both, key_pressed, pc, caller, peer>>

KeyboardHandler ==
    /\ halted = "no"
    /\ key_pressed' = 1
    /\ UNCHANGED <<procVars, has_int_msg, q_sending, msg, both, p_proc_ready,
                   pc, caller, peer, halted>>

(* task_tty after it has read the keys. *)
TtyKeysRead ==
    /\ At("user")
    /\ p_proc_ready = TASK_TTY
    /\ key_pressed' = 0
    /\ UNCHANGED <<procVars, has_int_msg, q_sending, msg, both, p_proc_ready,
                   pc, caller, peer, halted>>

(* A failed assertion or a panic stops the machine (sys_printx: hlt). *)
Stopped == halted # "no" /\ UNCHANGED vars

-----------------------------------------------------------------------------
Send == \/ SendDeadlock \/ SendMeets \/ SendEnqueue \/ SendAssert
        \/ SendCopy \/ SendClear \/ SendWake \/ SendReturn

Receive == \/ RecvInterrupt \/ RecvInterruptReturn \/ RecvNothing
           \/ RecvSleep \/ RecvReturn
           \/ \E s \in Proc : RecvTake(s)

Next ==
    \/ \E c \in Calls : CallSend(c) \/ CallReceive(c)
    \/ \E p \in Proc : CallBoth(p)
    \/ Send
    \/ Receive
    \/ Block
    \/ HdHandler \/ ClockHandler \/ KeyboardHandler
    \/ TtyKeysRead
    \/ Stopped

Spec == Init /\ [][Next]_vars

-----------------------------------------------------------------------------
(* Properties *)

(***************************************************************************)
(* The list q_sending of a process holds each process blocked in a SEND to *)
(* it exactly once, and nobody else: msg_send appends and msg_receive      *)
(* unlinks without losing or doubling a sender.                            *)
(***************************************************************************)
QueueHoldsSenders ==
    \A d \in Proc :
        /\ \A i, j \in DOMAIN q_sending[d] :
              q_sending[d][i] = q_sending[d][j] => i = j
        /\ {q_sending[d][i] : i \in DOMAIN q_sending[d]}
              = {s \in Proc : Sending(s) /\ p_sendto[s] = d}

(***************************************************************************)
(* The senders never wait in a circle: every set of processes has one that *)
(* does not wait to send to a process of the set.  It is what deadlock()   *)
(* is for, and what makes the loop of deadlock() itself end.               *)
(***************************************************************************)
NoSendCycle ==
    \A S \in SUBSET Proc :
        S # {} => \E p \in S : ~ (Sending(p) /\ p_sendto[p] \in S)

(***************************************************************************)
(* No two processes sleep on each other's message: a sender is never kept  *)
(* in the list of a process that sleeps until that sender, or any, sends.  *)
(***************************************************************************)
NoMissedRendezvous ==
    \A s, d \in Proc : Sending(s) /\ p_sendto[s] = d => ~ WaitsFor(d, s)

(***************************************************************************)
(* The assertions of msg_send, msg_receive and inform_int about the fields *)
(* of both processes hold whatever the handlers do, except the ones that   *)
(* an interrupt between the test and the assertion makes fail: those at    *)
(* lines 131, 181, 255-258 and 338-342.  The model halts on each of them;  *)
(* NoInterruptLeft is about the last.                                      *)
(***************************************************************************)
KernelAssertsHold == halted \notin {"191", "202", "228", "269", "420"}

(***************************************************************************)
(* The message has reached the receiver when msg_send makes it ready,      *)
(* unless the receiver is one that interrupts wake and one came between.   *)
(***************************************************************************)
MessageArrives ==
    pc = "send_187" =>
        \/ msg[peer] = msg[caller]
        \/ peer \in {TASK_TTY, TASK_HD} /\ ~ Receiving(peer)

(***************************************************************************)
(* A process blocked in a SEND goes on only in the step that gives its     *)
(* message, unchanged, to the process it was meant for.                    *)
(***************************************************************************)
SenderWaitsForReceiver ==
    [][\A s \in Proc : Sending(s) /\ ~ Sending(s)'
          => msg'[p_sendto[s]] = msg[s] /\ msg[s].source = s]_vars

(***************************************************************************)
(* A process that sleeps until one particular process sends is woken with  *)
(* a message of that process: neither an interrupt nor another sender is   *)
(* taken for the answer.  A BOTH depends on it.                            *)
(***************************************************************************)
AnswerFromPeer ==
    [][\A p \in Proc : Receiving(p) /\ ~ Receiving(p)' /\ p_recvfrom[p] \in Proc
          => msg'[p].source = p_recvfrom[p]]_vars

(***************************************************************************)
(* proc.c:342: a process that goes to sleep in msg_receive has no          *)
(* interrupt left that it was not told of.                                 *)
(***************************************************************************)
NoInterruptLeft == pc = "recv_338" => has_int_msg[caller] = 0
=============================================================================
