----------------------------- MODULE IpcProofs -----------------------------
(***************************************************************************)
(* Proofs about Ipc, for any set of processes and any calls they make: its *)
(* invariants, and that it implements Messages.                            *)
(***************************************************************************)
EXTENDS IpcRefinement, TLAPS

-----------------------------------------------------------------------------
(* The inductive invariant *)

Handing == {"send_181", "send_185", "send_186", "send_187"}

(* The fields of a process agree with its flags.  Between lines 186 and 187 *)
(* the receiver of a message has lost its p_msg and not yet its flag.       *)
FieldsAgree ==
    \A p \in Proc :
        \/ Clean(p)
        \/ p_sendto[p] \in Proc /\ BlockedSender(p, p_sendto[p])
        \/ /\ p_flags[p] = {"RECEIVING"}
           /\ p_recvfrom[p] # NO_TASK
           /\ p_sendto[p] = NO_TASK
           /\ p_msg[p] = "m" \/ (pc = "send_187" /\ p = peer)

(* Where a system call is, and what the flags of its two processes are. *)
CallState ==
    /\ \A p \in Proc : both[p] # p
    /\ pc # "user" => caller # peer
    /\ pc \in {"msg_send", "msg_receive", "recv_255", "recv_333"} \cup Handing
         => p_proc_ready = caller /\ p_flags[caller] = {}
    /\ pc \in {"send_block", "send_sched", "send_228"}
         => p_flags[caller] = {"SENDING"} /\ p_sendto[caller] = peer
    /\ pc \in Handing
         => Clean(peer) \/ WaitsFor(peer, caller)
    /\ pc \in Handing /\ peer \notin {TASK_TTY, TASK_HD} => Receiving(peer)
    /\ pc = "send_187" => p_msg[peer] = "null"
    /\ pc \in {"user", "send_228", "recv_338"} => p_flags[p_proc_ready] = {}
    /\ pc = "recv_333" => \A s \in Proc :
         Sending(s) /\ p_sendto[s] = caller => peer \notin {s, ANY}

(* A message on its way out carries the name of its sender. *)
Stamped ==
    /\ \A s \in Proc : Sending(s) => msg[s].source = s
    /\ pc \in {"msg_send"} \cup Handing => msg[caller].source = caller
    /\ pc \in {"send_186", "send_187"}
         => msg[peer] = msg[caller] \/ ~ Receiving(peer)

IInv == /\ TypeOK
        /\ FieldsAgree
        /\ CallState
        /\ Stamped
        /\ QueueHoldsSenders
        /\ NoSendCycle
        /\ NoMissedRendezvous
        /\ KernelAssertsHold

-----------------------------------------------------------------------------
(* The type invariant *)

USE DEF procVars, vars

(* Unlink removes one element and keeps the others in their order. *)
LEMMA UnlinkProperties ==
    ASSUME NEW S, NEW q \in Seq(S), NEW i \in 1 .. Len(q)
    PROVE  /\ Unlink(q, i) \in Seq(S)
           /\ Len(Unlink(q, i)) = Len(q) - 1
           /\ DOMAIN Unlink(q, i) = 1 .. Len(q) - 1
           /\ \A j \in 1 .. Len(q) - 1 :
                 Unlink(q, i)[j] = IF j < i THEN q[j] ELSE q[j + 1]
<1>1. Len(q) \in Nat /\ Len(q) - 1 \in Nat
  OBVIOUS
<1>2. \A j \in 1 .. Len(q) - 1 : (IF j < i THEN q[j] ELSE q[j + 1]) \in S
  OBVIOUS
<1>3. Unlink(q, i) \in [1 .. Len(q) - 1 -> S]
  BY <1>2 DEF Unlink
<1>4. Unlink(q, i) \in Seq(S)
  BY <1>1, <1>3
<1> QED
  BY <1>1, <1>3, <1>4 DEF Unlink

NoRepeats(q) == \A a, b \in DOMAIN q : q[a] = q[b] => a = b
Elements(q) == {q[a] : a \in DOMAIN q}

(* From a list without repetitions it removes exactly that element. *)
LEMMA UnlinkElements ==
    ASSUME NEW S, NEW q \in Seq(S), NEW i \in 1 .. Len(q),
           NoRepeats(q)
    PROVE  /\ NoRepeats(Unlink(q, i))
           /\ Elements(Unlink(q, i)) = Elements(q) \ {q[i]}
<1> DEFINE r == Unlink(q, i)  n == Len(q)
<1>1. n \in Nat /\ DOMAIN q = 1 .. n /\ i \in 1 .. n
  OBVIOUS
<1>2. /\ DOMAIN r = 1 .. n - 1
      /\ \A j \in 1 .. n - 1 : r[j] = IF j < i THEN q[j] ELSE q[j + 1]
  BY UnlinkProperties
<1>3. \A a, b \in 1 .. n : q[a] = q[b] => a = b
  BY <1>1 DEF NoRepeats
<1> HIDE DEF r, n
<1>4. ASSUME NEW j \in 1 .. n - 1, NEW k \in 1 .. n - 1, r[j] = r[k] PROVE j = k
  BY <1>1, <1>2, <1>3, <1>4
<1>5. ASSUME NEW j \in 1 .. n - 1
      PROVE  \E k \in 1 .. n : k # i /\ r[j] = q[k]
  <2>1. CASE j < i
    BY <1>1, <1>2, <2>1
  <2>2. CASE ~ (j < i)
    <3>1. j + 1 \in 1 .. n /\ j + 1 # i /\ r[j] = q[j + 1]
      BY <1>1, <1>2, <2>2
    <3> QED
      BY <3>1
  <2> QED
    BY <2>1, <2>2
<1>6. ASSUME NEW k \in 1 .. n, k # i
      PROVE  \E j \in 1 .. n - 1 : r[j] = q[k]
  <2>1. CASE k < i
    <3>1. k \in 1 .. n - 1 /\ r[k] = q[k]
      BY <1>1, <1>2, <2>1
    <3> QED
      BY <3>1
  <2>2. CASE ~ (k < i)
    <3>1. k - 1 \in 1 .. n - 1 /\ r[k - 1] = q[k]
      BY <1>1, <1>2, <1>6, <2>2
    <3> QED
      BY <3>1
  <2> QED
    BY <2>1, <2>2
<1>7. \A k \in 1 .. n : q[k] = q[i] <=> k = i
  BY <1>1, <1>3
<1>8. {r[j] : j \in 1 .. n - 1} = {q[k] : k \in 1 .. n} \ {q[i]}
  <2>1. ASSUME NEW j \in 1 .. n - 1
        PROVE  r[j] \in {q[k] : k \in 1 .. n} \ {q[i]}
    BY <1>5, <1>7
  <2>2. ASSUME NEW k \in 1 .. n, q[k] # q[i]
        PROVE  q[k] \in {r[j] : j \in 1 .. n - 1}
    <3>1. k # i
      BY <2>2
    <3>2. PICK j \in 1 .. n - 1 : r[j] = q[k]
      BY <1>6, <3>1
    <3> QED
      BY <3>2
  <2> QED
    BY <2>1, <2>2
<1> QED
  BY <1>1, <1>2, <1>4, <1>8 DEF r, NoRepeats, Elements

LEMMA TypeInit == Init => TypeOK
BY IpcAssumption DEF Init, TypeOK, Message, SendPc, RecvPc, Peer

LEMMA InformType ==
    ASSUME TypeOK, NEW t \in Proc, inform_int(t)
    PROVE  /\ p_flags' \in [Proc -> SUBSET {"SENDING", "RECEIVING"}]
           /\ p_msg' \in [Proc -> {"null", "m"}]
           /\ p_recvfrom' \in [Proc -> Peer \cup {NO_TASK}]
           /\ p_sendto' \in [Proc -> Proc \cup {NO_TASK}]
           /\ has_int_msg' \in [Proc -> {0, 1}]
           /\ msg' \in [Proc -> Message]
           /\ halted' \in {"no"} \cup Halts
<1>1. HardInt \in Message
  BY DEF HardInt, Message
<1>2. CASE ~ (Receiving(t) /\ p_recvfrom[t] \in {INTERRUPT, ANY})
  BY <1>2 DEF inform_int, TypeOK
<1>3. CASE /\ Receiving(t) /\ p_recvfrom[t] \in {INTERRUPT, ANY}
           /\ ~ (p_flags[t] \subseteq {"RECEIVING"} /\ p_sendto[t] = NO_TASK)
  BY <1>3 DEF inform_int, TypeOK, Halts
<1>4. CASE /\ Receiving(t) /\ p_recvfrom[t] \in {INTERRUPT, ANY}
           /\ p_flags[t] \subseteq {"RECEIVING"} /\ p_sendto[t] = NO_TASK
  <2>1. /\ msg' = IF p_msg[t] = "null" THEN msg ELSE [msg EXCEPT ![t] = HardInt]
        /\ p_msg' = [p_msg EXCEPT ![t] = "null"]
        /\ has_int_msg' = [has_int_msg EXCEPT ![t] = 0]
        /\ p_flags' = [p_flags EXCEPT ![t] = {}]
        /\ p_recvfrom' = [p_recvfrom EXCEPT ![t] = NO_TASK]
        /\ UNCHANGED <<p_sendto, halted>>
    BY <1>4 DEF inform_int
  <2> QED
    BY <1>1, <2>1 DEF TypeOK
<1> QED
  BY <1>2, <1>3, <1>4

LEMMA TypeStep == TypeOK /\ [Next]_vars => TypeOK'
<1> SUFFICES ASSUME TypeOK, [Next]_vars PROVE TypeOK'
  OBVIOUS
<1> USE IpcAssumption DEF TypeOK, SendPc, RecvPc, Peer
<1>1. ASSUME NEW c \in Calls, CallSend(c) PROVE TypeOK'
  <2>1. PICK b \in Body : msg' = [msg EXCEPT ![c.p] = [source |-> c.p, body |-> b]]
    BY <1>1 DEF CallSend
  <2>2. [source |-> c.p, body |-> b] \in Message
    BY DEF Message
  <2> QED
    BY <1>1, <2>1, <2>2 DEF CallSend, Enter, At
<1>2. ASSUME NEW c \in Calls, CallReceive(c) PROVE TypeOK'
  <2>1. [source |-> c.p, body |-> "none"] \in Message
    BY DEF Message
  <2> QED
    BY <1>2, <2>1 DEF CallReceive, Enter, At
<1>3. ASSUME NEW p \in Proc, CallBoth(p) PROVE TypeOK'
  <2>1. [source |-> p, body |-> msg[p].body] \in Message
    BY DEF Message
  <2> QED
    BY <1>3, <2>1 DEF CallBoth, Enter, At
<1>4. CASE SendDeadlock
  BY <1>4 DEF SendDeadlock, At, Halt, Halts
<1>5. CASE SendMeets
  BY <1>5 DEF SendMeets, At, Goto
<1>6. CASE SendEnqueue
  <2>1. CASE ~ (p_flags[caller] \subseteq {"SENDING"})
    BY <1>6, <2>1 DEF SendEnqueue, Halt, Halts
  <2>2. CASE p_flags[caller] \subseteq {"SENDING"}
    <3>1. peer \in Proc
      BY <1>6 DEF SendEnqueue, At
    <3>2. Append(q_sending[peer], caller) \in Seq(Proc)
      BY <3>1
    <3>3. /\ Goto("send_block")
          /\ p_flags' = [p_flags EXCEPT ![caller] = {"SENDING"}]
          /\ p_sendto' = [p_sendto EXCEPT ![caller] = peer]
          /\ p_msg' = [p_msg EXCEPT ![caller] = "m"]
          /\ q_sending' = [q_sending EXCEPT ![peer] = Append(@, caller)]
          /\ UNCHANGED <<p_recvfrom, has_int_msg, msg, both, key_pressed, p_proc_ready>>
      BY <1>6, <2>2 DEF SendEnqueue
    <3> QED
      BY <3>1, <3>2, <3>3 DEF Goto
  <2> QED
    BY <2>1, <2>2
<1>7. CASE SendAssert
  BY <1>7 DEF SendAssert, At, Goto, Halt, Halts
<1>8. CASE SendCopy
  BY <1>8 DEF SendCopy, At, Goto
<1>9. CASE SendClear
  BY <1>9 DEF SendClear, At, Goto
<1>10. CASE SendWake
  BY <1>10, ZenonT(40) DEF SendWake, At, Goto, Halt, Halts
<1>11. CASE SendReturn
  BY <1>11 DEF SendReturn, At, Goto, Halt, Halts
<1>12. CASE RecvInterrupt
  <2>1. HardInt \in Message
    BY DEF HardInt, Message
  <2> QED
    BY <1>12, <2>1 DEF RecvInterrupt, At, Goto
<1>13. CASE RecvInterruptReturn
  BY <1>13 DEF RecvInterruptReturn, At, Goto, Halt, Halts
<1>14. ASSUME NEW s \in Proc, RecvTake(s) PROVE TypeOK'
  <2> DEFINE ok == /\ Clean(caller)
                   /\ BlockedSender(s, caller)
                   /\ \E i \in DOMAIN q_sending[caller] : q_sending[caller][i] = s
  <2>1. CASE ~ ok
    BY <1>14, <2>1 DEF RecvTake, Halt, Halts
  <2>2. CASE ok
    <3>1. PICK i \in DOMAIN q_sending[caller] :
            q_sending' = [q_sending EXCEPT ![caller] = Unlink(@, i)]
      BY <1>14, <2>2 DEF RecvTake
    <3>2. i \in 1 .. Len(q_sending[caller])
      OBVIOUS
    <3>3. Unlink(q_sending[caller], i) \in Seq(Proc)
      BY <3>2, UnlinkProperties
    <3>4. q_sending' \in [Proc -> Seq(Proc)]
      BY <3>1, <3>3
    <3>5. /\ Goto("user")
          /\ msg' = [msg EXCEPT ![caller] = msg[s]]
          /\ p_msg' = [p_msg EXCEPT ![s] = "null"]
          /\ p_sendto' = [p_sendto EXCEPT ![s] = NO_TASK]
          /\ p_flags' = [p_flags EXCEPT ![s] = @ \ {"SENDING"}]
          /\ UNCHANGED <<p_recvfrom, has_int_msg, both, key_pressed, p_proc_ready>>
      BY <1>14, <2>2 DEF RecvTake
    <3> QED
      BY <3>4, <3>5 DEF Goto
  <2> QED
    BY <2>1, <2>2
<1>15. CASE RecvNothing
  BY <1>15 DEF RecvNothing, At, Goto
<1>16. CASE RecvSleep
  BY <1>16 DEF RecvSleep, At, Goto
<1>17. CASE RecvReturn
  BY <1>17 DEF RecvReturn, At, Goto, Halt, Halts
<1>18. CASE Block
  BY <1>18 DEF Block, BlockAssert, BlockSchedule, Ready, At, Goto, Halt, Halts
<1>19. CASE HdHandler
  BY <1>19, InformType DEF HdHandler
<1>20. CASE ClockHandler
  BY <1>20, InformType DEF ClockHandler
<1>21. CASE KeyboardHandler
  BY <1>21 DEF KeyboardHandler
<1>22. CASE TtyKeysRead
  BY <1>22 DEF TtyKeysRead, At
<1>23. CASE Stopped \/ UNCHANGED vars
  BY <1>23 DEF Stopped
<1> QED
  BY <1>1, <1>2, <1>3, <1>4, <1>5, <1>6, <1>7, <1>8, <1>9, <1>10, <1>11, <1>12,
     <1>13, <1>14, <1>15, <1>16, <1>17, <1>18, <1>19, <1>20, <1>21, <1>22, <1>23
     DEF Next, Send, Receive

-----------------------------------------------------------------------------
(* What the steps do to the processes, given the invariant *)

(* The invariant without the type invariant, which TypeStep covers. *)
Core == /\ FieldsAgree
        /\ CallState
        /\ Stamped
        /\ QueueHoldsSenders
        /\ NoSendCycle
        /\ NoMissedRendezvous
        /\ KernelAssertsHold

(* The three invariants that only read the processes and the lists. *)
LEMMA QuietStep ==
    ASSUME QueueHoldsSenders, NoSendCycle, NoMissedRendezvous,
           UNCHANGED <<procVars, q_sending>>
    PROVE  QueueHoldsSenders' /\ NoSendCycle' /\ NoMissedRendezvous'
BY DEF QueueHoldsSenders, NoSendCycle, NoMissedRendezvous, Sending, Receiving,
       WaitsFor

(* A process with a flag has that flag alone. *)
LEMMA FlagsApart ==
    ASSUME TypeOK, FieldsAgree, NEW p \in Proc
    PROVE  /\ p_flags[p] \in {{}, {"SENDING"}, {"RECEIVING"}}
           /\ Sending(p) <=> p_flags[p] = {"SENDING"}
           /\ Receiving(p) <=> p_flags[p] = {"RECEIVING"}
BY DEF FieldsAgree, Clean, BlockedSender, Sending, Receiving

LEMMA HaltStep ==
    ASSUME IInv, NEW a, Halt(a), a \notin {"191", "202", "228", "269", "420"}
    PROVE  Core'
<1>1. QueueHoldsSenders' /\ NoSendCycle' /\ NoMissedRendezvous'
  BY QuietStep DEF Halt, IInv
<1>2. FieldsAgree'
  BY DEF Halt, IInv, FieldsAgree, Clean, BlockedSender
<1>3. CallState'
  BY DEF Halt, IInv, CallState, Handing, Clean, WaitsFor, Receiving, Sending
<1>4. Stamped'
  BY DEF Halt, IInv, Stamped, Handing, Receiving, Sending
<1>5. KernelAssertsHold'
  BY DEF Halt, KernelAssertsHold
<1> QED
  BY <1>1, <1>2, <1>3, <1>4, <1>5 DEF Core


(* A step that changes no process and no list, and does not stop the kernel. *)
LEMMA QuietCore ==
    ASSUME IInv, UNCHANGED <<procVars, q_sending, halted>>, pc # "send_187",
           CallState', Stamped'
    PROVE  Core'
<1>1. QueueHoldsSenders' /\ NoSendCycle' /\ NoMissedRendezvous'
  BY QuietStep DEF IInv
<1>2. FieldsAgree'
  BY DEF IInv, FieldsAgree, Clean, BlockedSender
<1>3. KernelAssertsHold'
  BY DEF IInv, KernelAssertsHold
<1> QED
  BY <1>1, <1>2, <1>3 DEF Core

(* The calls of the programs. *)
LEMMA CallStep ==
    ASSUME IInv, (\E c \in Calls : CallSend(c) \/ CallReceive(c))
                   \/ (\E p \in Proc : CallBoth(p))
    PROVE  Core'
<1> USE IpcAssumption
<1>1. ASSUME NEW c \in Calls, CallSend(c) PROVE Core'
  <2>1. /\ UNCHANGED <<procVars, q_sending, halted>> /\ pc # "send_187"
    BY <1>1 DEF CallSend, Enter, At
  <2>2. CallState'
    BY <1>1 DEF CallSend, Enter, At, IInv, TypeOK, CallState, Handing, Clean, WaitsFor, Receiving, Sending, Peer
  <2>3. Stamped'
    BY <1>1 DEF CallSend, Enter, At, IInv, TypeOK, CallState, Stamped, Handing, Receiving, Sending, Peer
  <2> QED
    BY <2>1, <2>2, <2>3, QuietCore
<1>2. ASSUME NEW c \in Calls, CallReceive(c) PROVE Core'
  <2>1. /\ UNCHANGED <<procVars, q_sending, halted>> /\ pc # "send_187"
    BY <1>2 DEF CallReceive, Enter, At
  <2>2. CallState'
    BY <1>2 DEF CallReceive, Enter, At, IInv, TypeOK, CallState, Handing, Clean, WaitsFor, Receiving, Sending, Peer
  <2>3. Stamped'
    BY <1>2 DEF CallReceive, Enter, At, IInv, TypeOK, CallState, Stamped, Handing, Receiving, Sending, Peer
  <2> QED
    BY <2>1, <2>2, <2>3, QuietCore
<1>3. ASSUME NEW p \in Proc, CallBoth(p) PROVE Core'
  <2>1. /\ UNCHANGED <<procVars, q_sending, halted>> /\ pc # "send_187"
    BY <1>3 DEF CallBoth, Enter, At
  <2>2. CallState'
    BY <1>3 DEF CallBoth, Enter, At, IInv, TypeOK, CallState, Handing, Clean, WaitsFor, Receiving, Sending, Peer
  <2>3. Stamped'
    BY <1>3 DEF CallBoth, Enter, At, IInv, TypeOK, CallState, Stamped, Handing, Receiving, Sending, Peer
  <2> QED
    BY <2>1, <2>2, <2>3, QuietCore
<1> QED
  BY <1>1, <1>2, <1>3

(* The other steps that change no process and no list. *)
LEMMA QuietSteps ==
    ASSUME IInv, \/ SendDeadlock \/ SendMeets \/ SendAssert \/ SendCopy
                 \/ RecvInterrupt \/ RecvInterruptReturn \/ RecvNothing
                 \/ RecvReturn \/ Block \/ KeyboardHandler \/ TtyKeysRead
                 \/ Stopped \/ UNCHANGED vars
    PROVE  Core'
<1>1. CASE SendDeadlock
  BY <1>1, HaltStep DEF SendDeadlock
<1>2. CASE SendMeets
  <2>1. /\ UNCHANGED <<procVars, q_sending, halted>> /\ pc # "send_187"
    BY <1>2 DEF SendMeets, At, Goto
  <2>2. CallState'
    BY <1>2 DEF SendMeets, At, Goto, IInv, TypeOK, CallState, Handing, Clean, WaitsFor, Receiving, Sending
  <2>3. Stamped'
    BY <1>2 DEF SendMeets, At, Goto, IInv, TypeOK, CallState, Stamped, Handing, Receiving, Sending
  <2> QED
    BY <2>1, <2>2, <2>3, QuietCore
<1>3. CASE SendAssert
  <2>1. CASE p_msg[peer] = "null"
    BY <1>3, <2>1, HaltStep DEF SendAssert
  <2>2. CASE p_msg[peer] # "null"
    <3>1. UNCHANGED <<procVars, q_sending, halted>> /\ pc # "send_187"
      BY <1>3, <2>2 DEF SendAssert, At, Goto
    <3>2. CallState'
      BY <1>3, <2>2 DEF SendAssert, At, Goto, IInv, CallState, Handing, Clean,
                        WaitsFor, Receiving, Sending
    <3>3. Stamped'
      BY <1>3, <2>2 DEF SendAssert, At, Goto, IInv, Stamped, Handing, Receiving,
                        Sending
    <3> QED
      BY <3>1, <3>2, <3>3, QuietCore
  <2> QED
    BY <2>1, <2>2
<1>4. CASE SendCopy
  <2>1. UNCHANGED <<procVars, q_sending, halted>> /\ pc # "send_187"
    BY <1>4 DEF SendCopy, At, Goto
  <2>2. CallState'
    BY <1>4 DEF SendCopy, At, Goto, IInv, TypeOK, CallState, Handing, Clean, WaitsFor, Receiving, Sending
  <2>3. Stamped'
    <3> USE IpcAssumption DEF IInv, TypeOK
    <3>1. peer \in Proc /\ caller # peer /\ (Clean(peer) \/ Receiving(peer))
      BY <1>4 DEF SendCopy, At, CallState, Handing, SendPc, WaitsFor
    <3>2. CASE p_msg[peer] = "null"
      <4>1. ~ Receiving(peer)
        BY <1>4, <3>1, <3>2 DEF SendCopy, At, FieldsAgree, Clean, BlockedSender,
                                Receiving, SendPc
      <4> QED
        BY <1>4, <3>2, <4>1 DEF SendCopy, At, Goto, Stamped, Handing, Receiving,
                                Sending
    <3>3. CASE p_msg[peer] # "null"
      <4>1. ~ Sending(peer) /\ peer \in Proc
        BY <1>4, <3>1, <3>3, FlagsApart, ZenonT(40) DEF SendCopy, At, SendPc, Clean
      <4>2. msg' = [msg EXCEPT ![peer] = msg[caller]]
        BY <1>4, <3>3 DEF SendCopy
      <4> QED
        BY <1>4, <3>1, <4>1, <4>2 DEF SendCopy, At, Goto, Stamped, Handing,
                                      Receiving, Sending, CallState
    <3> QED
      BY <3>2, <3>3
  <2> QED
    BY <2>1, <2>2, <2>3, QuietCore
<1>5. CASE RecvInterrupt
  <2>1. UNCHANGED <<procVars, q_sending, halted>> /\ pc # "send_187"
    BY <1>5 DEF RecvInterrupt, At, Goto
  <2>2. CallState'
    BY <1>5 DEF RecvInterrupt, At, Goto, IInv, TypeOK, CallState, Handing, Clean, WaitsFor, Receiving, Sending
  <2>3. Stamped'
    BY <1>5 DEF RecvInterrupt, At, Goto, IInv, TypeOK, CallState, Stamped, Handing, Receiving, Sending
  <2> QED
    BY <2>1, <2>2, <2>3, QuietCore
<1>6. CASE RecvInterruptReturn
  <2>1. CASE ~ (/\ p_flags[caller] = {}
              /\ p_msg[caller] = "null"
              /\ p_sendto[caller] = NO_TASK
              /\ has_int_msg[caller] = 0)
    BY <1>6, <2>1, HaltStep DEF RecvInterruptReturn
  <2>2. CASE /\ p_flags[caller] = {}
              /\ p_msg[caller] = "null"
              /\ p_sendto[caller] = NO_TASK
              /\ has_int_msg[caller] = 0
    <3>1. UNCHANGED <<procVars, q_sending, halted>> /\ pc # "send_187"
      BY <1>6, <2>2 DEF RecvInterruptReturn, At, Goto
    <3>2. CallState'
      BY <1>6, <2>2 DEF RecvInterruptReturn, At, Goto, IInv, TypeOK, CallState, Handing, Clean, WaitsFor, Receiving, Sending
    <3>3. Stamped'
      BY <1>6, <2>2 DEF RecvInterruptReturn, At, Goto, IInv, TypeOK, CallState, Stamped, Handing, Receiving, Sending
    <3> QED
      BY <3>1, <3>2, <3>3, QuietCore
  <2> QED
    BY <2>1, <2>2
<1>7. CASE RecvNothing
  <2>1. UNCHANGED <<procVars, q_sending, halted>> /\ pc # "send_187"
    BY <1>7 DEF RecvNothing, Offers, At, Goto
  <2>2. CallState'
    <3>1. ASSUME NEW s \in Proc, Sending(s), p_sendto[s] = caller
          PROVE  peer \notin {s, ANY}
      <4>1. PICK i \in DOMAIN q_sending[caller] : q_sending[caller][i] = s
        BY <3>1 DEF IInv, TypeOK, QueueHoldsSenders
      <4>2. q_sending[caller] # <<>> /\ Head(q_sending[caller]) \in Proc
        BY <4>1 DEF IInv, TypeOK
      <4>3. peer # ANY
        BY <1>7, <4>2 DEF RecvNothing, Offers
      <4>4. peer # s
        BY <1>7, <3>1 DEF RecvNothing, Offers
      <4> QED
        BY <4>3, <4>4
    <3> QED
      BY <1>7, <3>1 DEF RecvNothing, At, Goto, IInv, CallState, Handing, Clean,
                        WaitsFor, Receiving, Sending
  <2>3. Stamped'
    BY <1>7 DEF RecvNothing, Offers, At, Goto, IInv, TypeOK, CallState, Stamped, Handing, Receiving, Sending
  <2> QED
    BY <2>1, <2>2, <2>3, QuietCore
<1>8. CASE RecvReturn
  <2>1. CASE ~ (/\ p_flags[caller] = {"RECEIVING"}
              /\ p_msg[caller] # "null"
              /\ p_recvfrom[caller] # NO_TASK
              /\ p_sendto[caller] = NO_TASK
              /\ has_int_msg[caller] = 0)
    BY <1>8, <2>1, HaltStep DEF RecvReturn
  <2>2. CASE /\ p_flags[caller] = {"RECEIVING"}
              /\ p_msg[caller] # "null"
              /\ p_recvfrom[caller] # NO_TASK
              /\ p_sendto[caller] = NO_TASK
              /\ has_int_msg[caller] = 0
    <3>1. UNCHANGED <<procVars, q_sending, halted>> /\ pc # "send_187"
      BY <1>8, <2>2 DEF RecvReturn, At, Goto
    <3>2. CallState'
      BY <1>8, <2>2 DEF RecvReturn, At, Goto, IInv, TypeOK, CallState, Handing, Clean, WaitsFor, Receiving, Sending
    <3>3. Stamped'
      BY <1>8, <2>2 DEF RecvReturn, At, Goto, IInv, TypeOK, CallState, Stamped, Handing, Receiving, Sending
    <3> QED
      BY <3>1, <3>2, <3>3, QuietCore
  <2> QED
    BY <2>1, <2>2
<1>9. CASE BlockAssert("send_block", "send_sched")
  <2>1. CASE ~ (p_flags[caller] # {})
    BY <1>9, <2>1, HaltStep DEF BlockAssert
  <2>2. CASE p_flags[caller] # {}
    <3>1. UNCHANGED <<procVars, q_sending, halted>> /\ pc # "send_187"
      BY <1>9, <2>2 DEF BlockAssert, At, Goto
    <3>2. CallState'
      BY <1>9, <2>2 DEF BlockAssert, At, Goto, IInv, TypeOK, CallState, Handing, Clean, WaitsFor, Receiving, Sending
    <3>3. Stamped'
      BY <1>9, <2>2 DEF BlockAssert, At, Goto, IInv, TypeOK, CallState, Stamped, Handing, Receiving, Sending
    <3> QED
      BY <3>1, <3>2, <3>3, QuietCore
  <2> QED
    BY <2>1, <2>2
<1>10. CASE BlockAssert("recv_block", "recv_sched")
  <2>1. CASE ~ (p_flags[caller] # {})
    BY <1>10, <2>1, HaltStep DEF BlockAssert
  <2>2. CASE p_flags[caller] # {}
    <3>1. UNCHANGED <<procVars, q_sending, halted>> /\ pc # "send_187"
      BY <1>10, <2>2 DEF BlockAssert, At, Goto
    <3>2. CallState'
      BY <1>10, <2>2 DEF BlockAssert, At, Goto, IInv, TypeOK, CallState, Handing, Clean, WaitsFor, Receiving, Sending
    <3>3. Stamped'
      BY <1>10, <2>2 DEF BlockAssert, At, Goto, IInv, TypeOK, CallState, Stamped, Handing, Receiving, Sending
    <3> QED
      BY <3>1, <3>2, <3>3, QuietCore
  <2> QED
    BY <2>1, <2>2
<1>11. CASE BlockSchedule("send_sched", "send_228")
  <2>1. UNCHANGED <<procVars, q_sending, halted>> /\ pc # "send_187"
    BY <1>11 DEF BlockSchedule, Ready, At, Goto
  <2>2. CallState'
    BY <1>11 DEF BlockSchedule, Ready, At, Goto, IInv, TypeOK, CallState, Handing, Clean, WaitsFor, Receiving, Sending
  <2>3. Stamped'
    BY <1>11 DEF BlockSchedule, Ready, At, Goto, IInv, TypeOK, CallState, Stamped, Handing, Receiving, Sending
  <2> QED
    BY <2>1, <2>2, <2>3, QuietCore
<1>12. CASE BlockSchedule("recv_sched", "recv_338")
  <2>1. UNCHANGED <<procVars, q_sending, halted>> /\ pc # "send_187"
    BY <1>12 DEF BlockSchedule, Ready, At, Goto
  <2>2. CallState'
    BY <1>12 DEF BlockSchedule, Ready, At, Goto, IInv, TypeOK, CallState, Handing, Clean, WaitsFor, Receiving, Sending
  <2>3. Stamped'
    BY <1>12 DEF BlockSchedule, Ready, At, Goto, IInv, TypeOK, CallState, Stamped, Handing, Receiving, Sending
  <2> QED
    BY <2>1, <2>2, <2>3, QuietCore
<1>13. CASE KeyboardHandler \/ TtyKeysRead \/ Stopped \/ UNCHANGED vars
  <2>1. UNCHANGED <<procVars, q_sending, msg, both, p_proc_ready, pc, caller, peer,
                    halted>>
    BY <1>13 DEF KeyboardHandler, TtyKeysRead, Stopped
  <2>2. CallState'
    BY <2>1 DEF IInv, CallState, Handing, Clean, WaitsFor, Receiving, Sending
  <2>3. Stamped'
    BY <2>1 DEF IInv, Stamped, Handing, Receiving, Sending
  <2>4. FieldsAgree'
    BY <2>1 DEF IInv, FieldsAgree, Clean, BlockedSender
  <2>5. KernelAssertsHold'
    BY <2>1 DEF IInv, KernelAssertsHold
  <2>6. QueueHoldsSenders' /\ NoSendCycle' /\ NoMissedRendezvous'
    BY <2>1, QuietStep DEF IInv
  <2> QED
    BY <2>2, <2>3, <2>4, <2>5, <2>6 DEF Core
<1> QED
  BY <1>1, <1>2, <1>3, <1>4, <1>5, <1>6, <1>7, <1>8, <1>9, <1>10, <1>11, <1>12,
     <1>13 DEF Block

LEMMA SendReturnStep == ASSUME IInv, SendReturn PROVE Core'
<1>1. BlockedSender(caller, peer)
  BY DEF IInv, TypeOK, SendReturn, At, CallState, FieldsAgree, Clean, BlockedSender
<1>2. UNCHANGED <<procVars, q_sending, msg, both, p_proc_ready, caller, peer, halted>>
      /\ pc = "send_228" /\ pc' = "user"
  BY <1>1 DEF SendReturn, At, Goto
<1>3. CallState'
  BY <1>2 DEF IInv, CallState, Handing, Clean, WaitsFor, Receiving, Sending
<1>4. Stamped'
  BY <1>2 DEF IInv, Stamped, Handing, Receiving, Sending
<1> QED
  BY <1>2, <1>3, <1>4, QuietCore

LEMMA SendClearStep == ASSUME IInv, SendClear PROVE Core'
<1> USE DEF IInv, TypeOK
<1>1. /\ pc = "send_186" /\ pc' = "send_187" /\ peer \in Proc
      /\ p_msg' = [p_msg EXCEPT ![peer] = "null"]
      /\ UNCHANGED <<p_flags, p_recvfrom, p_sendto, has_int_msg, q_sending, msg,
                     both, p_proc_ready, caller, peer, halted>>
  BY DEF SendClear, At, Goto, SendPc
<1>2. Clean(peer) \/ Receiving(peer)
  BY <1>1 DEF CallState, Handing, WaitsFor
<1>3. FieldsAgree'
  BY <1>1, <1>2 DEF FieldsAgree, Clean, BlockedSender, Receiving
<1>4. CallState'
  BY <1>1 DEF CallState, Handing, Clean, WaitsFor, Receiving, Sending
<1>5. Stamped'
  BY <1>1 DEF Stamped, Handing, Receiving, Sending
<1>6. QueueHoldsSenders'
  BY <1>1 DEF QueueHoldsSenders, Sending
<1>7. NoSendCycle'
  BY <1>1 DEF NoSendCycle, Sending
<1>8. NoMissedRendezvous'
  BY <1>1 DEF NoMissedRendezvous, Sending, Receiving, WaitsFor
<1>9. KernelAssertsHold'
  BY <1>1 DEF KernelAssertsHold
<1> QED
  BY <1>3, <1>4, <1>5, <1>6, <1>7, <1>8, <1>9 DEF Core

(* A process that was receiving is made ready: by msg_send or by inform_int. *)
LEMMA WakeKeepsSenders ==
    ASSUME IInv, NEW t \in Proc, p_flags[t] \subseteq {"RECEIVING"},
           p_flags' = [p_flags EXCEPT ![t] = {}],
           p_recvfrom' = [p_recvfrom EXCEPT ![t] = NO_TASK],
           UNCHANGED <<p_sendto, q_sending>>
    PROVE  /\ QueueHoldsSenders' /\ NoSendCycle' /\ NoMissedRendezvous'
           /\ \A s \in Proc : Sending(s)' <=> Sending(s)
           /\ \A s \in Proc : Receiving(s)' <=> Receiving(s) /\ s # t
<1>1. \A s \in Proc : Sending(s)' <=> Sending(s)
  BY DEF IInv, TypeOK, Sending
<1>2. \A s \in Proc : Receiving(s)' <=> Receiving(s) /\ s # t
  BY DEF IInv, TypeOK, Receiving
<1>3. \A s, d \in Proc : WaitsFor(d, s)' => WaitsFor(d, s)
  BY <1>2 DEF IInv, TypeOK, WaitsFor
<1>4. QueueHoldsSenders'
  BY <1>1 DEF IInv, QueueHoldsSenders
<1>5. NoSendCycle'
  BY <1>1 DEF IInv, NoSendCycle
<1>6. NoMissedRendezvous'
  BY <1>1, <1>3 DEF IInv, NoMissedRendezvous
<1> QED
  BY <1>1, <1>2, <1>4, <1>5, <1>6

LEMMA SendWakeStep == ASSUME IInv, SendWake PROVE Core'
<1> USE DEF IInv, TypeOK
<1>1. pc = "send_187" /\ peer \in Proc /\ caller # peer /\ p_proc_ready = caller
  BY DEF SendWake, At, SendPc, CallState, Handing
<1>2. Clean(peer) \/ Receiving(peer)
  BY <1>1 DEF CallState, Handing, WaitsFor
<1>3. /\ p_flags[peer] \subseteq {"RECEIVING"}
      /\ p_msg[peer] = "null"
      /\ p_sendto[peer] = NO_TASK
      /\ Clean(caller)
  BY <1>1, <1>2 DEF CallState, Handing, FieldsAgree, Clean, BlockedSender, Receiving
<1>4. /\ pc' = "user"
      /\ p_flags' = [p_flags EXCEPT ![peer] = {}]
      /\ p_recvfrom' = [p_recvfrom EXCEPT ![peer] = NO_TASK]
      /\ UNCHANGED <<p_msg, p_sendto, q_sending, msg, both, p_proc_ready, caller,
                     peer, halted>>
  BY <1>3 DEF SendWake, Goto
<1>5. /\ QueueHoldsSenders' /\ NoSendCycle' /\ NoMissedRendezvous'
      /\ \A s \in Proc : Sending(s)' <=> Sending(s)
  BY <1>1, <1>3, <1>4, WakeKeepsSenders
<1>6. FieldsAgree'
  BY <1>1, <1>3, <1>4 DEF FieldsAgree, Clean, BlockedSender
<1>7. CallState'
  BY <1>1, <1>3, <1>4 DEF CallState, Handing, Clean
<1>8. Stamped'
  BY <1>1, <1>4, <1>5 DEF Stamped, Handing
<1>9. KernelAssertsHold'
  BY <1>4 DEF KernelAssertsHold
<1> QED
  BY <1>5, <1>6, <1>7, <1>8, <1>9 DEF Core

(***************************************************************************)
(* An interrupt handler informs task t, whatever the system call is at.    *)
(* Only the tasks named in CallState may lose their RECEIVING flag between *)
(* the test in line 180 and the wake in line 187.                          *)
(***************************************************************************)
LEMMA InformStep ==
    ASSUME IInv, NEW t \in {TASK_TTY, TASK_HD}, inform_int(t),
           UNCHANGED <<q_sending, both, pc, caller, peer>>,
           pc # "user" => p_proc_ready' = p_proc_ready,
           pc = "user" => p_proc_ready' = p_proc_ready \/ p_flags'[p_proc_ready'] = {},
           p_proc_ready' \in Proc
    PROVE  Core'
<1> USE IpcAssumption DEF IInv, TypeOK
<1>1. CASE ~ (Receiving(t) /\ p_recvfrom[t] \in {INTERRUPT, ANY})
  <2>1. UNCHANGED <<procVars, q_sending, msg, both, pc, caller, peer, halted>>
    BY <1>1 DEF inform_int
  <2>2. CallState'
    BY <2>1 DEF CallState, Handing, Clean, WaitsFor, Receiving, Sending
  <2>3. Stamped'
    BY <2>1 DEF Stamped, Handing, Receiving, Sending
  <2>4. FieldsAgree'
    BY <2>1 DEF FieldsAgree, Clean, BlockedSender
  <2>5. KernelAssertsHold'
    BY <2>1 DEF KernelAssertsHold
  <2>6. QueueHoldsSenders' /\ NoSendCycle' /\ NoMissedRendezvous'
    BY <2>1, QuietStep
  <2> QED
    BY <2>2, <2>3, <2>4, <2>5, <2>6 DEF Core
<1>2. CASE Receiving(t) /\ p_recvfrom[t] \in {INTERRUPT, ANY}
  <2>1. /\ p_flags[t] = {"RECEIVING"} /\ p_flags[t] \subseteq {"RECEIVING"}
        /\ p_sendto[t] = NO_TASK
    BY <1>2 DEF FieldsAgree, Clean, BlockedSender, Receiving
  <2>2. /\ msg' = IF p_msg[t] = "null" THEN msg ELSE [msg EXCEPT ![t] = HardInt]
        /\ p_msg' = [p_msg EXCEPT ![t] = "null"]
        /\ p_flags' = [p_flags EXCEPT ![t] = {}]
        /\ p_recvfrom' = [p_recvfrom EXCEPT ![t] = NO_TASK]
        /\ UNCHANGED <<p_sendto, halted>>
    BY <1>2, <2>1 DEF inform_int
  <2>3. /\ QueueHoldsSenders' /\ NoSendCycle' /\ NoMissedRendezvous'
        /\ \A s \in Proc : Sending(s)' <=> Sending(s)
        /\ \A s \in Proc : Receiving(s)' <=> Receiving(s) /\ s # t
    BY <2>1, <2>2, WakeKeepsSenders
  <2>4. Clean(t)'
    BY <2>1, <2>2 DEF Clean
  <2>5. \A p \in Proc \ {t} : Clean(p)' <=> Clean(p)
    BY <2>2 DEF Clean
  <2>6. FieldsAgree'
    BY <2>2, <2>4, <2>5 DEF FieldsAgree, BlockedSender
  <2>7. CallState'
    <3>1. \A s, d \in Proc : d # t => (WaitsFor(d, s)' <=> WaitsFor(d, s))
      BY <2>2, <2>3 DEF WaitsFor
    <3>2. pc \in Handing => peer \in Proc
      BY DEF Handing, SendPc
    <3>3. pc \in Handing => Clean(peer)' \/ WaitsFor(peer, caller)'
      BY <2>4, <2>5, <3>1, <3>2 DEF CallState
    <3>4. pc \in Handing /\ peer \notin {TASK_TTY, TASK_HD} => Receiving(peer)'
      BY <2>3, <3>2 DEF CallState
    <3>5. pc = "send_187" => p_msg'[peer] = "null"
      BY <2>2, <3>2 DEF CallState, Handing
    <3>6. pc \in {"user", "send_228", "recv_338"} => p_flags'[p_proc_ready'] = {}
      BY <2>2 DEF CallState
    <3>7. pc = "recv_333" => \A s \in Proc :
            Sending(s)' /\ p_sendto'[s] = caller => peer \notin {s, ANY}
      BY <2>2, <2>3 DEF CallState
    <3>8. pc \in {"msg_send", "msg_receive", "recv_255", "recv_333"} \cup Handing
            => p_proc_ready' = caller /\ p_flags'[caller] = {}
      BY <2>2 DEF CallState, Handing
    <3>9. pc \in {"send_block", "send_sched", "send_228"}
            => p_flags'[caller] = {"SENDING"} /\ p_sendto'[caller] = peer
      BY <2>1, <2>2 DEF CallState
    <3> QED
      BY <2>2, <3>3, <3>4, <3>5, <3>6, <3>7, <3>8, <3>9 DEF CallState, Handing
  <2>8. Stamped'
    <3>1. \A s \in Proc : s # t => msg'[s] = msg[s]
      BY <2>2
    <3>2. ~ Sending(t) /\ ~ Receiving(t)'
      BY <2>1, <2>3 DEF Sending
    <3>3. pc \in {"msg_send"} \cup Handing => caller # t /\ peer \in Proc
      BY <2>1 DEF CallState, Handing, SendPc
    <3> QED
      BY <2>3, <3>1, <3>2, <3>3, ZenonT(40) DEF Stamped, Handing
  <2>9. KernelAssertsHold'
    BY <2>2 DEF KernelAssertsHold
  <2> QED
    BY <2>3, <2>6, <2>7, <2>8, <2>9 DEF Core
<1> QED
  BY <1>1, <1>2

LEMMA HandlerStep == ASSUME IInv, HdHandler \/ ClockHandler PROVE Core'
<1> USE IpcAssumption DEF IInv, TypeOK
<1>1. CASE HdHandler
  BY <1>1, InformStep DEF HdHandler
<1>2. CASE ClockHandler /\ key_pressed = 1
  <2>1. p_proc_ready' \in Proc
    BY <1>2 DEF ClockHandler
  <2> QED
    BY <1>2, <2>1, InformStep DEF ClockHandler
<1>3. CASE ClockHandler /\ key_pressed # 1
  <2>1. /\ UNCHANGED <<procVars, q_sending, msg, both, pc, caller, peer, halted>>
        /\ pc # "user" => p_proc_ready' = p_proc_ready
        /\ pc = "user" => p_proc_ready' = p_proc_ready \/ p_flags[p_proc_ready'] = {}
    BY <1>3 DEF ClockHandler
  <2>2. CallState'
    BY <2>1 DEF CallState, Handing, Clean, WaitsFor, Receiving, Sending
  <2>3. Stamped'
    BY <2>1 DEF Stamped, Handing, Receiving, Sending
  <2>4. FieldsAgree'
    BY <2>1 DEF FieldsAgree, Clean, BlockedSender
  <2>5. KernelAssertsHold'
    BY <2>1 DEF KernelAssertsHold
  <2>6. QueueHoldsSenders' /\ NoSendCycle' /\ NoMissedRendezvous'
    BY <2>1, QuietStep
  <2> QED
    BY <2>2, <2>3, <2>4, <2>5, <2>6 DEF Core
<1> QED
  BY <1>1, <1>2, <1>3

(***************************************************************************)
(* A receiver goes to sleep.  No sender that it would have to serve waits  *)
(* in its list: RecvNothing looked, and only system calls append to it.    *)
(***************************************************************************)
LEMMA RecvSleepStep == ASSUME IInv, RecvSleep PROVE Core'
<1> USE IpcAssumption DEF IInv, TypeOK
<1>1. /\ pc = "recv_333" /\ pc' = "recv_block" /\ p_flags[caller] = {}
      /\ caller # peer
      /\ p_flags' = [p_flags EXCEPT ![caller] = {"RECEIVING"}]
      /\ p_msg' = [p_msg EXCEPT ![caller] = "m"]
      /\ p_recvfrom' = [p_recvfrom EXCEPT ![caller] = peer]
      /\ UNCHANGED <<p_sendto, q_sending, msg, both, p_proc_ready, caller, peer,
                     halted>>
  BY DEF RecvSleep, At, Goto, CallState
<1>2. \A s \in Proc : Sending(s)' <=> Sending(s)
  BY <1>1 DEF Sending
<1>3. FieldsAgree'
  BY <1>1, ZenonT(40) DEF FieldsAgree, Clean, BlockedSender, Peer
<1>4. CallState'
  BY <1>1 DEF CallState, Handing
<1>5. Stamped'
  BY <1>1, <1>2 DEF Stamped, Handing
<1>6. QueueHoldsSenders'
  BY <1>1, <1>2 DEF QueueHoldsSenders
<1>7. NoSendCycle'
  BY <1>1, <1>2 DEF NoSendCycle
<1>8. NoMissedRendezvous'
  <2> SUFFICES ASSUME NEW s \in Proc, NEW d \in Proc, Sending(s), p_sendto[s] = d
               PROVE  ~ WaitsFor(d, s)'
    BY <1>1, <1>2 DEF NoMissedRendezvous
  <2>1. CASE d = caller
    BY <1>1, <2>1 DEF CallState, WaitsFor
  <2>2. CASE d # caller
    BY <1>1, <2>2 DEF NoMissedRendezvous, WaitsFor, Receiving
  <2> QED
    BY <2>1, <2>2
<1>9. KernelAssertsHold'
  BY <1>1 DEF KernelAssertsHold
<1> QED
  BY <1>3, <1>4, <1>5, <1>6, <1>7, <1>8, <1>9 DEF Core

(***************************************************************************)
(* A sender goes to sleep.  Were there a circle S of senders afterwards,   *)
(* the sender and its destination would be in it, and the part of S that   *)
(* deadlock() walked, which avoids the sender, would have been one before. *)
(***************************************************************************)
LEMMA EnqueueKeepsNoCycle ==
    ASSUME NoSendCycle, TypeOK, NEW s \in Proc, NEW d \in Proc, s # d,
           ~ Sending(s), ~ deadlock(s, d),
           p_flags' = [p_flags EXCEPT ![s] = {"SENDING"}],
           p_sendto' = [p_sendto EXCEPT ![s] = d]
    PROVE  NoSendCycle'
<1> SUFFICES ASSUME NEW S \in SUBSET Proc, S # {},
                    \A p \in S : Sending(p)' /\ p_sendto'[p] \in S
             PROVE  FALSE
  BY DEF NoSendCycle
<1>1. \A p \in Proc \ {s} : (Sending(p)' <=> Sending(p)) /\ p_sendto'[p] = p_sendto[p]
  BY DEF TypeOK, Sending
<1>2. PICK C \in SUBSET Proc :
        /\ d \in C
        /\ \A p \in C : Sending(p) => p_sendto[p] \in C \ {s}
  BY DEF deadlock
<1>3. CASE s \notin S
  BY <1>1, <1>3 DEF NoSendCycle
<1>4. CASE s \in S
  <2>1. d \in S
    BY <1>4 DEF TypeOK
  <2> DEFINE T == (S \cap C) \ {s}
  <2>2. T \in SUBSET Proc /\ d \in T
    BY <1>2, <2>1
  <2>3. \A p \in T : Sending(p) /\ p_sendto[p] \in T
    BY <1>1, <1>2
  <2> QED
    BY <2>2, <2>3 DEF NoSendCycle
<1> QED
  BY <1>3, <1>4

LEMMA SendEnqueueStep == ASSUME IInv, SendEnqueue PROVE Core'
<1> USE IpcAssumption DEF IInv, TypeOK
<1>1. /\ pc = "msg_send" /\ peer \in Proc /\ caller # peer /\ p_flags[caller] = {}
      /\ ~ deadlock(caller, peer) /\ ~ WaitsFor(peer, caller)
  BY DEF SendEnqueue, At, SendPc, CallState
<1>2. p_flags[caller] \subseteq {"SENDING"}
  BY <1>1
<1>3. /\ pc' = "send_block"
      /\ p_flags' = [p_flags EXCEPT ![caller] = {"SENDING"}]
      /\ p_sendto' = [p_sendto EXCEPT ![caller] = peer]
      /\ p_msg' = [p_msg EXCEPT ![caller] = "m"]
      /\ q_sending' = [q_sending EXCEPT ![peer] = Append(@, caller)]
      /\ UNCHANGED <<p_recvfrom, msg, both, p_proc_ready, caller, peer, halted>>
  BY <1>2 DEF SendEnqueue, Goto
<1>4. ~ Sending(caller) /\ Sending(caller)' /\ p_sendto'[caller] = peer
  BY <1>1, <1>3 DEF Sending
<1>5. \A p \in Proc \ {caller} : (Sending(p)' <=> Sending(p)) /\ p_sendto'[p] = p_sendto[p]
  BY <1>3 DEF Sending
<1>6. \A p \in Proc : Receiving(p)' <=> Receiving(p)
  BY <1>1, <1>3 DEF Receiving
<1>7. FieldsAgree'
  BY <1>1, <1>3, ZenonT(40) DEF FieldsAgree, Clean, BlockedSender
<1>8. CallState'
  BY <1>1, <1>3 DEF CallState, Handing
<1>9. Stamped'
  BY <1>1, <1>3, <1>5 DEF Stamped, Handing
<1>10. QueueHoldsSenders'
  <2> SUFFICES ASSUME NEW d \in Proc
               PROVE  /\ \A i, j \in DOMAIN q_sending'[d] :
                            q_sending'[d][i] = q_sending'[d][j] => i = j
                      /\ {q_sending'[d][i] : i \in DOMAIN q_sending'[d]}
                            = {s \in Proc : Sending(s)' /\ p_sendto'[s] = d}
    BY DEF QueueHoldsSenders
  <2>1. /\ \A i, j \in DOMAIN q_sending[d] : q_sending[d][i] = q_sending[d][j] => i = j
        /\ {q_sending[d][i] : i \in DOMAIN q_sending[d]}
              = {s \in Proc : Sending(s) /\ p_sendto[s] = d}
    BY DEF QueueHoldsSenders
  <2>2. CASE d # peer
    <3>1. {s \in Proc : Sending(s)' /\ p_sendto'[s] = d}
            = {s \in Proc : Sending(s) /\ p_sendto[s] = d}
      BY <1>3, <1>4, <1>5, <2>2
    <3>2. q_sending'[d] = q_sending[d]
      BY <1>3, <2>2
    <3> QED
      BY <2>1, <3>1, <3>2
  <2>3. CASE d = peer
    <3> DEFINE q == q_sending[peer]  n == Len(q)
    <3>1. q \in Seq(Proc) /\ n \in Nat /\ DOMAIN q = 1 .. n
      BY <1>1
    <3>2. /\ q_sending'[d] = Append(q, caller)
          /\ DOMAIN q_sending'[d] = 1 .. n + 1
          /\ \A i \in 1 .. n : q_sending'[d][i] = q[i]
          /\ q_sending'[d][n + 1] = caller
      BY <1>1, <1>3, <2>3, <3>1
    <3>3. \A i \in 1 .. n : q[i] # caller
      <4> SUFFICES ASSUME NEW i \in 1 .. n, q[i] = caller PROVE FALSE
        OBVIOUS
      <4>1. caller \in {q_sending[d][k] : k \in DOMAIN q_sending[d]}
        BY <2>3, <3>1
      <4> QED
        BY <1>4, <2>1, <4>1
    <3>4. \A i, j \in 1 .. n + 1 : q_sending'[d][i] = q_sending'[d][j] => i = j
      <4> SUFFICES ASSUME NEW i \in 1 .. n + 1, NEW j \in 1 .. n + 1,
                          q_sending'[d][i] = q_sending'[d][j]
                   PROVE  i = j
        OBVIOUS
      <4>1. (i \in 1 .. n \/ i = n + 1) /\ (j \in 1 .. n \/ j = n + 1)
        BY <3>1
      <4> QED
        BY <2>1, <2>3, <3>1, <3>2, <3>3, <4>1, ZenonT(40)
    <3>5. {q_sending'[d][i] : i \in 1 .. n + 1} = {q[i] : i \in 1 .. n} \cup {caller}
      <4>1. 1 .. n + 1 = (1 .. n) \cup {n + 1}
        BY <3>1
      <4> QED
        BY <3>2, <4>1
    <3>6. {s \in Proc : Sending(s)' /\ p_sendto'[s] = d}
            = {s \in Proc : Sending(s) /\ p_sendto[s] = d} \cup {caller}
      <4>1. ASSUME NEW s \in Proc
            PROVE  Sending(s)' /\ p_sendto'[s] = d
                     <=> (Sending(s) /\ p_sendto[s] = d) \/ s = caller
        <5>1. CASE s = caller
          BY <1>3, <1>4, <2>3, <5>1 DEF Sending
        <5>2. CASE s # caller
          BY <1>5, <5>2
        <5> QED
          BY <5>1, <5>2
      <4> QED
        BY <4>1
    <3> QED
      BY <2>1, <2>3, <3>1, <3>2, <3>4, <3>5, <3>6
  <2> QED
    BY <2>2, <2>3
<1>11. NoSendCycle'
  BY <1>1, <1>3, <1>4, EnqueueKeepsNoCycle
<1>12. NoMissedRendezvous'
  <2>1. \A s, d \in Proc : WaitsFor(d, s)' <=> WaitsFor(d, s)
    BY <1>3, <1>6 DEF WaitsFor
  <2> SUFFICES ASSUME NEW s \in Proc, NEW d \in Proc, Sending(s)', p_sendto'[s] = d
               PROVE  ~ WaitsFor(d, s)
    BY <2>1 DEF NoMissedRendezvous
  <2>2. CASE s = caller
    BY <1>1, <1>4, <2>2
  <2>3. CASE s # caller
    BY <1>5, <2>3 DEF NoMissedRendezvous
  <2> QED
    BY <2>2, <2>3
<1>13. KernelAssertsHold'
  BY <1>3 DEF KernelAssertsHold
<1> QED
  BY <1>7, <1>8, <1>9, <1>10, <1>11, <1>12, <1>13 DEF Core

(* A receiver takes the message of a sender, which is made ready. *)
LEMMA TakeEffect ==
    ASSUME IInv, NEW s \in Proc, RecvTake(s)
    PROVE  /\ pc = "msg_receive" /\ p_flags[caller] = {} /\ p_proc_ready = caller
           /\ Sending(s) /\ p_sendto[s] = caller
           /\ Clean(caller) /\ BlockedSender(s, caller) /\ s # caller
           /\ pc' = "user"
           /\ msg' = [msg EXCEPT ![caller] = msg[s]]
           /\ p_msg' = [p_msg EXCEPT ![s] = "null"]
           /\ p_sendto' = [p_sendto EXCEPT ![s] = NO_TASK]
           /\ p_flags' = [p_flags EXCEPT ![s] = {}]
           /\ \E i \in DOMAIN q_sending[caller] :
                 /\ q_sending[caller][i] = s
                 /\ q_sending' = [q_sending EXCEPT ![caller] = Unlink(@, i)]
           /\ UNCHANGED <<p_recvfrom, both, p_proc_ready, caller, peer, halted>>
<1> USE IpcAssumption DEF IInv, TypeOK
<1> DEFINE q == q_sending[caller]  n == Len(q)
<1>1. /\ pc = "msg_receive" /\ p_flags[caller] = {} /\ p_proc_ready = caller
      /\ Offers(s, caller, peer)
  BY DEF RecvTake, At, CallState
<1>2. q \in Seq(Proc) /\ n \in Nat /\ DOMAIN q = 1 .. n
  OBVIOUS
<1>3. /\ \A i, j \in DOMAIN q : q[i] = q[j] => i = j
      /\ {q[i] : i \in DOMAIN q} = {p \in Proc : Sending(p) /\ p_sendto[p] = caller}
  BY DEF QueueHoldsSenders
<1>4. Sending(s) /\ p_sendto[s] = caller
  <2>1. CASE peer \in Proc
    BY <1>1, <2>1 DEF Offers
  <2>2. CASE peer \notin Proc
    <3>1. q # <<>> /\ s = Head(q)
      BY <1>1, <2>2 DEF Offers
    <3>2. s = q[1] /\ 1 \in DOMAIN q
      BY <1>2, <3>1
    <3> QED
      BY <1>3, <3>2
  <2> QED
    BY <2>1, <2>2
<1>5. Clean(caller) /\ BlockedSender(s, caller) /\ s # caller
  BY <1>1, <1>4, FlagsApart, ZenonT(40) DEF FieldsAgree, Clean, BlockedSender, Sending
<1>6. \E i \in DOMAIN q : q[i] = s
  BY <1>3, <1>4
<1>7. PICK i \in DOMAIN q : /\ q[i] = s
                            /\ q_sending' = [q_sending EXCEPT ![caller] = Unlink(@, i)]
  BY <1>5, <1>6 DEF RecvTake
<1>8. /\ pc' = "user"
      /\ msg' = [msg EXCEPT ![caller] = msg[s]]
      /\ p_msg' = [p_msg EXCEPT ![s] = "null"]
      /\ p_sendto' = [p_sendto EXCEPT ![s] = NO_TASK]
      /\ p_flags' = [p_flags EXCEPT ![s] = {}]
      /\ UNCHANGED <<p_recvfrom, both, p_proc_ready, caller, peer, halted>>
  <2>1. p_flags[s] \ {"SENDING"} = {}
    BY <1>5 DEF BlockedSender
  <2> QED
    BY <1>5, <1>6, <2>1 DEF RecvTake, Goto
<1> QED
  BY <1>1, <1>4, <1>5, <1>7, <1>8

LEMMA RecvTakeStep == ASSUME IInv, NEW s \in Proc, RecvTake(s) PROVE Core'
<1> USE IpcAssumption DEF IInv, TypeOK
<1> DEFINE q == q_sending[caller]  n == Len(q)
<1>1. pc = "msg_receive" /\ p_flags[caller] = {} /\ p_proc_ready = caller
  BY TakeEffect
<1>2. q \in Seq(Proc) /\ n \in Nat /\ DOMAIN q = 1 .. n
  OBVIOUS
<1>3. /\ \A i, j \in DOMAIN q : q[i] = q[j] => i = j
      /\ {q[i] : i \in DOMAIN q} = {p \in Proc : Sending(p) /\ p_sendto[p] = caller}
  BY DEF QueueHoldsSenders
<1>4. Sending(s) /\ p_sendto[s] = caller
  BY TakeEffect
<1>5. Clean(caller) /\ BlockedSender(s, caller) /\ s # caller
  BY TakeEffect
<1>7. PICK i \in DOMAIN q : /\ q[i] = s
                            /\ q_sending' = [q_sending EXCEPT ![caller] = Unlink(@, i)]
  BY TakeEffect
<1>8. /\ pc' = "user"
      /\ msg' = [msg EXCEPT ![caller] = msg[s]]
      /\ p_msg' = [p_msg EXCEPT ![s] = "null"]
      /\ p_sendto' = [p_sendto EXCEPT ![s] = NO_TASK]
      /\ p_flags' = [p_flags EXCEPT ![s] = {}]
      /\ UNCHANGED <<p_recvfrom, both, p_proc_ready, caller, peer, halted>>
  BY TakeEffect
<1>9. ~ Sending(s)' /\ p_sendto'[s] = NO_TASK
  BY <1>8 DEF Sending
<1>10. \A p \in Proc \ {s} : (Sending(p)' <=> Sending(p)) /\ p_sendto'[p] = p_sendto[p]
  BY <1>8 DEF Sending
<1>11. \A p \in Proc : Receiving(p)' <=> Receiving(p)
  BY <1>5, <1>8 DEF Receiving, BlockedSender
<1>12. FieldsAgree'
  BY <1>1, <1>5, <1>8 DEF FieldsAgree, Clean, BlockedSender
<1>13. CallState'
  BY <1>1, <1>5, <1>8 DEF CallState, Handing
<1>14. Stamped'
  <2>1. ~ Sending(caller)'
    BY <1>1, <1>5, <1>8 DEF Sending
  <2>2. \A p \in Proc : p # caller => msg'[p] = msg[p]
    BY <1>8
  <2> QED
    BY <1>8, <1>9, <1>10, <2>1, <2>2 DEF Stamped, Handing
<1>15. QueueHoldsSenders'
  <2> SUFFICES ASSUME NEW d \in Proc
               PROVE  /\ \A j, k \in DOMAIN q_sending'[d] :
                            q_sending'[d][j] = q_sending'[d][k] => j = k
                      /\ {q_sending'[d][j] : j \in DOMAIN q_sending'[d]}
                            = {p \in Proc : Sending(p)' /\ p_sendto'[p] = d}
    BY DEF QueueHoldsSenders
  <2>1. CASE d # caller
    <3>1. q_sending'[d] = q_sending[d]
      BY <1>7, <2>1
    <3>2. ASSUME NEW p \in Proc
          PROVE  Sending(p)' /\ p_sendto'[p] = d <=> Sending(p) /\ p_sendto[p] = d
      BY <1>4, <1>9, <1>10, <2>1
    <3>3. /\ \A j, k \in DOMAIN q_sending[d] :
                q_sending[d][j] = q_sending[d][k] => j = k
          /\ {q_sending[d][j] : j \in DOMAIN q_sending[d]}
                = {p \in Proc : Sending(p) /\ p_sendto[p] = d}
      BY DEF QueueHoldsSenders
    <3>4. {p \in Proc : Sending(p)' /\ p_sendto'[p] = d}
            = {p \in Proc : Sending(p) /\ p_sendto[p] = d}
      BY <3>2
    <3> QED
      BY <3>1, <3>3, <3>4
  <2>2. CASE d = caller
    <3> DEFINE r == Unlink(q, i)
    <3>1. q_sending'[d] = r
      BY <1>7, <2>2
    <3>2. /\ \A j, k \in DOMAIN r : r[j] = r[k] => j = k
          /\ {r[j] : j \in DOMAIN r} = {q[k] : k \in DOMAIN q} \ {s}
      <4>1. q \in Seq(Proc) /\ i \in 1 .. Len(q) /\ NoRepeats(q)
        BY <1>2, <1>3 DEF NoRepeats
      <4>2. NoRepeats(Unlink(q, i)) /\ Elements(Unlink(q, i)) = Elements(q) \ {q[i]}
        BY <4>1, UnlinkElements
      <4> QED
        BY <1>7, <4>2 DEF NoRepeats, Elements
    <3> HIDE DEF r
    <3>3. ASSUME NEW p \in Proc
          PROVE  Sending(p)' /\ p_sendto'[p] = d
                   <=> p # s /\ Sending(p) /\ p_sendto[p] = caller
      <4>1. CASE p = s
        BY <1>9, <4>1
      <4>2. CASE p # s
        BY <1>10, <2>2, <4>2
      <4> QED
        BY <4>1, <4>2
    <3>4. {p \in Proc : Sending(p)' /\ p_sendto'[p] = d}
            = {p \in Proc : Sending(p) /\ p_sendto[p] = caller} \ {s}
      BY <3>3
    <3>5. {r[j] : j \in DOMAIN r} = {p \in Proc : Sending(p)' /\ p_sendto'[p] = d}
      BY <1>3, <3>2, <3>4
    <3> QED
      BY <3>1, <3>2, <3>5
  <2> QED
    BY <2>1, <2>2
<1>16. NoSendCycle'
  BY <1>9, <1>10 DEF NoSendCycle
<1>17. NoMissedRendezvous'
  <2>1. \A p, d \in Proc : WaitsFor(d, p)' <=> WaitsFor(d, p)
    BY <1>8, <1>11 DEF WaitsFor
  <2> QED
    BY <1>9, <1>10, <2>1 DEF NoMissedRendezvous
<1>18. KernelAssertsHold'
  BY <1>8 DEF KernelAssertsHold
<1> QED
  BY <1>12, <1>13, <1>14, <1>15, <1>16, <1>17, <1>18 DEF Core

-----------------------------------------------------------------------------
(* Theorems *)

LEMMA InitIInv == Init => IInv
<1> SUFFICES ASSUME Init PROVE IInv
  OBVIOUS
<1> USE IpcAssumption DEF Init
<1>1. TypeOK
  BY TypeInit
<1>2. \A p \in Proc : Clean(p) /\ ~ Sending(p) /\ ~ Receiving(p)
  BY DEF Clean, Sending, Receiving
<1>3. FieldsAgree /\ CallState /\ Stamped
  BY <1>2 DEF FieldsAgree, CallState, Stamped, Handing
<1>4. QueueHoldsSenders
  BY <1>2 DEF QueueHoldsSenders
<1>5. NoSendCycle /\ NoMissedRendezvous /\ KernelAssertsHold
  BY <1>2 DEF NoSendCycle, NoMissedRendezvous, KernelAssertsHold
<1> QED
  BY <1>1, <1>3, <1>4, <1>5 DEF IInv

LEMMA NextIInv == IInv /\ [Next]_vars => IInv'
<1> SUFFICES ASSUME IInv, [Next]_vars PROVE IInv'
  OBVIOUS
<1>1. TypeOK'
  BY TypeStep DEF IInv
<1>2. Core'
  BY CallStep, QuietSteps, SendReturnStep, SendClearStep, SendWakeStep,
     SendEnqueueStep, RecvSleepStep, RecvTakeStep, HandlerStep
     DEF Next, Send, Receive
<1> QED
  BY <1>1, <1>2 DEF IInv, Core

(* The fields of the processes and of the call in progress keep their types. *)
THEOREM TypeCorrect == Spec => []TypeOK
BY TypeInit, TypeStep, PTL DEF Spec

(* The invariant, for every set of processes and calls and every interrupt. *)
THEOREM Invariant == Spec => []IInv
BY InitIInv, NextIInv, PTL DEF Spec

(* msg_send and msg_receive neither lose nor double a waiting sender. *)
THEOREM QueueCorrect == Spec => []QueueHoldsSenders
<1>1. IInv => QueueHoldsSenders
  BY DEF IInv
<1> QED
  BY <1>1, Invariant, PTL

(* The test of deadlock() keeps the senders from waiting in a circle. *)
THEOREM SendersAcyclic == Spec => []NoSendCycle
<1>1. IInv => NoSendCycle
  BY DEF IInv
<1> QED
  BY <1>1, Invariant, PTL

(* A sender and a receiver that could talk to each other never both sleep. *)
THEOREM RendezvousNotMissed == Spec => []NoMissedRendezvous
<1>1. IInv => NoMissedRendezvous
  BY DEF IInv
<1> QED
  BY <1>1, Invariant, PTL

(* The assertions on the process fields cannot fail. *)
THEOREM AssertsHold == Spec => []KernelAssertsHold
<1>1. IInv => KernelAssertsHold
  BY DEF IInv
<1> QED
  BY <1>1, Invariant, PTL

(* A direct delivery is intact unless an interrupt woke the receiver first. *)
THEOREM DeliveryIntact == Spec => []MessageArrives
<1>1. IInv => MessageArrives
  BY DEF IInv, MessageArrives, Stamped, CallState, Handing
<1> QED
  BY <1>1, Invariant, PTL

(* Which steps clear a flag. *)
LEMMA FlagsCleared ==
    ASSUME IInv, Next, NEW p \in Proc
    PROVE  /\ Sending(p) /\ ~ Sending(p)' => RecvTake(p)
           /\ Receiving(p) /\ ~ Receiving(p)' /\ p_recvfrom[p] \in Proc
                => SendWake /\ p = peer /\ p_flags[peer] \subseteq {"RECEIVING"}
<1> USE IpcAssumption DEF IInv, TypeOK
<1>1. CASE UNCHANGED p_flags
  BY <1>1 DEF Sending, Receiving
<1>2. CASE SendEnqueue
  BY <1>2 DEF SendEnqueue, Halt, At, CallState, Sending, Receiving
<1>3. CASE SendWake
  <2>1. CASE p = peer
    BY <1>3, <2>1, FlagsApart DEF SendWake, Halt, Sending, Receiving, SendPc, At
  <2>2. CASE p # peer
    BY <1>3, <2>2 DEF SendWake, Halt, Sending, Receiving
  <2> QED
    BY <2>1, <2>2
<1>4. CASE RecvSleep
  BY <1>4 DEF RecvSleep, Sending, Receiving
<1>5. CASE \E s \in Proc : RecvTake(s)
  <2>1. PICK s \in Proc : RecvTake(s)
    BY <1>5
  <2>2. p_flags[s] = {"SENDING"} /\ p_flags' = [p_flags EXCEPT ![s] = {}]
    BY <2>1, TakeEffect DEF BlockedSender
  <2> QED
    BY <2>1, <2>2 DEF Sending, Receiving
<1>6. ASSUME NEW t \in Proc, inform_int(t)
      PROVE  /\ Sending(p) => Sending(p)'
             /\ Receiving(p) /\ ~ Receiving(p)' => p_recvfrom[p] \in {INTERRUPT, ANY}
  <2>1. CASE Receiving(t) /\ p_recvfrom[t] \in {INTERRUPT, ANY}
    <3>1. p_flags[t] = {"RECEIVING"} /\ p_sendto[t] = NO_TASK
      BY <2>1 DEF FieldsAgree, Clean, BlockedSender, Receiving
    <3>2. p_flags' = [p_flags EXCEPT ![t] = {}]
      BY <1>6, <2>1, <3>1 DEF inform_int
    <3> QED
      BY <2>1, <3>1, <3>2 DEF Sending, Receiving
  <2>2. CASE ~ (Receiving(t) /\ p_recvfrom[t] \in {INTERRUPT, ANY})
    <3>1. UNCHANGED p_flags
      BY <1>6, <2>2 DEF inform_int
    <3> QED
      BY <3>1 DEF Sending, Receiving
  <2> QED
    BY <2>1, <2>2
<1>7. CASE HdHandler \/ ClockHandler
  <2>1. inform_int(TASK_HD) \/ inform_int(TASK_TTY) \/ UNCHANGED p_flags
    BY <1>7 DEF HdHandler, ClockHandler
  <2> QED
    BY <1>1, <1>6, <2>1
<1> QED
  BY <1>1, <1>2, <1>3, <1>4, <1>5, <1>7 DEF Next, Send, Receive, Block, CallSend,
     CallReceive, CallBoth, Enter, SendDeadlock, SendMeets, SendAssert, SendCopy,
     SendClear, SendReturn, RecvInterrupt, RecvInterruptReturn, RecvNothing,
     RecvReturn, BlockAssert, BlockSchedule, KeyboardHandler, TtyKeysRead, Stopped,
     Halt

(* Only the destination's RECEIVE ends a blocked SEND, and it takes the message. *)
THEOREM SendersWait == Spec => SenderWaitsForReceiver
<1> DEFINE A == \A s \in Proc : Sending(s) /\ ~ Sending(s)'
                    => msg'[p_sendto[s]] = msg[s] /\ msg[s].source = s
<1>1. ASSUME IInv, [Next]_vars PROVE [A]_vars
  <2> SUFFICES ASSUME NEW s \in Proc, Sending(s), ~ Sending(s)', Next
               PROVE  msg'[p_sendto[s]] = msg[s] /\ msg[s].source = s
    BY <1>1
  <2>1. msg[s].source = s
    BY <1>1 DEF IInv, Stamped
  <2>2. RecvTake(s)
    BY <1>1, FlagsCleared
  <2> QED
    BY <1>1, <2>1, <2>2, TakeEffect DEF IInv, TypeOK
<1> QED
  BY <1>1, Invariant, PTL DEF Spec, SenderWaitsForReceiver

(* An answer that a process waits for comes from the process it asked. *)
THEOREM AnswersFromPeer == Spec => AnswerFromPeer
<1> DEFINE A == \A p \in Proc :
                  Receiving(p) /\ ~ Receiving(p)' /\ p_recvfrom[p] \in Proc
                    => msg'[p].source = p_recvfrom[p]
<1>1. ASSUME IInv, [Next]_vars PROVE [A]_vars
  <2> SUFFICES ASSUME NEW p \in Proc, Receiving(p), ~ Receiving(p)', Next,
                      p_recvfrom[p] \in Proc
               PROVE  msg'[p].source = p_recvfrom[p]
    BY <1>1
  <2>1. SendWake /\ p = peer
    BY <1>1, FlagsCleared
  <2>2. pc = "send_187" /\ msg' = msg
    BY <2>1 DEF SendWake, At, Goto, Halt
  <2>3. p_recvfrom[p] = caller
    BY <1>1, <2>1, <2>2, IpcAssumption DEF IInv, CallState, Handing, Clean, WaitsFor,
                                           Receiving
  <2>4. msg[p] = msg[caller] /\ msg[caller].source = caller
    BY <1>1, <2>1, <2>2 DEF IInv, Stamped, Handing
  <2> QED
    BY <2>2, <2>3, <2>4
<1> QED
  BY <1>1, Invariant, PTL DEF Spec, AnswerFromPeer

-----------------------------------------------------------------------------
(***************************************************************************)
(* Ipc implements Messages: every step of a system call or handler is,     *)
(* seen through the refinement mapping, one step of the abstract message   *)
(* passing or none.                                                        *)
(***************************************************************************)

(* What the mapping needs besides the invariant IInv *)

(* A receiver that was woken in the middle of a SEND has the message of the *)
(* interrupt, or, woken between the lines 186 and 187, the sender's.        *)
Interrupted ==
    pc \in Handing /\ ~ Receiving(peer) =>
        \/ msg[peer] = HardInt
        \/ pc = "send_187" /\ msg[peer] = msg[caller]

(* The buffer of a RECEIVE is stamped with the caller: it holds no message. *)
Asking == pc \in {"msg_receive", "recv_333"} => msg[caller].source = caller

RInv == IInv /\ Interrupted /\ Asking

(* A task that sleeps for an interrupt is woken by one; another finds it    *)
(* later.  No assertion of inform_int fails.                                *)
LEMMA InformEffect ==
    ASSUME IInv, NEW t \in {TASK_TTY, TASK_HD}, inform_int(t)
    PROVE  IF Receiving(t) /\ p_recvfrom[t] \in {INTERRUPT, ANY}
           THEN /\ p_flags[t] = {"RECEIVING"} /\ t \in Proc
                /\ p_msg[t] = "m" \/ (pc = "send_187" /\ t = peer)
                /\ msg' = IF p_msg[t] = "null" THEN msg ELSE [msg EXCEPT ![t] = HardInt]
                /\ has_int_msg' = [has_int_msg EXCEPT ![t] = 0]
                /\ p_flags' = [p_flags EXCEPT ![t] = {}]
                /\ p_recvfrom' = [p_recvfrom EXCEPT ![t] = NO_TASK]
                /\ UNCHANGED <<p_sendto, halted>>
           ELSE /\ has_int_msg' = [has_int_msg EXCEPT ![t] = 1] /\ t \in Proc
                /\ UNCHANGED <<procVars, msg, halted>>
<1>0. t \in Proc
  BY IpcAssumption
<1>1. CASE Receiving(t) /\ p_recvfrom[t] \in {INTERRUPT, ANY}
  <2>1. /\ p_flags[t] = {"RECEIVING"} /\ p_flags[t] \subseteq {"RECEIVING"}
        /\ p_sendto[t] = NO_TASK /\ (p_msg[t] = "m" \/ (pc = "send_187" /\ t = peer))
    BY <1>0, <1>1 DEF IInv, FieldsAgree, Clean, BlockedSender, Receiving
  <2> QED
    BY <1>0, <1>1, <2>1 DEF inform_int
<1>2. CASE ~ (Receiving(t) /\ p_recvfrom[t] \in {INTERRUPT, ANY})
  BY <1>0, <1>2 DEF inform_int
<1> QED
  BY <1>1, <1>2

(* The processes of a SEND that hands a message over.                       *)
LEMMA HandingFacts ==
    ASSUME IInv, pc \in {"msg_send"} \cup Handing
    PROVE  /\ caller \in Proc /\ peer \in Proc /\ caller # peer
           /\ p_flags[caller] = {} /\ msg[caller].source = caller
           /\ pc \in Handing => Clean(peer) \/ WaitsFor(peer, caller)
           /\ pc \in Handing /\ ~ Receiving(peer) => Clean(peer) /\ peer \in {TASK_TTY, TASK_HD}
           /\ pc \in {"send_181", "send_185", "send_186"} /\ Receiving(peer) => p_msg[peer] = "m"
           /\ pc \in {"send_186", "send_187"} /\ Receiving(peer) => msg[peer] = msg[caller]
<1>1. caller \in Proc /\ peer \in Proc /\ caller # peer
  BY DEF IInv, TypeOK, Handing, SendPc, CallState
<1>2. p_flags[caller] = {} /\ msg[caller].source = caller
  BY DEF IInv, CallState, Stamped, Handing
<1>3. /\ pc \in Handing => Clean(peer) \/ WaitsFor(peer, caller)
      /\ pc \in Handing /\ ~ Receiving(peer) => Clean(peer) /\ peer \in {TASK_TTY, TASK_HD}
  BY DEF IInv, CallState, WaitsFor
<1>4. pc \in {"send_181", "send_185", "send_186"} /\ Receiving(peer) => p_msg[peer] = "m"
  BY <1>1 DEF IInv, FieldsAgree, Clean, BlockedSender, Receiving
<1>5. pc \in {"send_186", "send_187"} /\ Receiving(peer) => msg[peer] = msg[caller]
  BY DEF IInv, Stamped
<1> QED
  BY <1>1, <1>2, <1>3, <1>4, <1>5

LEMMA RInvInit == Init => RInv
BY InitIInv DEF Init, RInv, Interrupted, Asking, Handing

LEMMA RInvStep == RInv /\ [Next]_vars => RInv'
<1> SUFFICES ASSUME RInv, [Next]_vars PROVE Interrupted' /\ Asking'
  BY NextIInv DEF RInv
<1>0. IInv /\ Interrupted /\ Asking /\ TypeOK
  BY DEF RInv, IInv
<1>1. ASSUME NEW c \in Calls, CallSend(c) \/ CallReceive(c) PROVE Interrupted' /\ Asking'
  <2>1. c.p \in Proc
    BY IpcAssumption
  <2>2. CASE CallSend(c)
    BY <2>2 DEF CallSend, Enter, Interrupted, Asking, Handing
  <2>3. CASE CallReceive(c)
    BY <1>0, <2>1, <2>3 DEF CallReceive, Enter, Interrupted, Asking, Handing, TypeOK
  <2> QED
    BY <1>1, <2>2, <2>3
<1>2. ASSUME NEW p \in Proc, CallBoth(p) PROVE Interrupted' /\ Asking'
  BY <1>0, <1>2 DEF CallBoth, Enter, Interrupted, Asking, Handing, TypeOK
<1>3. CASE SendMeets
  BY <1>3 DEF SendMeets, WaitsFor, At, Goto, Interrupted, Asking, Handing, Receiving
<1>4. CASE SendAssert
  BY <1>0, <1>4 DEF SendAssert, At, Goto, Halt, Interrupted, Asking, Handing, Receiving
<1>5. CASE SendCopy
  <2>1. pc = "send_185" /\ pc \in Handing
    BY <1>5 DEF SendCopy, At, Handing
  <2>2. caller \in Proc /\ peer \in Proc /\ caller # peer
    BY <1>0, <2>1, HandingFacts
  <2>3. ~ Receiving(peer) => p_msg[peer] = "null" /\ msg[peer] = HardInt
    BY <1>0, <2>1, HandingFacts DEF Interrupted, Clean
  <2> QED
    BY <1>5, <2>3 DEF SendCopy, Goto, Interrupted, Asking, Handing, Receiving
<1>6. CASE SendClear
  BY <1>0, <1>6 DEF SendClear, At, Goto, Interrupted, Asking, Handing, Receiving
<1>7. CASE SendWake
  BY <1>0, <1>7 DEF SendWake, At, Goto, Halt, Interrupted, Asking, Handing, Receiving
<1>8. CASE SendDeadlock \/ SendReturn
  BY <1>0, <1>8
  DEF SendDeadlock, SendReturn, At, Goto, Halt, Interrupted, Asking, Handing, Receiving
<1>9. CASE SendEnqueue
  BY <1>9, <1>0 DEF SendEnqueue, At, Goto, Halt, Interrupted, Asking, Handing
<1>10. CASE RecvInterrupt \/ RecvInterruptReturn
  BY <1>10, <1>0
  DEF RecvInterrupt, RecvInterruptReturn, At, Goto, Halt, Interrupted, Asking, Handing
<1>11. ASSUME NEW s \in Proc, RecvTake(s) PROVE Interrupted' /\ Asking'
  BY <1>0, <1>11, TakeEffect DEF Interrupted, Asking, Handing
<1>12. CASE RecvNothing \/ RecvSleep \/ RecvReturn
  BY <1>12, <1>0
  DEF RecvNothing, RecvSleep, RecvReturn, At, Goto, Halt, Interrupted, Asking, Handing
<1>13. CASE Block
  BY <1>13, <1>0
  DEF Block, BlockAssert, BlockSchedule, At, Goto, Halt, Interrupted, Asking, Handing
<1>14. ASSUME NEW t \in {TASK_TTY, TASK_HD}, inform_int(t), UNCHANGED <<pc, caller, peer>>
       PROVE  Interrupted' /\ Asking'
  <2>0. caller \in Proc /\ (pc \in Handing => peer \in Proc)
    BY <1>0 DEF TypeOK, Handing, SendPc
  <2>1. CASE ~ (Receiving(t) /\ p_recvfrom[t] \in {INTERRUPT, ANY})
    <3>1. UNCHANGED <<procVars, msg>>
      BY <1>0, <1>14, <2>1, InformEffect
    <3> QED
      BY <1>0, <1>14, <3>1 DEF Interrupted, Asking, Receiving
  <2>2. CASE Receiving(t) /\ p_recvfrom[t] \in {INTERRUPT, ANY}
    <3>1. /\ p_flags[t] = {"RECEIVING"} /\ t \in Proc
          /\ p_msg[t] = "m" \/ (pc = "send_187" /\ t = peer)
          /\ msg' = IF p_msg[t] = "null" THEN msg ELSE [msg EXCEPT ![t] = HardInt]
          /\ p_flags' = [p_flags EXCEPT ![t] = {}]
      BY <1>0, <1>14, <2>2, InformEffect
    <3>2. \A p \in Proc : p # t => msg'[p] = msg[p] /\ (Receiving(p)' <=> Receiving(p))
      BY <1>0, <3>1 DEF TypeOK, Receiving
    <3>3. Asking'
      <4>1. pc \in {"msg_receive", "recv_333"} => caller # t
        BY <1>0, <3>1 DEF IInv, CallState
      <4> QED
        BY <1>0, <1>14, <2>0, <3>2, <4>1 DEF Asking
    <3>4. Interrupted'
      <4>1. ASSUME pc \in Handing
            PROVE  /\ caller # t
                   /\ t = peer /\ pc # "send_187" => p_msg[t] = "m"
                   /\ t = peer /\ pc = "send_187" => p_msg[t] = "null" /\ msg[peer] = msg[caller]
        BY <1>0, <2>2, <3>1, <4>1, HandingFacts DEF Handing, IInv, CallState
      <4>2. ASSUME pc \in Handing, t = peer
            PROVE  msg'[peer] = HardInt \/ (pc = "send_187" /\ msg'[peer] = msg'[caller])
        <5>1. CASE pc = "send_187"
          BY <3>1, <4>1, <4>2, <5>1
        <5>2. CASE pc # "send_187"
          BY <1>0, <3>1, <4>1, <4>2, <5>2 DEF TypeOK
        <5> QED
          BY <5>1, <5>2
      <4>3. ASSUME pc \in Handing, t # peer
            PROVE  msg'[peer] = msg[peer] /\ msg'[caller] = msg[caller]
                   /\ (Receiving(peer)' <=> Receiving(peer))
        BY <1>14, <2>0, <3>2, <4>1, <4>3
      <4> QED
        BY <1>0, <1>14, <4>2, <4>3 DEF Interrupted
    <3> QED
      BY <3>3, <3>4
  <2> QED
    BY <2>1, <2>2
<1>15. CASE HdHandler
  BY <1>14, <1>15 DEF HdHandler
<1>16. CASE ClockHandler
  <2>1. CASE key_pressed = 1
    BY <1>14, <1>16, <2>1 DEF ClockHandler
  <2>2. CASE key_pressed # 1
    BY <1>0, <1>16, <2>2 DEF ClockHandler, Interrupted, Asking, Handing, Receiving
  <2> QED
    BY <2>1, <2>2
<1>17. CASE KeyboardHandler \/ TtyKeysRead \/ Stopped \/ UNCHANGED vars
  BY <1>0, <1>17
  DEF KeyboardHandler, TtyKeysRead, Stopped, Interrupted, Asking, Handing, Receiving
<1> QED
  BY <1>1, <1>2, <1>3, <1>4, <1>5, <1>6, <1>7, <1>8, <1>9, <1>10, <1>11, <1>12, <1>13,
     <1>15, <1>16, <1>17
  DEF Next, Send, Receive

-----------------------------------------------------------------------------
(* The mapping, process by process *)

LEMMA BarValues ==
    ASSUME NEW p \in Proc
    PROVE  /\ ToBar[p] = IF Sending(p) THEN p_sendto[p]
                         ELSE IF InMsgSend(p) THEN peer ELSE NO_TASK
           /\ FromBar[p] = IF Receiving(p) THEN p_recvfrom[p]
                           ELSE IF InMsgReceive(p) THEN peer ELSE NO_TASK
           /\ BoxBar[p] = IF Receiving(p) \/ (ToBar[p] = NO_TASK /\ msg[p].source = p)
                          THEN NoMessage ELSE msg[p]
BY DEF ToBar, FromBar, BoxBar

(* A function that differs from another in two places.                      *)
LEMMA ExceptTwo ==
    ASSUME NEW S, NEW f, NEW g, NEW a \in S, NEW v, NEW b \in S, NEW w, a # b,
           f = [p \in S |-> f[p]], g = [p \in S |-> g[p]],
           g[a] = v, g[b] = w, \A p \in S : p # a /\ p # b => g[p] = f[p]
    PROVE  g = [f EXCEPT ![a] = v, ![b] = w]
OBVIOUS

LEMMA BarsAreFunctions ==
    /\ ToBar = [p \in Proc |-> ToBar[p]] /\ FromBar = [p \in Proc |-> FromBar[p]]
    /\ BoxBar = [p \in Proc |-> BoxBar[p]]
BY DEF ToBar, FromBar, BoxBar

(* The abstract state is kept when what it is made of is kept.              *)
LEMMA Stutters ==
    ASSUME UNCHANGED <<p_flags, p_sendto, p_recvfrom, has_int_msg, q_sending>>,
           \A p \in Proc : (InMsgSend(p)' <=> InMsgSend(p)) /\ (InMsgSend(p) => peer' = peer),
           \A p \in Proc : (InMsgReceive(p)' <=> InMsgReceive(p))
                           /\ (InMsgReceive(p) => peer' = peer),
           \A p \in Proc : msg'[p] = msg[p] \/ Receiving(p)
    PROVE  UNCHANGED M!vars
<1>1. \A p \in Proc : (Sending(p)' <=> Sending(p)) /\ (Receiving(p)' <=> Receiving(p))
  BY DEF Sending, Receiving
<1>2. UNCHANGED ToBar
  BY <1>1 DEF ToBar
<1>3. UNCHANGED FromBar
  BY <1>1 DEF FromBar
<1>4. UNCHANGED BoxBar
  BY <1>1, <1>2 DEF BoxBar
<1>5. UNCHANGED {p \in Proc : Receiving(p)}
  BY <1>1
<1>6. UNCHANGED {p \in Proc : has_int_msg[p] = 1}
  OBVIOUS
<1> QED
  BY <1>2, <1>3, <1>4, <1>5, <1>6 DEF M!vars

LEMMA InitMaps == Init => M!Init
<1> SUFFICES ASSUME Init PROVE M!Init
  OBVIOUS
<1>1. \A p \in Proc : ~ Sending(p) /\ ~ Receiving(p) /\ ~ InMsgSend(p) /\ ~ InMsgReceive(p)
  BY DEF Init, Sending, Receiving, InMsgSend, InMsgReceive
<1>2. ToBar = [p \in Proc |-> NO_TASK] /\ FromBar = [p \in Proc |-> NO_TASK]
  BY <1>1 DEF ToBar, FromBar
<1>3. BoxBar = [p \in Proc |-> NoMessage]
  BY <1>1 DEF BoxBar, Init, NoMessage
<1>4. {p \in Proc : Receiving(p)} = {} /\ {p \in Proc : has_int_msg[p] = 1} = {}
  BY <1>1 DEF Init
<1> QED
  BY <1>2, <1>3, <1>4 DEF M!Init, Init

(* A process that is about to call is one that runs, in both.               *)
LEMMA UserRuns ==
    ASSUME IInv, pc = "user"
    PROVE  /\ p_proc_ready \in Proc /\ p_flags[p_proc_ready] = {}
           /\ \A p \in Proc : ~ InMsgSend(p) /\ ~ InMsgReceive(p)
           /\ M!Runs(p_proc_ready)
<1>1. p_proc_ready \in Proc /\ p_flags[p_proc_ready] = {}
  BY DEF IInv, TypeOK, CallState
<1>2. \A p \in Proc : ~ InMsgSend(p) /\ ~ InMsgReceive(p)
  BY DEF InMsgSend, InMsgReceive
<1> QED
  BY <1>1, <1>2, BarValues DEF M!Runs, Sending, Receiving

LEMMA OfferStep ==
    ASSUME IInv, NEW c \in Calls, CallSend(c)
    PROVE  M!Next
<1>0. c.p \in Proc /\ c.peer \in Proc
  BY IpcAssumption DEF CallSend
<1>1. /\ pc = "user" /\ p_proc_ready = c.p /\ pc' = "msg_send" /\ caller' = c.p /\ peer' = c.peer
      /\ UNCHANGED <<procVars, has_int_msg, q_sending>>
  BY DEF CallSend, Enter, At
<1>2. PICK b \in Body : msg' = [msg EXCEPT ![c.p] = [source |-> c.p, body |-> b]]
  BY DEF CallSend
<1>3. \A p \in Proc : (Sending(p)' <=> Sending(p)) /\ (Receiving(p)' <=> Receiving(p))
  BY <1>1 DEF Sending, Receiving
<1>4. /\ \A p \in Proc : ~ InMsgSend(p) /\ ~ InMsgReceive(p)
      /\ M!Runs(c.p) /\ p_flags[c.p] = {}
  BY <1>1, UserRuns
<1>5. \A p \in Proc : (InMsgSend(p)' <=> p = c.p) /\ ~ InMsgReceive(p)'
  BY <1>1 DEF InMsgSend, InMsgReceive
<1>6. ToBar' = [ToBar EXCEPT ![c.p] = c.peer]
  BY <1>0, <1>1, <1>3, <1>4, <1>5 DEF ToBar, Sending
<1>7. FromBar' = FromBar
  BY <1>1, <1>3, <1>4, <1>5 DEF FromBar
<1>8. BoxBar' = [BoxBar EXCEPT ![c.p] = [source |-> c.p, body |-> b]]
  <2>1. \A p \in Proc : p # c.p => msg'[p] = msg[p] /\ ToBar'[p] = ToBar[p]
    BY <1>0, <1>2, <1>6, BarsAreFunctions DEF IInv, TypeOK
  <2>2. msg'[c.p] = [source |-> c.p, body |-> b] /\ ToBar'[c.p] # NO_TASK /\ ~ Receiving(c.p)
    BY <1>0, <1>2, <1>4, <1>6, BarsAreFunctions, IpcAssumption DEF IInv, TypeOK, Receiving
  <2> QED
    BY <1>0, <1>3, <2>1, <2>2, ZenonT(40) DEF BoxBar
<1>9. UNCHANGED {p \in Proc : Receiving(p)} /\ UNCHANGED {p \in Proc : has_int_msg[p] = 1}
  BY <1>1, <1>3
<1>10. M!Offer(c.p)
  BY <1>0, <1>1, <1>4, <1>6, <1>7, <1>8, <1>9 DEF M!Offer
<1> QED
  BY <1>0, <1>10 DEF M!Next

(* A RECEIVE of process p begins, the second half of a BOTH included.       *)
LEMMA AskStep ==
    ASSUME IInv, NEW p \in Proc, NEW src \in Peer, Enter(p, "msg_receive", src),
           NEW b, msg' = [msg EXCEPT ![p] = [source |-> p, body |-> b]]
    PROVE  M!Next
<1>1. /\ pc = "user" /\ p_proc_ready = p /\ pc' = "msg_receive" /\ caller' = p /\ peer' = src
      /\ UNCHANGED <<procVars, has_int_msg, q_sending>>
  BY DEF Enter, At
<1>2. \A q \in Proc : (Sending(q)' <=> Sending(q)) /\ (Receiving(q)' <=> Receiving(q))
  BY <1>1 DEF Sending, Receiving
<1>3. /\ \A q \in Proc : ~ InMsgSend(q) /\ ~ InMsgReceive(q)
      /\ M!Runs(p) /\ p_flags[p] = {}
  BY <1>1, UserRuns
<1>4. \A q \in Proc : (InMsgReceive(q)' <=> q = p) /\ ~ InMsgSend(q)'
  BY <1>1 DEF InMsgSend, InMsgReceive
<1>5. ToBar' = ToBar
  BY <1>1, <1>2, <1>3, <1>4 DEF ToBar
<1>6. FromBar' = [FromBar EXCEPT ![p] = src]
  BY <1>1, <1>2, <1>3, <1>4 DEF FromBar, Receiving
<1>7. BoxBar' = [BoxBar EXCEPT ![p] = NoMessage]
  <2>1. \A q \in Proc : q # p => msg'[q] = msg[q]
    BY DEF IInv, TypeOK
  <2>2. msg'[p].source = p /\ ToBar[p] = NO_TASK
    BY <1>3 DEF IInv, TypeOK, M!Runs
  <2> QED
    BY <1>2, <1>5, <2>1, <2>2 DEF BoxBar
<1>8. UNCHANGED {q \in Proc : Receiving(q)} /\ UNCHANGED {q \in Proc : has_int_msg[q] = 1}
  BY <1>1, <1>2
<1>9. M!Ask(p)
  BY <1>1, <1>3, <1>5, <1>6, <1>7, <1>8 DEF M!Ask, Peer
<1> QED
  BY <1>9 DEF M!Next

(* What is queued is what is being sent.                                    *)
LEMMA QueuedSends ==
    ASSUME IInv, NEW s \in Proc, NEW d \in Proc
    PROVE  M!Queued(s, d) <=> Sending(s) /\ p_sendto[s] = d
BY DEF IInv, QueueHoldsSenders, M!Queued

LEMMA EnqueueStep ==
    ASSUME IInv, IInv', SendEnqueue
    PROVE  M!Next
<1>1. pc = "msg_send" /\ ~ WaitsFor(peer, caller)
  BY DEF SendEnqueue, At
<1>2. caller \in Proc /\ peer \in Proc /\ caller # peer /\ p_flags[caller] = {}
  BY <1>1, HandingFacts
<1>3. /\ pc' = "send_block" /\ UNCHANGED <<caller, peer>>
      /\ p_flags' = [p_flags EXCEPT ![caller] = {"SENDING"}]
      /\ p_sendto' = [p_sendto EXCEPT ![caller] = peer]
      /\ q_sending' = [q_sending EXCEPT ![peer] = Append(@, caller)]
      /\ UNCHANGED <<p_recvfrom, has_int_msg, msg>>
  BY <1>2 DEF SendEnqueue, Goto
<1>4. \A p \in Proc : /\ (Sending(p)' <=> Sending(p) \/ p = caller)
                      /\ (Receiving(p)' <=> Receiving(p))
  BY <1>2, <1>3 DEF IInv, TypeOK, Sending, Receiving
<1>5. \A p \in Proc : /\ InMsgSend(p) <=> p = caller
                      /\ ~ InMsgSend(p)' /\ ~ InMsgReceive(p) /\ ~ InMsgReceive(p)'
  BY <1>1, <1>3 DEF InMsgSend, InMsgReceive
<1>6. ToBar' = ToBar /\ ToBar[caller] = peer
  <2>1. \A p \in Proc : p # caller => p_sendto'[p] = p_sendto[p]
    BY <1>3 DEF IInv, TypeOK
  <2>2. p_sendto'[caller] = peer /\ ~ Sending(caller)
    BY <1>2, <1>3 DEF IInv, TypeOK, Sending
  <2> QED
    BY <1>2, <1>4, <1>5, <2>1, <2>2 DEF ToBar
<1>7. FromBar' = FromBar
  BY <1>3, <1>4, <1>5 DEF FromBar
<1>8. BoxBar' = BoxBar
  BY <1>3, <1>4, <1>6 DEF BoxBar
<1>9. UNCHANGED {p \in Proc : Receiving(p)} /\ UNCHANGED {p \in Proc : has_int_msg[p] = 1}
  BY <1>3, <1>4
<1>10. ~ M!Queued(caller, peer)
  BY <1>2, QueuedSends DEF Sending
<1>11. ~ M!Awaits(peer, caller)
  BY <1>1, <1>2, BarValues DEF M!Awaits, WaitsFor
<1>12. M!Acyclic(q_sending')
  <2> SUFFICES ASSUME NEW S \in (SUBSET Proc) \ {{}}
               PROVE  \E s \in S : \A d \in S : \A i \in DOMAIN q_sending'[d] : q_sending'[d][i] # s
    BY DEF M!Acyclic
  <2>1. PICK s \in S : ~ (Sending(s)' /\ p_sendto'[s] \in S)
    BY DEF IInv, NoSendCycle
  <2>2. \A d \in Proc : {q_sending'[d][i] : i \in DOMAIN q_sending'[d]}
                          = {p \in Proc : Sending(p)' /\ p_sendto'[p] = d}
    BY DEF IInv, QueueHoldsSenders
  <2> QED
    BY <2>1, <2>2
<1>13. M!Enqueue(caller)
  BY <1>2, <1>3, <1>6, <1>7, <1>8, <1>9, <1>10, <1>11, <1>12, IpcAssumption DEF M!Enqueue
<1> QED
  BY <1>2, <1>13 DEF M!Next

(* The effect of a woken receiver d on the abstract state: by the last      *)
(* statement of a SEND of s, or by an interrupt just before it.             *)
LEMMA DeliverStep ==
    ASSUME IInv, pc = "send_187", Receiving(peer),
           p_flags' = [p_flags EXCEPT ![peer] = {}],
           UNCHANGED <<p_sendto, q_sending, msg, caller, peer>>,
           \A p \in Proc : p # peer => p_recvfrom'[p] = p_recvfrom[p],
           ~ InMsgSend(caller)',
           pc' \in {"user", "send_187"},
           {p \in Proc : has_int_msg[p] = 1}' \in
               {{p \in Proc : has_int_msg[p] = 1},
                {p \in Proc : has_int_msg[p] = 1} \ ({TASK_TTY, TASK_HD} \cap {peer})}
    PROVE  M!Next
<1>1. /\ caller \in Proc /\ peer \in Proc /\ caller # peer /\ p_flags[caller] = {}
      /\ msg[caller].source = caller /\ WaitsFor(peer, caller) /\ msg[peer] = msg[caller]
  BY HandingFacts DEF Handing, Clean, Receiving
<1>2. p_flags[peer] = {"RECEIVING"}
  BY <1>1, FlagsApart DEF IInv
<1>3. \A p \in Proc : /\ (Sending(p)' <=> Sending(p))
                      /\ (Receiving(p)' <=> Receiving(p) /\ p # peer)
  BY <1>1, <1>2 DEF IInv, TypeOK, Sending, Receiving
<1>4. \A p \in Proc : /\ InMsgSend(p) <=> p = caller
                      /\ ~ InMsgSend(p)' /\ ~ InMsgReceive(p) /\ ~ InMsgReceive(p)'
  BY DEF InMsgSend, InMsgReceive
<1>5. /\ ~ Sending(caller) /\ ~ Sending(peer) /\ ~ Receiving(caller)
  BY <1>1, <1>2 DEF Sending, Receiving
<1>6. ToBar' = [ToBar EXCEPT ![caller] = NO_TASK]
  BY <1>1, <1>3, <1>4, <1>5 DEF ToBar
<1>7. ToBar[caller] = peer /\ peer # NO_TASK /\ ToBar[peer] = NO_TASK
  BY <1>1, <1>4, <1>5, BarValues, IpcAssumption
<1>8. FromBar' = [FromBar EXCEPT ![peer] = NO_TASK]
  BY <1>1, <1>3, <1>4 DEF FromBar
<1>9. BoxBar' = [BoxBar EXCEPT ![peer] = BoxBar[caller], ![caller] = NoMessage]
  <2>1. BoxBar[caller] = msg[caller]
    BY <1>1, <1>5, <1>7, BarValues
  <2>2. \A p \in Proc : ToBar'[p] = IF p = caller THEN NO_TASK ELSE ToBar[p]
    BY <1>1, <1>6, BarsAreFunctions
  <2>3. \A p \in Proc : BoxBar'[p] =
            IF Receiving(p)' \/ (ToBar'[p] = NO_TASK /\ msg[p].source = p) THEN NoMessage ELSE msg[p]
    BY DEF BoxBar
  <2>4. BoxBar'[peer] = BoxBar[caller] /\ BoxBar'[caller] = NoMessage
    BY <1>1, <1>3, <1>7, <2>1, <2>2, <2>3
  <2>5. \A p \in Proc : p # peer /\ p # caller => BoxBar'[p] = BoxBar[p]
    BY <1>3, <2>2, <2>3, BarValues
  <2>6. BoxBar' = [p \in Proc |-> BoxBar'[p]]
    BY DEF BoxBar
  <2> QED
    BY <1>1, <2>4, <2>5, <2>6, BarsAreFunctions, ExceptTwo
<1>10. M!Awaits(peer, caller)
  BY <1>1, BarValues DEF M!Awaits, WaitsFor
<1>11. {p \in Proc : Receiving(p)}' = {p \in Proc : Receiving(p)} \ {peer}
  BY <1>3
<1>12. PICK s \in Proc : s = caller
  BY <1>1
<1>13. M!Deliver(s)
  BY <1>1, <1>6, <1>7, <1>8, <1>9, <1>10, <1>11, <1>12 DEF M!Deliver, M!HandOver
<1> QED
  BY <1>13 DEF M!Next

LEMMA WakeStep ==
    ASSUME RInv, SendWake
    PROVE  M!Next \/ UNCHANGED M!vars
<1>0. IInv /\ pc = "send_187" /\ pc \in Handing
  BY DEF RInv, SendWake, At, Handing
<1>1. /\ caller \in Proc /\ peer \in Proc /\ caller # peer /\ p_flags[caller] = {}
      /\ msg[caller].source = caller /\ p_msg[peer] = "null"
      /\ Clean(peer) \/ WaitsFor(peer, caller)
  BY <1>0, HandingFacts DEF IInv, CallState
<1>2. /\ p_flags[peer] \subseteq {"RECEIVING"} /\ p_sendto[peer] = NO_TASK /\ Clean(caller)
  BY <1>0, <1>1 DEF IInv, FieldsAgree, Clean, BlockedSender, WaitsFor, Receiving
<1>3. /\ pc' = "user" /\ UNCHANGED <<caller, peer>>
      /\ p_flags' = [p_flags EXCEPT ![peer] = {}]
      /\ p_recvfrom' = [p_recvfrom EXCEPT ![peer] = NO_TASK]
      /\ UNCHANGED <<p_sendto, has_int_msg, q_sending, msg>>
  BY <1>1, <1>2 DEF SendWake, Goto
<1>4. CASE Receiving(peer)
  <2>1. ~ InMsgSend(caller)'
    BY <1>3 DEF InMsgSend
  <2>2. \A p \in Proc : p # peer => p_recvfrom'[p] = p_recvfrom[p]
    BY <1>0, <1>3 DEF IInv, TypeOK
  <2>3. {p \in Proc : has_int_msg[p] = 1}' = {p \in Proc : has_int_msg[p] = 1}
    BY <1>3
  <2> QED
    BY <1>0, <1>3, <1>4, <2>1, <2>2, <2>3, DeliverStep
<1>5. CASE ~ Receiving(peer)
  <2>1. Clean(peer) /\ peer \in {TASK_TTY, TASK_HD}
    BY <1>0, <1>5, HandingFacts
  <2>2. p_flags' = p_flags /\ p_recvfrom' = p_recvfrom
    BY <1>0, <1>1, <1>3, <2>1 DEF IInv, TypeOK, Clean
  <2>3. \A p \in Proc : /\ (Sending(p)' <=> Sending(p)) /\ (Receiving(p)' <=> Receiving(p))
                        /\ ~ InMsgSend(p)' /\ ~ InMsgReceive(p) /\ ~ InMsgReceive(p)'
    BY <1>0, <1>3, <2>2 DEF Sending, Receiving, InMsgSend, InMsgReceive
  <2>4. CASE msg[peer] = msg[caller]
    <3>1. \A p \in Proc : ~ InMsgSend(p)
      BY <1>0, <1>5, <2>4 DEF InMsgSend
    <3> QED
      BY <1>3, <2>2, <2>3, <3>1, Stutters
  <2>5. CASE msg[peer] # msg[caller]
    <3>1. msg[peer] = HardInt
      BY <1>0, <1>5, <2>5 DEF RInv, Interrupted
    <3>2. \A p \in Proc : InMsgSend(p) <=> p = caller
      BY <1>0, <2>5 DEF InMsgSend
    <3>3. ~ Sending(caller) /\ ~ Sending(peer) /\ ~ Receiving(caller)
      BY <1>1, <2>1 DEF Clean, Sending, Receiving
    <3>4. ToBar' = [ToBar EXCEPT ![caller] = NO_TASK]
      BY <1>1, <1>3, <2>3, <3>2, <3>3 DEF ToBar
    <3>5. ToBar[caller] = peer /\ ToBar[peer] = NO_TASK /\ ToBar'[caller] = NO_TASK
          /\ \A p \in Proc : p # caller => ToBar'[p] = ToBar[p]
      BY <1>1, <3>2, <3>3, <3>4, BarValues, BarsAreFunctions
    <3>6. FromBar' = FromBar
      BY <2>2, <2>3 DEF FromBar
    <3>7. BoxBar' = [BoxBar EXCEPT ![caller] = NoMessage]
      BY <1>1, <1>3, <2>3, <3>5 DEF BoxBar
    <3>8. BoxBar[peer] = HardInt
      BY <1>1, <1>5, <3>1, BarValues, IpcAssumption DEF HardInt
    <3>9. UNCHANGED {p \in Proc : Receiving(p)} /\ UNCHANGED {p \in Proc : has_int_msg[p] = 1}
      BY <1>3, <2>3
    <3>10. ~ M!Queued(caller, peer)
      BY <1>0, <1>1, <3>3, QueuedSends
    <3>11. M!Lose(caller)
      BY <1>3, <1>5, <2>1, <3>4, <3>5, <3>6, <3>7, <3>8, <3>9, <3>10 DEF M!Lose
    <3> QED
      BY <1>1, <3>11 DEF M!Next
  <2> QED
    BY <2>4, <2>5
<1> QED
  BY <1>4, <1>5

LEMMA TakeInterruptStep ==
    ASSUME IInv, RecvInterrupt
    PROVE  M!Next
<1>1. /\ pc = "msg_receive" /\ caller \in Proc /\ p_flags[caller] = {}
      /\ has_int_msg[caller] = 1 /\ peer \in {ANY, INTERRUPT}
  BY DEF RecvInterrupt, At, TakesInterrupt, IInv, TypeOK, CallState
<1>2. /\ pc' = "recv_255" /\ UNCHANGED <<caller, peer>>
      /\ msg' = [msg EXCEPT ![caller] = HardInt]
      /\ has_int_msg' = [has_int_msg EXCEPT ![caller] = 0]
      /\ UNCHANGED <<procVars, q_sending>>
  BY DEF RecvInterrupt, Goto
<1>3. \A p \in Proc : (Sending(p)' <=> Sending(p)) /\ (Receiving(p)' <=> Receiving(p))
  BY <1>2 DEF Sending, Receiving
<1>4. \A p \in Proc : /\ ~ InMsgSend(p) /\ ~ InMsgSend(p)' /\ ~ InMsgReceive(p)'
                      /\ (InMsgReceive(p) <=> p = caller)
  BY <1>1, <1>2 DEF InMsgSend, InMsgReceive
<1>5. ~ Sending(caller) /\ ~ Receiving(caller)
  BY <1>1 DEF Sending, Receiving
<1>6. ToBar' = ToBar /\ ToBar[caller] = NO_TASK
  BY <1>1, <1>2, <1>3, <1>4, <1>5 DEF ToBar
<1>7. FromBar' = [FromBar EXCEPT ![caller] = NO_TASK] /\ FromBar[caller] = peer
  BY <1>1, <1>2, <1>3, <1>4, <1>5 DEF FromBar
<1>8. BoxBar' = [BoxBar EXCEPT ![caller] = HardInt]
  <2>1. msg'[caller] = HardInt /\ HardInt.source # caller
        /\ \A p \in Proc : p # caller => msg'[p] = msg[p]
    BY <1>1, <1>2, IpcAssumption DEF IInv, TypeOK, HardInt
  <2> QED
    BY <1>1, <1>3, <1>5, <1>6, <2>1 DEF BoxBar
<1>9. /\ UNCHANGED {p \in Proc : Receiving(p)}
      /\ {p \in Proc : has_int_msg[p] = 1}' = {p \in Proc : has_int_msg[p] = 1} \ {caller}
  BY <1>1, <1>2, <1>3 DEF IInv, TypeOK
<1>10. PICK d \in Proc : d = caller
  BY <1>1
<1>11. M!TakeInterrupt(d)
  BY <1>1, <1>2, <1>5, <1>6, <1>7, <1>8, <1>9, <1>10 DEF M!TakeInterrupt, M!FindsInterrupt
<1> QED
  BY <1>11 DEF M!Next

LEMMA TakeStep ==
    ASSUME IInv, NEW s \in Proc, RecvTake(s)
    PROVE  M!Next
<1>1. /\ pc = "msg_receive" /\ p_flags[caller] = {} /\ caller \in Proc /\ s # caller
      /\ Sending(s) /\ p_sendto[s] = caller /\ BlockedSender(s, caller)
      /\ pc' = "user" /\ UNCHANGED <<p_recvfrom, caller, peer>>
      /\ msg' = [msg EXCEPT ![caller] = msg[s]]
      /\ p_sendto' = [p_sendto EXCEPT ![s] = NO_TASK]
      /\ p_flags' = [p_flags EXCEPT ![s] = {}]
  BY TakeEffect DEF IInv, TypeOK
<1>2. PICK i \in DOMAIN q_sending[caller] :
          /\ q_sending[caller][i] = s
          /\ q_sending' = [q_sending EXCEPT ![caller] = Unlink(@, i)]
  BY TakeEffect
<1>3. UNCHANGED has_int_msg /\ ~ TakesInterrupt(caller, peer) /\ Offers(s, caller, peer)
  BY DEF RecvTake, Halt
<1>4. peer = s \/ (peer = ANY /\ i = 1)
  <2>1. CASE peer \in Proc
    BY <1>3, <2>1, IpcAssumption DEF Offers
  <2>2. CASE peer \notin Proc
    <3>1. peer = ANY /\ q_sending[caller] # <<>> /\ s = Head(q_sending[caller])
      BY <1>3, <2>2 DEF Offers
    <3>2. q_sending[caller] \in Seq(Proc)
      BY <1>1 DEF IInv, TypeOK
    <3>3. q_sending[caller][1] = s /\ 1 \in DOMAIN q_sending[caller]
      BY <3>1, <3>2
    <3>4. i = 1
      BY <1>1, <1>2, <3>3 DEF IInv, QueueHoldsSenders
    <3> QED
      BY <3>1, <3>4
  <2> QED
    BY <2>1, <2>2
<1>5. \A p \in Proc : /\ (Sending(p)' <=> Sending(p) /\ p # s)
                      /\ (Receiving(p)' <=> Receiving(p))
  BY <1>1 DEF IInv, TypeOK, Sending, Receiving, BlockedSender
<1>6. \A p \in Proc : /\ ~ InMsgSend(p) /\ ~ InMsgSend(p)' /\ ~ InMsgReceive(p)'
                      /\ (InMsgReceive(p) <=> p = caller)
  BY <1>1 DEF InMsgSend, InMsgReceive
<1>7. ~ Sending(caller) /\ ~ Receiving(caller) /\ ~ Receiving(s) /\ msg[s].source = s
  BY <1>1 DEF Sending, Receiving, BlockedSender, IInv, Stamped
<1>8. ToBar' = [ToBar EXCEPT ![s] = NO_TASK]
  <2>1. \A p \in Proc : p # s => p_sendto'[p] = p_sendto[p]
    BY <1>1 DEF IInv, TypeOK
  <2> QED
    BY <1>5, <1>6, <2>1 DEF ToBar
<1>9. /\ ToBar[s] = caller /\ ToBar[caller] = NO_TASK /\ caller # NO_TASK
      /\ \A p \in Proc : ToBar'[p] = IF p = s THEN NO_TASK ELSE ToBar[p]
  BY <1>1, <1>6, <1>7, <1>8, BarValues, BarsAreFunctions, IpcAssumption
<1>10. FromBar' = [FromBar EXCEPT ![caller] = NO_TASK] /\ FromBar[caller] = peer
  BY <1>1, <1>5, <1>6, <1>7 DEF FromBar
<1>11. BoxBar' = [BoxBar EXCEPT ![caller] = BoxBar[s], ![s] = NoMessage]
  <2>1. BoxBar[s] = msg[s]
    BY <1>7, <1>9, BarValues
  <2>2. /\ msg'[caller] = msg[s]
        /\ \A p \in Proc : p # caller => msg'[p] = msg[p]
    BY <1>1 DEF IInv, TypeOK
  <2>3. \A p \in Proc : BoxBar'[p] =
            IF Receiving(p)' \/ (ToBar'[p] = NO_TASK /\ msg'[p].source = p)
            THEN NoMessage ELSE msg'[p]
    BY DEF BoxBar
  <2>4. BoxBar'[caller] = BoxBar[s] /\ BoxBar'[s] = NoMessage
    BY <1>1, <1>5, <1>7, <1>9, <2>1, <2>2, <2>3
  <2>5. \A p \in Proc : p # caller /\ p # s => BoxBar'[p] = BoxBar[p]
    BY <1>5, <1>9, <2>2, <2>3, BarValues
  <2>6. BoxBar' = [p \in Proc |-> BoxBar'[p]]
    BY DEF BoxBar
  <2> QED
    BY <1>1, <2>4, <2>5, <2>6, BarsAreFunctions, ExceptTwo
<1>12. UNCHANGED {p \in Proc : Receiving(p)} /\ UNCHANGED {p \in Proc : has_int_msg[p] = 1}
  BY <1>3, <1>5
<1>13. ~ M!FindsInterrupt(caller)
  BY <1>3, <1>10 DEF M!FindsInterrupt, TakesInterrupt
<1>14. M!HandOver(q_sending[caller][i], caller)
  BY <1>2, <1>8, <1>10, <1>11 DEF M!HandOver
<1>15. PICK d \in Proc : d = caller
  BY <1>1
<1>16. M!Take(d)
  BY <1>1, <1>2, <1>4, <1>7, <1>10, <1>12, <1>13, <1>14, <1>15 DEF M!Take, Unlink
<1> QED
  BY <1>16 DEF M!Next

LEMMA SleepStep ==
    ASSUME RInv, RecvSleep
    PROVE  M!Next
<1>0. IInv
  BY DEF RInv
<1>1. /\ pc = "recv_333" /\ caller \in Proc /\ p_flags[caller] = {} /\ peer \in Peer
      /\ msg[caller].source = caller
  BY DEF RecvSleep, At, RInv, IInv, TypeOK, CallState, Asking
<1>2. /\ pc' = "recv_block" /\ UNCHANGED <<caller, peer>>
      /\ p_flags' = [p_flags EXCEPT ![caller] = {"RECEIVING"}]
      /\ p_recvfrom' = [p_recvfrom EXCEPT ![caller] = peer]
      /\ UNCHANGED <<p_sendto, has_int_msg, q_sending, msg>>
  BY <1>1 DEF RecvSleep, Goto
<1>3. \A p \in Proc : /\ (Sending(p)' <=> Sending(p))
                      /\ (Receiving(p)' <=> Receiving(p) \/ p = caller)
  BY <1>0, <1>1, <1>2 DEF IInv, TypeOK, Sending, Receiving
<1>4. \A p \in Proc : /\ ~ InMsgSend(p) /\ ~ InMsgSend(p)' /\ ~ InMsgReceive(p)'
                      /\ (InMsgReceive(p) <=> p = caller)
  BY <1>1, <1>2 DEF InMsgSend, InMsgReceive
<1>5. ~ Sending(caller) /\ ~ Receiving(caller)
  BY <1>1 DEF Sending, Receiving
<1>6. ToBar' = ToBar /\ ToBar[caller] = NO_TASK
  BY <1>1, <1>2, <1>3, <1>4, <1>5 DEF ToBar
<1>7. FromBar' = FromBar /\ FromBar[caller] = peer
  <2>1. \A p \in Proc : p_recvfrom'[p] = IF p = caller THEN peer ELSE p_recvfrom[p]
    BY <1>0, <1>1, <1>2 DEF IInv, TypeOK
  <2> QED
    BY <1>1, <1>3, <1>4, <1>5, <2>1 DEF FromBar
<1>8. BoxBar' = BoxBar
  BY <1>1, <1>2, <1>3, <1>6 DEF BoxBar
<1>9. /\ {p \in Proc : Receiving(p)}' = {p \in Proc : Receiving(p)} \cup {caller}
      /\ UNCHANGED {p \in Proc : has_int_msg[p] = 1}
  BY <1>1, <1>2, <1>3
<1>10. \A s \in Proc : M!Queued(s, caller) => FromBar[caller] \notin {s, ANY}
  BY <1>0, <1>1, <1>7, QueuedSends DEF IInv, CallState
<1>11. M!Sleep(caller)
  BY <1>1, <1>2, <1>5, <1>6, <1>7, <1>8, <1>9, <1>10, IpcAssumption DEF M!Sleep, Peer
<1> QED
  BY <1>1, <1>11 DEF M!Next

(* An interrupt, wherever the system call is at: between the lines 186 and  *)
(* 187 it is the step that delivers the message.                            *)
LEMMA InterruptStep ==
    ASSUME RInv, NEW t \in {TASK_TTY, TASK_HD}, inform_int(t),
           UNCHANGED <<q_sending, pc, caller, peer>>
    PROVE  M!Next
<1>0. IInv /\ t \in Proc /\ caller \in Proc
  BY IpcAssumption DEF RInv, IInv, TypeOK
<1>1. CASE ~ (Receiving(t) /\ p_recvfrom[t] \in {INTERRUPT, ANY})
  <2>1. has_int_msg' = [has_int_msg EXCEPT ![t] = 1] /\ UNCHANGED <<procVars, msg>>
    BY <1>0, <1>1, InformEffect
  <2>2. \A p \in Proc : /\ (Sending(p)' <=> Sending(p)) /\ (Receiving(p)' <=> Receiving(p))
                        /\ (InMsgSend(p)' <=> InMsgSend(p))
                        /\ (InMsgReceive(p)' <=> InMsgReceive(p))
    BY <2>1 DEF Sending, Receiving, InMsgSend, InMsgReceive
  <2>3. ToBar' = ToBar
    BY <2>1, <2>2 DEF ToBar
  <2>4. FromBar' = FromBar
    BY <2>1, <2>2 DEF FromBar
  <2>5. BoxBar' = BoxBar
    BY <2>1, <2>2, <2>3 DEF BoxBar
  <2>6. /\ UNCHANGED {p \in Proc : Receiving(p)}
        /\ {p \in Proc : has_int_msg[p] = 1}' = {p \in Proc : has_int_msg[p] = 1} \cup {t}
    BY <1>0, <2>1, <2>2 DEF IInv, TypeOK
  <2>7. ~ (t \in {p \in Proc : Receiving(p)} /\ FromBar[t] \in {INTERRUPT, ANY})
    BY <1>0, <1>1, BarValues
  <2>8. M!Interrupt(t)
    BY <2>3, <2>4, <2>5, <2>6, <2>7 DEF M!Interrupt
  <2> QED
    BY <2>8 DEF M!Next
<1>2. CASE Receiving(t) /\ p_recvfrom[t] \in {INTERRUPT, ANY}
  <2>1. /\ p_flags[t] = {"RECEIVING"}
        /\ p_msg[t] = "m" \/ (pc = "send_187" /\ t = peer)
        /\ msg' = IF p_msg[t] = "null" THEN msg ELSE [msg EXCEPT ![t] = HardInt]
        /\ has_int_msg' = [has_int_msg EXCEPT ![t] = 0]
        /\ p_flags' = [p_flags EXCEPT ![t] = {}]
        /\ p_recvfrom' = [p_recvfrom EXCEPT ![t] = NO_TASK]
        /\ UNCHANGED p_sendto
    BY <1>0, <1>2, InformEffect
  <2>2. \A p \in Proc : /\ (Sending(p)' <=> Sending(p)) /\ ~ Sending(t)
                        /\ (Receiving(p)' <=> Receiving(p) /\ p # t)
                        /\ p # t => p_recvfrom'[p] = p_recvfrom[p]
    BY <1>0, <2>1 DEF IInv, TypeOK, Sending, Receiving
  <2>3. {p \in Proc : has_int_msg[p] = 1}' = {p \in Proc : has_int_msg[p] = 1} \ {t}
    BY <1>0, <2>1 DEF IInv, TypeOK
  <2>4. CASE pc = "send_187" /\ t = peer
    <3>1. p_msg[t] = "null" /\ msg' = msg
      BY <1>0, <2>1, <2>4 DEF IInv, CallState
    <3>2. msg[peer] = msg[caller]
      BY <1>0, <1>2, <2>4, HandingFacts DEF Handing
    <3>3. ~ InMsgSend(caller)'
      BY <1>0, <2>2, <2>4, <3>1, <3>2 DEF InMsgSend
    <3>4. {TASK_TTY, TASK_HD} \cap {peer} = {t}
      BY <2>4
    <3> QED
      BY <1>0, <1>2, <2>1, <2>2, <2>3, <2>4, <3>1, <3>3, <3>4, DeliverStep
  <2>5. CASE ~ (pc = "send_187" /\ t = peer)
    <3>1. msg' = [msg EXCEPT ![t] = HardInt]
      BY <2>1, <2>5
    <3>2. msg'[t] = HardInt /\ HardInt.source # t /\ \A p \in Proc : p # t => msg'[p] = msg[p]
      BY <1>0, <3>1, IpcAssumption DEF IInv, TypeOK, HardInt
    <3>3. pc \in {"msg_send", "msg_receive", "recv_333"} \cup Handing => caller # t
      BY <1>0, <2>1 DEF IInv, CallState
    <3>4. pc = "send_187" => peer \in Proc /\ peer # t
      BY <1>0, <2>5, HandingFacts DEF Handing
    <3>5. \A p \in Proc : /\ (InMsgSend(p)' <=> InMsgSend(p))
                          /\ (InMsgReceive(p)' <=> InMsgReceive(p))
      BY <1>0, <2>2, <3>2, <3>3, <3>4 DEF InMsgSend, InMsgReceive, Handing
    <3>6. ~ InMsgSend(t) /\ ~ InMsgReceive(t)
      BY <3>3 DEF InMsgSend, InMsgReceive, Handing
    <3>7. ToBar' = ToBar /\ ToBar[t] = NO_TASK
      BY <1>0, <2>1, <2>2, <3>5, <3>6 DEF ToBar
    <3>8. FromBar' = [FromBar EXCEPT ![t] = NO_TASK] /\ FromBar[t] = p_recvfrom[t]
      BY <1>0, <1>2, <2>2, <3>5, <3>6 DEF FromBar
    <3>9. BoxBar' = [BoxBar EXCEPT ![t] = HardInt]
      BY <1>0, <2>2, <3>2, <3>7 DEF BoxBar
    <3>10. {p \in Proc : Receiving(p)}' = {p \in Proc : Receiving(p)} \ {t}
      BY <2>2
    <3>11. M!Interrupt(t)
      BY <1>0, <1>2, <2>3, <3>7, <3>8, <3>9, <3>10 DEF M!Interrupt
    <3> QED
      BY <3>11 DEF M!Next
  <2> QED
    BY <2>4, <2>5
<1> QED
  BY <1>1, <1>2

(* The statements that the abstract message passing does not have, and the  *)
(* assertions that stop the kernel.                                         *)
LEMMA QuietStutters ==
    ASSUME RInv,
           \/ SendDeadlock \/ SendMeets \/ SendAssert \/ SendCopy \/ SendClear \/ SendReturn
           \/ RecvInterruptReturn \/ RecvNothing \/ RecvReturn \/ Block
           \/ KeyboardHandler \/ TtyKeysRead \/ Stopped \/ UNCHANGED vars
           \/ ClockHandler /\ key_pressed # 1
    PROVE  UNCHANGED M!vars
<1>0. IInv
  BY DEF RInv
<1>1. UNCHANGED <<p_flags, p_sendto, p_recvfrom, has_int_msg, q_sending, caller, peer>>
  BY DEF SendDeadlock, SendMeets, SendAssert, SendCopy, SendClear, SendReturn,
         RecvInterruptReturn, RecvNothing, RecvReturn, Block, BlockAssert, BlockSchedule,
         KeyboardHandler, TtyKeysRead, Stopped, ClockHandler, Goto, Halt
<1>2. \A p \in Proc : msg'[p] = msg[p] \/ Receiving(p)
  <2>1. CASE SendCopy
    <3>1. caller \in Proc /\ peer \in Proc /\ (p_msg[peer] # "null" => Receiving(peer))
      BY <1>0, <2>1, HandingFacts DEF SendCopy, At, Handing, Clean, WaitsFor
    <3> QED
      BY <1>0, <2>1, <3>1 DEF SendCopy, IInv, TypeOK
  <2>2. CASE ~ SendCopy
    <3>1. msg' = msg
      BY <2>2
      DEF SendDeadlock, SendMeets, SendAssert, SendClear, SendReturn,
          RecvInterruptReturn, RecvNothing, RecvReturn, Block, BlockAssert, BlockSchedule,
          KeyboardHandler, TtyKeysRead, Stopped, ClockHandler, Goto, Halt
    <3> QED
      BY <3>1
  <2> QED
    BY <2>1, <2>2
<1>3. \A p \in Proc : InMsgReceive(p)' <=> InMsgReceive(p)
  BY DEF SendDeadlock, SendMeets, SendAssert, SendCopy, SendClear, SendReturn,
         RecvInterruptReturn, RecvNothing, RecvReturn, Block, BlockAssert, BlockSchedule,
         KeyboardHandler, TtyKeysRead, Stopped, ClockHandler, At, Goto, Halt, InMsgReceive
<1>4. \A p \in Proc : InMsgSend(p)' <=> InMsgSend(p)
  <2>1. CASE SendClear
    <3>1. pc = "send_186" /\ pc \in Handing /\ pc' = "send_187" /\ UNCHANGED <<caller, peer, msg>>
      BY <2>1 DEF SendClear, At, Goto, Handing
    <3>2. ~ Receiving(peer) => msg[peer] # msg[caller]
      <4>1. ~ Receiving(peer) => msg[peer] = HardInt
        BY <3>1 DEF RInv, Interrupted
      <4>2. msg[caller].source = caller /\ caller \in Proc
        BY <1>0, <3>1, HandingFacts
      <4> QED
        BY <4>1, <4>2, IpcAssumption DEF HardInt
    <3>3. Receiving(peer)' <=> Receiving(peer)
      BY <1>1 DEF Receiving
    <3> QED
      BY <3>1, <3>2, <3>3 DEF InMsgSend
  <2>2. CASE SendMeets \/ SendAssert \/ SendCopy
    BY <2>2 DEF SendMeets, SendAssert, SendCopy, At, Goto, Halt, InMsgSend
  <2>3. CASE ~ (SendClear \/ SendMeets \/ SendAssert \/ SendCopy)
    <3>1. /\ UNCHANGED <<msg, caller, peer, p_flags>>
          /\ pc' = pc \/ (/\ pc \notin {"msg_send", "send_181", "send_185", "send_186", "send_187"}
                          /\ pc' \notin {"msg_send", "send_181", "send_185", "send_186", "send_187"})
      BY <2>3
      DEF SendDeadlock, SendReturn, RecvInterruptReturn, RecvNothing, RecvReturn, Block,
          BlockAssert, BlockSchedule, KeyboardHandler, TtyKeysRead, Stopped, ClockHandler,
          At, Goto, Halt
    <3> QED
      BY <3>1 DEF InMsgSend, Receiving
  <2> QED
    BY <2>1, <2>2, <2>3
<1> QED
  BY <1>1, <1>2, <1>3, <1>4, Stutters

LEMMA NextMaps ==
    ASSUME RInv, IInv', [Next]_vars
    PROVE  M!Next \/ UNCHANGED M!vars
<1>0. IInv
  BY DEF RInv
<1>1. ASSUME NEW c \in Calls, CallSend(c) PROVE M!Next
  BY <1>0, <1>1, OfferStep
<1>2. ASSUME NEW c \in Calls, CallReceive(c) PROVE M!Next
  <2>1. c.p \in Proc /\ c.peer \in Peer
    BY IpcAssumption
  <2> QED
    BY <1>0, <1>2, <2>1, AskStep DEF CallReceive
<1>3. ASSUME NEW p \in Proc, CallBoth(p) PROVE M!Next
  <2>1. PICK src \in Peer : src = both[p]
    BY <1>0, <1>3 DEF IInv, TypeOK, CallBoth, Peer
  <2>2. PICK b : b = msg[p].body
    OBVIOUS
  <2>3. Enter(p, "msg_receive", src) /\ msg' = [msg EXCEPT ![p] = [source |-> p, body |-> b]]
    BY <1>0, <1>3, <2>1, <2>2 DEF CallBoth, IInv, TypeOK
  <2> QED
    BY <1>0, <2>3, AskStep
<1>4. CASE SendEnqueue
  BY <1>0, <1>4, EnqueueStep
<1>5. CASE SendWake
  BY <1>5, WakeStep
<1>6. CASE RecvInterrupt
  BY <1>0, <1>6, TakeInterruptStep
<1>7. ASSUME NEW s \in Proc, RecvTake(s) PROVE M!Next
  BY <1>0, <1>7, TakeStep
<1>8. CASE RecvSleep
  BY <1>8, SleepStep
<1>9. CASE HdHandler
  BY <1>9, InterruptStep DEF HdHandler
<1>10. CASE ClockHandler /\ key_pressed = 1
  BY <1>10, InterruptStep DEF ClockHandler
<1>11. CASE \/ SendDeadlock \/ SendMeets \/ SendAssert \/ SendCopy \/ SendClear \/ SendReturn
            \/ RecvInterruptReturn \/ RecvNothing \/ RecvReturn \/ Block
            \/ KeyboardHandler \/ TtyKeysRead \/ Stopped \/ UNCHANGED vars
            \/ ClockHandler /\ key_pressed # 1
  BY <1>11, QuietStutters
<1> QED
  BY <1>1, <1>2, <1>3, <1>4, <1>5, <1>6, <1>7, <1>8, <1>9, <1>10, <1>11
  DEF Next, Send, Receive

(***************************************************************************)
(* The message passing of proc.c keeps the promise of Messages: sendrec    *)
(* and the handlers, statement by statement, hand every message over once  *)
(* and whole, in order, and lose one only to an interrupt of its receiver. *)
(***************************************************************************)
THEOREM Refinement == Spec => ImplementsMessages
<1>1. RInv /\ RInv' /\ [Next]_vars => [M!Next]_(M!vars)
  BY NextMaps DEF RInv
<1> QED
  BY <1>1, RInvInit, RInvStep, InitMaps, PTL DEF Spec, ImplementsMessages, M!Spec
=============================================================================
