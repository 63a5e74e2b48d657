--------------------------- MODULE IpcRefinement ---------------------------
(***************************************************************************)
(* The system calls and handlers of Ipc implement the promise in Messages. *)
(***************************************************************************)
EXTENDS Ipc

NoMessage == [source |-> NO_TASK, body |-> "none"]

(* p is in msg_send and has neither delivered nor enqueued its message.  An *)
(* interrupt that comes between the lines 186 and 187 finds the message     *)
(* copied and p_msg cleared: it wakes the receiver with the message.        *)
InMsgSend(p) ==
    /\ p = caller
    /\ pc \in {"msg_send", "send_181", "send_185", "send_186", "send_187"}
    /\ ~ (pc = "send_187" /\ ~ Receiving(peer) /\ msg[peer] = msg[p])

InMsgReceive(p) == p = caller /\ pc \in {"msg_receive", "recv_333"}

ToBar == [p \in Proc |-> IF Sending(p) THEN p_sendto[p]
                         ELSE IF InMsgSend(p) THEN peer ELSE NO_TASK]

FromBar == [p \in Proc |-> IF Receiving(p) THEN p_recvfrom[p]
                           ELSE IF InMsgReceive(p) THEN peer ELSE NO_TASK]

BoxBar == [p \in Proc |->
             IF Receiving(p) \/ (ToBar[p] = NO_TASK /\ msg[p].source = p)
             THEN NoMessage ELSE msg[p]]

M == INSTANCE Messages WITH
        Informed <- {TASK_TTY, TASK_HD},
        Empty <- NoMessage,
        to <- ToBar,
        from <- FromBar,
        asleep <- {p \in Proc : Receiving(p)},
        box <- BoxBar,
        queue <- q_sending,
        pending <- {p \in Proc : has_int_msg[p] = 1}

(***************************************************************************)
(* Every behaviour of sendrec and inform_int, with a handler between any   *)
(* two statements, is one of the abstract message passing: a message is    *)
(* handed over once and whole, offers are taken in order, an answer comes  *)
(* from the process it is awaited from, and the one thing that can take a  *)
(* message away is an interrupt of the receiving task.                     *)
(***************************************************************************)
ImplementsMessages == M!Spec
=============================================================================
