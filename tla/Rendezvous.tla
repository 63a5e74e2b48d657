----------------------------- MODULE Rendezvous -----------------------------
(***************************************************************************)
(* What a process sees of sendrec (kernel/proc.c) when no interrupt falls  *)
(* into the middle of a system call: SEND, RECEIVE and inform_int are one  *)
(* step each.  The modules of the tasks are written with these operators;  *)
(* module Ipc has the steps of the calls and what interrupts do to them.   *)
(***************************************************************************)
EXTENDS Naturals, Sequences

CONSTANTS Proc, ANY, INTERRUPT, NoMessage

VARIABLES wait,        \* what a process waits for
          q_sending,   \* the processes that wait to send to it, oldest first
          mail,        \* the message it has received, or waits to send
          has_int_msg  \* an interrupt came while it was not receiving
ipcVars == <<wait, q_sending, mail, has_int_msg>>

Run == [op |-> "run", peer |-> ANY]
Sends(d) == [op |-> "send", peer |-> d]
Receives(s) == [op |-> "receive", peer |-> s]

IpcInit ==
    /\ wait = [p \in Proc |-> Run]
    /\ q_sending = [p \in Proc |-> <<>>]
    /\ mail = [p \in Proc |-> NoMessage]
    /\ has_int_msg = [p \in Proc |-> FALSE]

IpcTypeOK(Message) ==
    /\ wait \in [Proc -> [op : {"run", "send", "receive"},
                          peer : Proc \cup {ANY, INTERRUPT}]]
    /\ q_sending \in [Proc -> Seq(Proc)]
    /\ mail \in [Proc -> Message]
    /\ has_int_msg \in [Proc -> BOOLEAN]

Running(p) == wait[p] = Run

WaitsFor(d, s) == wait[d] \in {Receives(s), Receives(ANY)}

(* The walk from dest along the senders comes to one that sends to src. *)
deadlock(src, dest) ==
    /\ wait[dest].op = "send"
    /\ ~ \E C \in SUBSET Proc :
           /\ dest \in C
           /\ \A p \in C : wait[p].op = "send" => wait[p].peer \in C \ {src}

(* SEND of m by s to d, where it does not panic. *)
Send(s, d, m) ==
    LET stamped == [m EXCEPT !.source = s]
    IN  /\ ~ deadlock(s, d)
        /\ \/ /\ WaitsFor(d, s)
              /\ mail' = [mail EXCEPT ![s] = NoMessage, ![d] = stamped]
              /\ wait' = [wait EXCEPT ![d] = Run]
              /\ UNCHANGED q_sending
           \/ /\ ~ WaitsFor(d, s)
              /\ mail' = [mail EXCEPT ![s] = stamped]
              /\ wait' = [wait EXCEPT ![s] = Sends(d)]
              /\ q_sending' = [q_sending EXCEPT ![d] = Append(@, s)]
        /\ UNCHANGED has_int_msg

(* The process whose message a RECEIVE from src by p takes at once. *)
Offers(s, p, src) ==
    /\ wait[s] = Sends(p)
    /\ IF src = ANY THEN q_sending[p] # <<>> /\ s = Head(q_sending[p]) ELSE s = src

(* RECEIVE by p from src; hardInt is the message of an interrupt. *)
Receive(p, src, hardInt) ==
    IF has_int_msg[p] /\ src \in {ANY, INTERRUPT}
    THEN /\ mail' = [mail EXCEPT ![p] = hardInt]
         /\ has_int_msg' = [has_int_msg EXCEPT ![p] = FALSE]
         /\ UNCHANGED <<wait, q_sending>>
    ELSE /\ \/ \E s \in Proc :
                  /\ Offers(s, p, src)
                  /\ mail' = [mail EXCEPT ![s] = NoMessage, ![p] = mail[s]]
                  /\ wait' = [wait EXCEPT ![s] = Run]
                  /\ q_sending' = [q_sending EXCEPT ![p] = SelectSeq(@, LAMBDA x : x # s)]
            \/ /\ \A s \in Proc : ~ Offers(s, p, src)
               /\ wait' = [wait EXCEPT ![p] = Receives(src)]
               /\ mail' = [mail EXCEPT ![p] = NoMessage]
               /\ UNCHANGED q_sending
         /\ UNCHANGED has_int_msg

inform_int(t, hardInt) ==
    IF wait[t] \in {Receives(INTERRUPT), Receives(ANY)}
    THEN /\ mail' = [mail EXCEPT ![t] = hardInt]
         /\ wait' = [wait EXCEPT ![t] = Run]
         /\ has_int_msg' = [has_int_msg EXCEPT ![t] = FALSE]
         /\ UNCHANGED q_sending
    ELSE /\ has_int_msg' = [has_int_msg EXCEPT ![t] = TRUE]
         /\ UNCHANGED <<wait, q_sending, mail>>
=============================================================================
