------------------------------ MODULE Messages ------------------------------
(***************************************************************************)
(* What the message passing of kernel/proc.c promises, without the flags,  *)
(* pointers and statements that it is made of.  A process runs, offers a   *)
(* message, asks for one, or sleeps until one comes.  An offer ends in the *)
(* step that gives the message to the receiver; offers that have to wait   *)
(* stand in a queue; an interrupt is a message without a sender, and a     *)
(* process that does not sleep finds at most one of them later.            *)
(*                                                                         *)
(* Two allowances are what the code really does, not what one would wish:  *)
(* Sleep does not look at pending, and Lose drops an offer that meets a    *)
(* task which an interrupt has just woken.  They are the only two.         *)
(***************************************************************************)
EXTENDS Naturals, Sequences

CONSTANTS Proc, Informed,  \* the processes, and those that interrupts inform
          ANY, INTERRUPT, NO_TASK, Body,
          Empty, HardInt   \* no message, and the message of an interrupt

VARIABLES to,       \* whom a process offers its message to, or NO_TASK
          from,     \* whom a process wants a message of, or NO_TASK
          asleep,   \* the processes that sleep until it comes
          box,      \* the message a process offers, or received last
          queue,    \* the offers a process has not taken yet, oldest first
          pending   \* the processes with an interrupt to find

vars == <<to, from, asleep, box, queue, pending>>

Runs(p) == to[p] = NO_TASK /\ from[p] = NO_TASK

Queued(s, d) == \E i \in DOMAIN queue[d] : queue[d][i] = s

(* d sleeps, and a message of s is one that it waits for. *)
Awaits(d, s) == d \in asleep /\ from[d] \in {s, ANY}

FindsInterrupt(d) == d \in pending /\ from[d] \in {INTERRUPT, ANY}

(* Nobody in the queues waits for itself by way of others. *)
Acyclic(q) ==
    \A S \in (SUBSET Proc) \ {{}} :
        \E s \in S : \A d \in S : \A i \in DOMAIN q[d] : q[d][i] # s

Init ==
    /\ to = [p \in Proc |-> NO_TASK]
    /\ from = [p \in Proc |-> NO_TASK]
    /\ asleep = {}
    /\ box = [p \in Proc |-> Empty]
    /\ queue = [p \in Proc |-> <<>>]
    /\ pending = {}

(* A process begins a SEND. *)
Offer(s) ==
    /\ Runs(s)
    /\ \E d \in Proc : to' = [to EXCEPT ![s] = d]
    /\ \E b \in Body : box' = [box EXCEPT ![s] = [source |-> s, body |-> b]]
    /\ UNCHANGED <<from, asleep, queue, pending>>

(* A process begins a RECEIVE; what it received before is gone. *)
Ask(d) ==
    /\ Runs(d)
    /\ \E src \in Proc \cup {ANY, INTERRUPT} : from' = [from EXCEPT ![d] = src]
    /\ box' = [box EXCEPT ![d] = Empty]
    /\ UNCHANGED <<to, asleep, queue, pending>>

(* The message of s is the answer d waits for, and both run again. *)
HandOver(s, d) ==
    /\ to' = [to EXCEPT ![s] = NO_TASK]
    /\ from' = [from EXCEPT ![d] = NO_TASK]
    /\ box' = [box EXCEPT ![d] = box[s], ![s] = Empty]

(* An interrupt that comes in the middle of it is taken with the message. *)
Deliver(s) ==
    /\ to[s] # NO_TASK
    /\ Awaits(to[s], s)
    /\ HandOver(s, to[s])
    /\ asleep' = asleep \ {to[s]}
    /\ pending' \in {pending, pending \ (Informed \cap {to[s]})}
    /\ UNCHANGED queue

Enqueue(s) ==
    /\ to[s] # NO_TASK
    /\ ~ Queued(s, to[s])
    /\ ~ Awaits(to[s], s)
    /\ queue' = [queue EXCEPT ![to[s]] = Append(@, s)]
    /\ Acyclic(queue')
    /\ UNCHANGED <<to, from, asleep, box, pending>>

(* The interrupt comes first, then the offers in their order. *)
Take(d) ==
    /\ d \notin asleep
    /\ ~ FindsInterrupt(d)
    /\ \E i \in DOMAIN queue[d] :
         /\ from[d] = queue[d][i] \/ (from[d] = ANY /\ i = 1)
         /\ HandOver(queue[d][i], d)
         /\ queue' = [queue EXCEPT ![d] = [j \in 1 .. Len(@) - 1 |->
                                            IF j < i THEN @[j] ELSE @[j + 1]]]
    /\ UNCHANGED <<asleep, pending>>

TakeInterrupt(d) ==
    /\ d \notin asleep
    /\ FindsInterrupt(d)
    /\ from' = [from EXCEPT ![d] = NO_TASK]
    /\ box' = [box EXCEPT ![d] = HardInt]
    /\ pending' = pending \ {d}
    /\ UNCHANGED <<to, asleep, queue>>

Sleep(d) ==
    /\ from[d] # NO_TASK
    /\ d \notin asleep
    /\ \A s \in Proc : Queued(s, d) => from[d] \notin {s, ANY}
    /\ asleep' = asleep \cup {d}
    /\ UNCHANGED <<to, from, box, queue, pending>>

Interrupt(t) ==
    IF t \in asleep /\ from[t] \in {INTERRUPT, ANY}
    THEN /\ from' = [from EXCEPT ![t] = NO_TASK]
         /\ asleep' = asleep \ {t}
         /\ box' = [box EXCEPT ![t] = HardInt]
         /\ pending' = pending \ {t}
         /\ UNCHANGED <<to, queue>>
    ELSE /\ pending' = pending \cup {t}
         /\ UNCHANGED <<to, from, asleep, box, queue>>

(* An interrupt took the place of the message that was being delivered. *)
Lose(s) ==
    /\ to[s] \in Informed \ asleep
    /\ box[to[s]] = HardInt
    /\ ~ Queued(s, to[s])
    /\ to' = [to EXCEPT ![s] = NO_TASK]
    /\ box' = [box EXCEPT ![s] = Empty]
    /\ UNCHANGED <<from, asleep, queue, pending>>

Next ==
    \/ \E s \in Proc : Offer(s) \/ Deliver(s) \/ Enqueue(s) \/ Lose(s)
    \/ \E d \in Proc : Ask(d) \/ Take(d) \/ TakeInterrupt(d) \/ Sleep(d)
    \/ \E t \in Informed : Interrupt(t)

Spec == Init /\ [][Next]_vars
=============================================================================
