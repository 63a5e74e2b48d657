----------------------------- MODULE ForkProofs -----------------------------
(***************************************************************************)
(* Proofs about Fork, for any number of entries of the process table, any  *)
(* size of the memory and any order of the calls.                          *)
(***************************************************************************)
EXTENDS Fork, SetFacts, TLAPS

-----------------------------------------------------------------------------
(* The inductive invariant *)

Live == Entry \ free

(* A process that made its call and has no answer. *)
Waiting(p) ==
    /\ p \in Live
    /\ at[p] = "sendrec"
    /\ \/ made[p].function = "SEND" /\ wait[p] = Run
       \/ made[p].function = "RECEIVE" /\ wait[p] = Receives(Server(made[p].call))
Forks(p) == Waiting(p) /\ made[p].call = "FORK"

WaitState == [op : {"run", "send", "receive"}, peer : Proc \cup {ANY, INTERRUPT}]
Label == {"receive", "do_fork", "phys_copy", "init_descriptor", "tell", "told", "wake", "reply",
          "failed", "serve"}

(* TypeOK, without the queues of senders, on which nothing here depends. *)
IpcTypes ==
    /\ wait \in [Proc -> WaitState]
    /\ mail \in [Proc -> Message]
    /\ has_int_msg = [p \in Proc |-> FALSE]
TableTypes ==
    /\ free \subseteq Children
    /\ base \in [Entry -> Entry]
    /\ p_parent \in [Entry -> Entry \cup {NO_TASK}]
    /\ at \in [Entry -> {"user", "sendrec"}]
    /\ frame \in [Entry -> Frame] /\ made \in [Entry -> Frame]
    /\ forked \in [Entry -> Children \cup {0, NoFork}]
    /\ src \in Entry /\ child_pid \in Entry
    /\ pc \in [Tasks -> Label]
Types == IpcTypes /\ TableTypes

(* What each process waits for at each statement, and what it sends.  A     *)
(* fork whose call is not yet received has made no child.                   *)
UsersWait ==
    /\ \A p \in free : wait[p] = Run
    /\ \A p \in Live :
         /\ at[p] = "user" => wait[p] = Run /\ forked[p] = NoFork
         /\ at[p] = "sendrec" =>
              \/ /\ made[p].function = "SEND"
                 /\ wait[p] \in {Run, Sends(Server(made[p].call))}
              \/ /\ made[p].function = "RECEIVE"
                 /\ wait[p] \in {Run, Receives(Server(made[p].call))}
         /\ \A d \in Proc : wait[p] = Sends(d) =>
              mail[p].source = p /\ mail[p].type = made[p].call /\ forked[p] = NoFork
MmWaits ==
    /\ pc[TASK_MM] = "receive" => wait[TASK_MM] = Run \/ wait[TASK_MM] = Sends(src)
    /\ pc[TASK_MM] = "do_fork" => wait[TASK_MM] \in {Run, Receives(ANY)}
    /\ pc[TASK_MM] \in {"phys_copy", "init_descriptor", "tell", "failed"} => wait[TASK_MM] = Run
    /\ pc[TASK_MM] = "told" => wait[TASK_MM] \in {Run, Sends(TASK_FS)}
    /\ pc[TASK_MM] = "wake" => wait[TASK_MM] \in {Run, Receives(TASK_FS)}
    /\ pc[TASK_MM] = "reply" => wait[TASK_MM] = Run \/ wait[TASK_MM] = Sends(child_pid)
    /\ pc[TASK_MM] # "serve"

(* The answer to a call of p. *)
AnswersFork(m, p) ==
    /\ m.type = "SYSCALL_RET" /\ m.source = TASK_MM
    /\ IF m.RETVAL = 0 THEN m.PID = forked[p] ELSE forked[p] = NoFork /\ free = {}
AnswersSys(m, p) ==
    /\ made[p].call = "GET_PID" => m.type = "SYSCALL_RET" /\ m.PID = p
    /\ made[p].call = "GET_TICKS" => m.type = "GET_TICKS" /\ m.source = TASK_SYS

(* task_mm works for the parent from the call to the answer, and for the    *)
(* child until it is woken.                                                 *)
MmOwes(p) ==
    \/ pc[TASK_MM] = "do_fork" /\ wait[TASK_MM] = Run /\ p = mail[TASK_MM].source
    \/ pc[TASK_MM] \notin {"receive", "do_fork"} /\ p = src
    \/ wait[TASK_MM] = Sends(p)
    \/ pc[TASK_MM] \in {"phys_copy", "init_descriptor", "tell", "told", "wake"} /\ p = child_pid
MmServes ==
    /\ pc[TASK_MM] = "do_fork" /\ wait[TASK_MM] = Run =>
         mail[TASK_MM].source \in Entry /\ forked[mail[TASK_MM].source] = NoFork
    /\ \A p \in Entry : MmOwes(p) => Forks(p)
    /\ pc[TASK_MM] \in {"phys_copy", "init_descriptor", "tell", "told", "wake", "reply"} =>
         child_pid \in Children /\ child_pid # src /\ forked[src] = child_pid
    /\ pc[TASK_MM] \in {"phys_copy", "init_descriptor", "tell", "told", "wake"} =>
         forked[child_pid] = 0
    /\ pc[TASK_MM] = "failed" => free = {} /\ forked[src] = NoFork
    /\ \A p \in Entry : wait[TASK_MM] = Sends(p) => AnswersFork(mail[TASK_MM], p)
    /\ wait[TASK_MM] = Sends(TASK_FS) => mail[TASK_MM].source = TASK_MM

(* task_fs works for task_mm alone, and only while that waits for it. *)
FsServes ==
    /\ pc[TASK_FS] = "receive" => wait[TASK_FS] = Run \/ wait[TASK_FS] = Sends(TASK_MM)
    /\ pc[TASK_FS] = "serve" => wait[TASK_FS] \in {Run, Receives(ANY)}
    /\ pc[TASK_FS] \in {"receive", "serve"}
    /\ pc[TASK_FS] = "serve" /\ wait[TASK_FS] = Run =>
         /\ mail[TASK_FS].source = TASK_MM
         /\ \/ pc[TASK_MM] = "told" /\ wait[TASK_MM] = Run
            \/ pc[TASK_MM] = "wake" /\ wait[TASK_MM] = Receives(TASK_FS)
    /\ wait[TASK_FS] = Sends(TASK_MM) => pc[TASK_MM] = "told" /\ wait[TASK_MM] = Run

(* task_sys answers the process whose call it has. *)
SysServes ==
    /\ pc[TASK_SYS] = "receive" => wait[TASK_SYS] = Run \/ \E p \in Live : wait[TASK_SYS] = Sends(p)
    /\ pc[TASK_SYS] = "serve" => wait[TASK_SYS] \in {Run, Receives(ANY)}
    /\ pc[TASK_SYS] \in {"receive", "serve"}
    /\ pc[TASK_SYS] = "serve" /\ wait[TASK_SYS] = Run =>
         \E p \in Live : /\ mail[TASK_SYS].source = p /\ mail[TASK_SYS].type = made[p].call
                         /\ Waiting(p) /\ made[p].call # "FORK"
    /\ \A p \in Live : wait[TASK_SYS] = Sends(p) =>
         Waiting(p) /\ made[p].call # "FORK" /\ AnswersSys(mail[TASK_SYS], p)

(* A process has its own region, but for the child between the copies of    *)
(* do_fork; what was copied to it is what the parent, which waits, has.     *)
Regions ==
    /\ \A p \in Live : ~ (Between /\ p = child_pid) => base[p] = p
    /\ Between => made[child_pid] = made[src]
    /\ pc[TASK_MM] = "init_descriptor" => frame[child_pid] = made[child_pid]

Answered ==
    \A p \in Live : wait[p] = Run /\ at[p] = "sendrec" /\ made[p].function = "RECEIVE" =>
        IF made[p].call = "FORK" THEN AnswersFork(mail[p], p) ELSE AnswersSys(mail[p], p)

Stacks ==
    \A p \in Live : at[p] = "sendrec" /\ ~ (Between /\ p = child_pid) => frame[base[p]] = made[p]

Protocol == /\ UsersWait /\ MmWaits /\ MmServes /\ FsServes /\ SysServes /\ Regions
            /\ Answered /\ Stacks

IInv == torn \/ (Types /\ Protocol)

-----------------------------------------------------------------------------
(* Messages and the states of waiting *)

(* The entries of the process table and the tasks, apart.                   *)
LEMMA Processes ==
    /\ TASK_MM \in Proc /\ TASK_FS \in Proc /\ TASK_SYS \in Proc
    /\ TASK_MM \in Tasks /\ TASK_FS \in Tasks /\ TASK_SYS \in Tasks
    /\ TASK_MM # TASK_FS /\ TASK_MM # TASK_SYS /\ TASK_FS # TASK_SYS
    /\ \A p \in Entry : p \in Proc /\ p # TASK_MM /\ p # TASK_FS /\ p # TASK_SYS
    /\ \A p \in Proc : p \in Entry \/ p = TASK_MM \/ p = TASK_FS \/ p = TASK_SYS
    /\ \A p \in Proc : p # ANY /\ p # INTERRUPT
<1>1. Entry \subseteq 0 .. INIT_PID + NR_CHILDREN
  BY ForkAssumption DEF Entry, Children
<1>2. \A p \in Entry : p \notin Tasks
  BY <1>1, ForkAssumption
<1> QED
  BY <1>2, ForkAssumption DEF Tasks

(* Their numbers.                                                           *)
LEMMA Numbers ==
    /\ Children \subseteq Entry /\ INIT_PID \in Entry /\ INIT_PID \notin Children
    /\ NO_TASK \notin Entry
    /\ \A p \in Entry : p \in Nat /\ p \in 0 .. INIT_PID + NR_CHILDREN
    /\ \A p \in Entry : p \in Children \/ p = INIT_PID
    /\ 0 \in 0 .. INIT_PID + NR_CHILDREN
BY ForkAssumption DEF Entry, Children, NO_TASK

(* What a process waits for is one of these, and they differ.               *)
LEMMA WaitValues ==
    /\ Run \in WaitState
    /\ \A p \in Proc : Sends(p) \in WaitState /\ Receives(p) \in WaitState
    /\ Receives(ANY) \in WaitState
    /\ \A p : Run # Sends(p) /\ Run # Receives(p)
    /\ \A p, q : Sends(p) # Receives(q)
    /\ \A p, q : Sends(p) = Sends(q) => p = q
    /\ \A p, q : Receives(p) = Receives(q) => p = q
<1>1. /\ Run \in WaitState
      /\ \A p \in Proc : Sends(p) \in WaitState /\ Receives(p) \in WaitState
      /\ Receives(ANY) \in WaitState
  BY DEF Run, Sends, Receives, WaitState
<1>2. /\ \A p : Run.op # Sends(p).op /\ Run.op # Receives(p).op
      /\ \A p, q : Sends(p).op # Receives(q).op
  BY DEF Run, Sends, Receives
<1>3. /\ \A p : Sends(p).peer = p
      /\ \A p : Receives(p).peer = p
  BY DEF Sends, Receives
<1>4. /\ \A p, q : Sends(p) = Sends(q) => p = q
      /\ \A p, q : Receives(p) = Receives(q) => p = q
  BY <1>3
<1>5. /\ \A p : Run # Sends(p) /\ Run # Receives(p)
      /\ \A p, q : Sends(p) # Receives(q)
  BY <1>2
<1> QED
  BY <1>1, <1>4, <1>5

(* fork is task_mm's, and the other calls are task_sys's.                   *)
LEMMA Servers ==
    /\ Server("FORK") = TASK_MM
    /\ \A c : c # "FORK" => Server(c) = TASK_SYS
BY DEF Server

(* What SEND does: the message goes to a receiver that waits for it, or the *)
(* sender is blocked.                                                       *)
Sent(s, d, st) ==
    /\ has_int_msg' = has_int_msg
    /\ \/ /\ wait[d] = Receives(s) \/ wait[d] = Receives(ANY)
          /\ mail' = [mail EXCEPT ![s] = NoMessage, ![d] = st]
          /\ wait' = [wait EXCEPT ![d] = Run]
       \/ /\ wait[d] # Receives(s) /\ wait[d] # Receives(ANY)
          /\ mail' = [mail EXCEPT ![s] = st]
          /\ wait' = [wait EXCEPT ![s] = Sends(d)]

(* SEND passes on the message with the name of its sender (kernel/proc.c    *)
(* msg_send): every other field is as the sender wrote it.                  *)
LEMMA SendEffect ==
    ASSUME NEW s \in Proc, NEW d \in Proc, NEW m \in Message, Send(s, d, m)
    PROVE  \E st \in Message :
              /\ st.type = m.type /\ st.source = s /\ st.PID = m.PID /\ st.RETVAL = m.RETVAL
              /\ Sent(s, d, st)
<1> DEFINE x == [m EXCEPT !.source = s]
<1>1. x \in Message /\ x.type = m.type /\ x.source = s /\ x.PID = m.PID /\ x.RETVAL = m.RETVAL
  BY DEF Message
<1>2. Sent(s, d, x)
  BY DEF Send, WaitsFor, Sent
<1> QED
  BY <1>1, <1>2

(* What RECEIVE from one process does.                                      *)
LEMMA ReceiveFrom ==
    ASSUME NEW p \in Proc, NEW s \in Proc, Receive(p, s, NoMessage)
    PROVE  /\ has_int_msg' = has_int_msg
           /\ \/ /\ wait[s] = Sends(p)
                 /\ mail' = [mail EXCEPT ![s] = NoMessage, ![p] = mail[s]]
                 /\ wait' = [wait EXCEPT ![s] = Run]
              \/ /\ wait[s] # Sends(p)
                 /\ wait' = [wait EXCEPT ![p] = Receives(s)]
                 /\ mail' = [mail EXCEPT ![p] = NoMessage]
<1>1. s # ANY /\ s # INTERRUPT
  BY Processes
<1>2. \A r \in Proc : Offers(r, p, s) <=> r = s /\ wait[r] = Sends(p)
  BY <1>1 DEF Offers
<1> QED
  BY <1>1, <1>2 DEF Receive

(* What RECEIVE from any process does, where no interrupts are waited for.  *)
LEMMA ReceiveAny ==
    ASSUME NEW p \in Proc, Receive(p, ANY, NoMessage), ~ has_int_msg[p]
    PROVE  /\ has_int_msg' = has_int_msg
           /\ \/ \E s \in Proc : /\ wait[s] = Sends(p)
                                 /\ mail' = [mail EXCEPT ![s] = NoMessage, ![p] = mail[s]]
                                 /\ wait' = [wait EXCEPT ![s] = Run]
              \/ /\ wait' = [wait EXCEPT ![p] = Receives(ANY)]
                 /\ mail' = [mail EXCEPT ![p] = NoMessage]
BY DEF Receive, Offers

-----------------------------------------------------------------------------
(* The steps of the processes *)

(* A step that leaves all that the invariant speaks of, as a panic does.    *)
LEMMA Kept ==
    ASSUME Types, Protocol, UNCHANGED <<wait, mail, has_int_msg, tableVars, taskVars>>
    PROVE  Types' /\ Protocol'
<1>0. UNCHANGED <<wait, mail, has_int_msg, free, base, p_parent, at, frame, made, forked, pc, src, child_pid>>
  BY DEF tableVars, taskVars
<1>1. Types'
  BY <1>0 DEF Types, IpcTypes, TableTypes
<1>2. Protocol'
  BY <1>0 DEF Protocol, UsersWait, MmWaits, MmServes, FsServes, SysServes, Regions, Answered, Stacks,
              Live, Waiting, Forks, MmOwes, AnswersFork, AnswersSys, Between
<1> QED
  BY <1>1, <1>2

(* A process pushes a call of sendrec on its own stack, and nobody else has *)
(* his there.                                                               *)
LEMMA OwnStack ==
    ASSUME Types, Protocol, NEW p \in Live, NEW f \in Frame, ~ Tears(p),
           frame' \in [Entry -> Frame], frame'[base[p]] = f,
           \A r \in Entry : r # base[p] => frame'[r] = frame[r],
           made' = [made EXCEPT ![p] = f],
           \A q \in Entry : q # p => at'[q] = at[q],
           UNCHANGED <<free, base, pc, src, child_pid>>
    PROVE  Regions' /\ Stacks'
<1> USE Processes, Numbers
<1>1. /\ base[p] = p /\ p \in Entry
      /\ \A q \in Live : q # p /\ ~ (Between /\ q = child_pid) => base[q] # p
  BY DEF Protocol, Regions, Tears, Live, Between
<1>2. Live' = Live /\ (Between' <=> Between)
  BY DEF Live, Between
<1>3. Regions'
  <2>1. Between => src # p /\ child_pid # p
    BY DEF Tears
  <2>2. \A q \in Entry : q # p => made'[q] = made[q]
    BY DEF Types, TableTypes
  <2>3. \A q \in Entry : q # p => frame'[q] = frame[q]
    BY <1>1
  <2>4. src \in Entry /\ child_pid \in Entry
    BY DEF Types, TableTypes
  <2>5. pc[TASK_MM] = "init_descriptor" => Between
    BY DEF Between
  <2> QED
    BY <1>2, <2>1, <2>2, <2>3, <2>4, <2>5 DEF Protocol, Regions
<1>4. Stacks'
  <2> SUFFICES ASSUME NEW q \in Live, at'[q] = "sendrec", ~ (Between /\ q = child_pid)
               PROVE  frame'[base[q]] = made'[q]
    BY <1>2 DEF Stacks
  <2>1. CASE q = p
    BY <1>1, <2>1 DEF Types, TableTypes
  <2>2. CASE q # p
    <3>1. at[q] = "sendrec" /\ base[q] # p /\ made'[q] = made[q] /\ base[q] \in Entry
      BY <1>1, <2>2 DEF Types, TableTypes, Live
    <3>2. frame[base[q]] = made[q]
      BY <3>1 DEF Protocol, Stacks
    <3> QED
      BY <1>1, <3>1, <3>2
  <2> QED
    BY <2>1, <2>2
<1> QED
  BY <1>3, <1>4

(* The first half of a call: the server has it, or it waits to be sent.     *)
LEMMA UserSendsStep ==
    ASSUME Types, Protocol, NEW p \in Entry, UserSends(p), ~ torn'
    PROVE  Types' /\ Protocol'
<1> USE Processes, Numbers, WaitValues, Servers
<1>0. p \in Live /\ wait[p] = Run /\ at[p] = "user"
  BY DEF UserSends, User, Running, Live
<1>1. CASE \E call \in Calls(p) : Halt("deadlock")
  BY <1>1, Kept DEF Halt, ipcVars
<1>2. CASE \E call \in Calls(p) :
             /\ Send(p, Server(call), [NoMessage EXCEPT !.type = call])
             /\ Pushes(p, call, "SEND")
             /\ at' = [at EXCEPT ![p] = "sendrec"]
             /\ torn' = (torn \/ Tears(p))
             /\ UNCHANGED <<free, base, p_parent, forked, taskVars, memory_size, halted>>
  <2>1. PICK call \in Call :
             /\ Send(p, Server(call), [NoMessage EXCEPT !.type = call])
             /\ Pushes(p, call, "SEND")
             /\ at' = [at EXCEPT ![p] = "sendrec"]
             /\ torn' = (torn \/ Tears(p))
             /\ UNCHANGED <<free, base, p_parent, forked, taskVars, memory_size, halted>>
    BY <1>2 DEF Calls
  <2>2. PICK d \in {TASK_MM, TASK_SYS} : d = Server(call)
    BY DEF Server
  <2>3. PICK m \in Message : m = [NoMessage EXCEPT !.type = call] /\ m.type = call
    <3>1. [NoMessage EXCEPT !.type = call] \in Message /\ [NoMessage EXCEPT !.type = call].type = call
      BY MessageAssumption DEF Message
    <3> QED
      BY <3>1
  <2>4. PICK st \in Message : st.type = call /\ st.source = p /\ Sent(p, d, st)
    <3>1. Send(p, d, m) /\ d \in Proc /\ p \in Proc
      BY <2>1, <2>2, <2>3
    <3>2. \E st \in Message : /\ st.type = m.type /\ st.source = p /\ st.PID = m.PID
                              /\ st.RETVAL = m.RETVAL /\ Sent(p, d, st)
      BY <3>1, SendEffect, Zenon
    <3> QED
      BY <2>3, <3>2
  <2>5. PICK f \in Frame : f = [call |-> call, function |-> "SEND"] /\ f.call = call /\ f.function = "SEND"
    <3>1. [call |-> call, function |-> "SEND"] \in Frame
      BY DEF Frame
    <3> QED
      BY <3>1
  <2>6. /\ frame' = [frame EXCEPT ![base[p]] = f] /\ made' = [made EXCEPT ![p] = f]
        /\ at' = [at EXCEPT ![p] = "sendrec"] /\ ~ Tears(p)
        /\ UNCHANGED <<free, base, p_parent, forked, pc, src, child_pid>>
    BY <2>1, <2>5 DEF Pushes, taskVars
  <2>7. TableTypes'
    BY <2>6 DEF Types, TableTypes
  <2>8. Regions' /\ Stacks'
    <3>1. frame' \in [Entry -> Frame] /\ frame'[base[p]] = f
          /\ \A r \in Entry : r # base[p] => frame'[r] = frame[r]
      BY <2>6 DEF Types, TableTypes
    <3>2. \A q \in Entry : q # p => at'[q] = at[q]
      BY <2>6 DEF Types, TableTypes
    <3> QED
      BY <1>0, <2>5, <2>6, <3>1, <3>2, OwnStack
  <2>9. /\ Live' = Live /\ at'[p] = "sendrec" /\ made'[p] = f
        /\ \A q \in Entry : q # p => made'[q] = made[q] /\ at'[q] = at[q]
    BY <2>6 DEF Types, TableTypes, Live
  <2>10. ~ Waiting(p)
    BY <1>0 DEF Waiting
  <2>11. CASE /\ has_int_msg' = has_int_msg
              /\ wait[d] = Receives(p) \/ wait[d] = Receives(ANY)
              /\ mail' = [mail EXCEPT ![p] = NoMessage, ![d] = st]
              /\ wait' = [wait EXCEPT ![d] = Run]
    <3>0. IpcTypes'
      BY <2>11, MessageAssumption DEF Types, IpcTypes
    <3>1. wait[d] = Receives(ANY) /\ pc[d] = IF d = TASK_MM THEN "do_fork" ELSE "serve"
      BY <1>0, <2>2, <2>11 DEF Protocol, MmWaits, SysServes, Types, TableTypes, Label, Live
    <3>2. /\ wait'[d] = Run /\ mail'[d] = st /\ wait'[p] = Run
          /\ \A q \in Proc : q # d => wait'[q] = wait[q]
          /\ \A q \in Proc : q # d /\ q # p => mail'[q] = mail[q]
      BY <1>0, <2>2, <2>11 DEF Types, IpcTypes
    <3>3. /\ \A q \in Live : q # p => (Waiting(q)' <=> Waiting(q))
          /\ Waiting(p)'
      BY <1>0, <2>2, <2>5, <2>9, <3>2 DEF Waiting, Live
    <3>4. UsersWait'
      BY <1>0, <2>2, <2>5, <2>6, <2>9, <3>2 DEF Protocol, UsersWait, Live, Types, TableTypes
    <3>5. MmWaits'
      BY <2>2, <2>6, <3>1, <3>2 DEF Protocol, MmWaits
    <3>6. FsServes'
      BY <1>0, <2>2, <2>6, <3>1, <3>2 DEF Protocol, FsServes, Live
    <3>7. MmServes'
      <4>1. CASE d = TASK_MM
        <5>1. /\ pc'[TASK_MM] = "do_fork" /\ wait'[TASK_MM] = Run
              /\ mail'[TASK_MM].source = p /\ call = "FORK"
          BY <2>2, <2>4, <2>6, <3>1, <3>2, <4>1
        <5>2. Forks(p)'
          BY <2>5, <2>9, <3>3, <5>1 DEF Forks
        <5>3. \A q \in Entry : MmOwes(q)' => q = p
          BY <5>1 DEF MmOwes
        <5>4. forked'[p] = NoFork
          BY <1>0, <2>6 DEF Protocol, UsersWait
        <5> QED
          BY <1>0, <5>1, <5>2, <5>3, <5>4 DEF MmServes
      <4>2. CASE d = TASK_SYS
        BY <1>0, <2>6, <2>9, <2>10, <3>2, <3>3, <4>2
           DEF Protocol, MmServes, MmOwes, Forks, AnswersFork, Live, Waiting
      <4> QED
        BY <2>2, <4>1, <4>2
    <3>8. SysServes'
      <4>1. CASE d = TASK_SYS
        <5>1. /\ pc'[TASK_SYS] = "serve" /\ wait'[TASK_SYS] = Run /\ p \in Live'
              /\ mail'[TASK_SYS].source = p /\ mail'[TASK_SYS].type = call /\ call # "FORK"
              /\ made'[p].call = call
          BY <1>0, <2>2, <2>4, <2>5, <2>6, <2>9, <3>1, <3>2, <4>1
        <5> QED
          BY <3>3, <5>1 DEF SysServes
      <4>2. CASE d = TASK_MM
        BY <1>0, <2>6, <2>9, <2>10, <3>2, <3>3, <4>2
           DEF Protocol, SysServes, AnswersSys, Live
      <4> QED
        BY <2>2, <4>1, <4>2
    <3>9. Answered'
      BY <1>0, <2>2, <2>5, <2>6, <2>9, <3>2 DEF Protocol, Answered, AnswersFork, AnswersSys, Live
    <3> QED
      BY <2>7, <2>8, <3>0, <3>4, <3>5, <3>6, <3>7, <3>8, <3>9 DEF Types, Protocol
  <2>12. CASE /\ has_int_msg' = has_int_msg
              /\ mail' = [mail EXCEPT ![p] = st]
              /\ wait' = [wait EXCEPT ![p] = Sends(d)]
    <3>0. IpcTypes'
      BY <2>2, <2>12 DEF Types, IpcTypes
    <3>2. /\ wait'[p] = Sends(d) /\ mail'[p] = st
          /\ \A q \in Proc : q # p => wait'[q] = wait[q] /\ mail'[q] = mail[q]
      BY <1>0, <2>12 DEF Types, IpcTypes
    <3>3. \A q \in Live : q # p => (Waiting(q)' <=> Waiting(q))
      BY <2>9, <3>2 DEF Waiting, Live
    <3>4. UsersWait'
      BY <1>0, <2>2, <2>4, <2>5, <2>6, <2>9, <3>2 DEF Protocol, UsersWait, Live, Types, TableTypes
    <3>5. MmWaits' /\ FsServes'
      BY <1>0, <2>6, <3>2 DEF Protocol, MmWaits, FsServes, Live
    <3>7. MmServes'
      BY <1>0, <2>6, <2>9, <2>10, <3>2, <3>3
           DEF Protocol, MmServes, MmOwes, Forks, AnswersFork, Live, Waiting
    <3>8. SysServes'
      BY <1>0, <2>6, <2>9, <2>10, <3>2, <3>3 DEF Protocol, SysServes, AnswersSys, Live
    <3>9. Answered'
      BY <1>0, <2>5, <2>6, <2>9, <3>2 DEF Protocol, Answered, AnswersFork, AnswersSys, Live
    <3> QED
      BY <2>7, <2>8, <3>0, <3>4, <3>5, <3>7, <3>8, <3>9 DEF Types, Protocol
  <2> QED
    BY <2>4, <2>11, <2>12 DEF Sent
<1> QED
  BY <1>1, <1>2 DEF UserSends

(* The second half of a call, where the stack in the memory of the process  *)
(* says that it made one: the server has the answer, or it is waited for.   *)
LEMMA UserReceivesStep ==
    ASSUME Types, Protocol, NEW p \in Entry, UserReceives(p), ~ torn'
    PROVE  Types' /\ Protocol'
<1> USE Processes, Numbers, WaitValues, Servers
<1>0. p \in Live /\ wait[p] = Run /\ at[p] = "sendrec" /\ ~ Tears(p)
  BY DEF UserReceives, User, Running, Live
<1>1. frame[base[p]] = made[p]
  BY <1>0 DEF Protocol, Stacks, Tears
<1>2. PICK call \in Call : made[p].call = call /\ made[p].function = "SEND"
  <2>1. made[p] \in Frame
    BY DEF Types, TableTypes
  <2>2. made[p].function = "SEND"
    BY <1>1 DEF UserReceives
  <2> QED
    BY <2>1, <2>2 DEF Frame, NoFrame, Call
<1>3. PICK d \in {TASK_MM, TASK_SYS} : d = Server(call)
  BY DEF Server
<1>4. PICK f \in Frame : f = [call |-> call, function |-> "RECEIVE"] /\ f.call = call /\ f.function = "RECEIVE"
  <2>1. [call |-> call, function |-> "RECEIVE"] \in Frame
    BY DEF Frame
  <2> QED
    BY <2>1
<1>5. /\ Receive(p, d, NoMessage)
      /\ frame' = [frame EXCEPT ![base[p]] = f] /\ made' = [made EXCEPT ![p] = f]
      /\ UNCHANGED <<free, base, p_parent, at, forked, pc, src, child_pid>>
  BY <1>1, <1>2, <1>3, <1>4 DEF UserReceives, Pushes, taskVars
<1>6. TableTypes'
  BY <1>5 DEF Types, TableTypes
<1>7. Regions' /\ Stacks'
  <2>1. frame' \in [Entry -> Frame] /\ frame'[base[p]] = f
        /\ \A r \in Entry : r # base[p] => frame'[r] = frame[r]
    BY <1>5 DEF Types, TableTypes
  <2> QED
    BY <1>0, <1>4, <1>5, <2>1, OwnStack
<1>8. /\ Live' = Live /\ made'[p] = f
      /\ \A q \in Entry : q # p => made'[q] = made[q]
  BY <1>5 DEF Types, TableTypes, Live
<1>9. CASE /\ has_int_msg' = has_int_msg /\ wait[d] = Sends(p)
           /\ mail' = [mail EXCEPT ![d] = NoMessage, ![p] = mail[d]]
           /\ wait' = [wait EXCEPT ![d] = Run]
  <2>0. IpcTypes'
    BY <1>9, MessageAssumption DEF Types, IpcTypes
  <2>1. pc[d] = IF d = TASK_SYS THEN "receive" ELSE pc[d]
    BY <1>0, <1>3, <1>9 DEF Protocol, SysServes, Types, TableTypes, Label
  <2>2. /\ wait'[d] = Run /\ wait'[p] = Run /\ mail'[p] = mail[d]
        /\ \A q \in Proc : q # d => wait'[q] = wait[q]
        /\ \A q \in Proc : q # d /\ q # p => mail'[q] = mail[q]
    BY <1>0, <1>3, <1>9 DEF Types, IpcTypes
  <2>3. \A q \in Live : q # p => (Waiting(q)' <=> Waiting(q))
    BY <1>3, <1>5, <1>8, <2>2 DEF Waiting, Live
  <2>4. UsersWait'
    BY <1>0, <1>3, <1>4, <1>5, <1>8, <2>2, SMTT(30) DEF Protocol, UsersWait, Live, Types, TableTypes
  <2>5. d = TASK_MM => \/ pc[TASK_MM] = "receive" /\ p = src
                       \/ pc[TASK_MM] = "reply" /\ p = child_pid
    BY <1>0, <1>9 DEF Protocol, MmWaits, Types, TableTypes, Label, Live
  <2>6. MmWaits'
    BY <1>3, <1>5, <2>2, <2>5 DEF Protocol, MmWaits
  <2>7. FsServes'
    BY <1>0, <1>3, <1>5, <2>2, <2>5 DEF Protocol, FsServes, Live
  <2>8. MmServes'
    <3>1. CASE d = TASK_MM
      <4>1. \A q \in Entry : MmOwes(q)' => MmOwes(q) /\ q # p
        BY <1>5, <1>9, <2>2, <2>5, <3>1 DEF MmOwes, Protocol, MmServes
      <4>2. \A q \in Entry : MmOwes(q)' => Forks(q)'
        BY <1>8, <2>3, <4>1 DEF Protocol, MmServes, Forks, Waiting
      <4> QED
        BY <1>5, <2>2, <2>5, <3>1, <4>2 DEF Protocol, MmServes
    <3>2. CASE d = TASK_SYS
      <4>1. \A q \in Entry : MmOwes(q)' <=> MmOwes(q)
        BY <1>0, <1>5, <2>2, <3>2 DEF MmOwes, Live
      <4>2. \A q \in Entry : MmOwes(q) => q # p
        BY <1>2, <1>3, <3>2 DEF Protocol, MmServes, Forks
      <4>3. \A q \in Entry : MmOwes(q)' => Forks(q)'
        BY <1>8, <2>3, <4>1, <4>2 DEF Protocol, MmServes, Forks, Waiting
      <4> QED
        BY <1>0, <1>5, <2>2, <3>2, <4>3 DEF Protocol, MmServes, AnswersFork, Live
    <3> QED
      BY <1>3, <3>1, <3>2
  <2>9. SysServes'
    <3>1. CASE d = TASK_SYS
      BY <1>5, <2>1, <2>2, <3>1 DEF Protocol, SysServes
    <3>2. CASE d = TASK_MM
      <4>1. made[p].call = "FORK"
        BY <1>2, <1>3, <3>2
      <4> QED
        BY <1>0, <1>5, <1>8, <2>2, <2>3, <3>2, <4>1 DEF Protocol, SysServes, AnswersSys, Live
    <3> QED
      BY <1>3, <3>1, <3>2
  <2>10. Answered'
    <3>1. IF call = "FORK" THEN AnswersFork(mail[d], p) ELSE AnswersSys(mail[d], p)
      BY <1>0, <1>2, <1>3, <1>9 DEF Protocol, MmServes, SysServes
    <3>2. IF call = "FORK" THEN AnswersFork(mail[p], p)' ELSE AnswersSys(mail[p], p)'
      BY <1>2, <1>4, <1>5, <1>8, <2>2, <3>1 DEF AnswersFork, AnswersSys
    <3> QED
      BY <1>0, <1>3, <1>4, <1>5, <1>8, <2>2, <3>2 DEF Protocol, Answered, AnswersFork, AnswersSys, Live
  <2> QED
    BY <1>6, <1>7, <2>0, <2>4, <2>6, <2>7, <2>8, <2>9, <2>10 DEF Types, Protocol
<1>10. CASE /\ has_int_msg' = has_int_msg /\ wait[d] # Sends(p)
            /\ wait' = [wait EXCEPT ![p] = Receives(d)]
            /\ mail' = [mail EXCEPT ![p] = NoMessage]
  <2>0. IpcTypes'
    BY <1>3, <1>10, MessageAssumption DEF Types, IpcTypes
  <2>2. /\ wait'[p] = Receives(d)
        /\ \A q \in Proc : q # p => wait'[q] = wait[q] /\ mail'[q] = mail[q]
    BY <1>0, <1>10 DEF Types, IpcTypes
  <2>3. \A q \in Live : Waiting(q)' <=> Waiting(q)
    BY <1>0, <1>2, <1>3, <1>4, <1>5, <1>8, <2>2 DEF Waiting, Live
  <2>3a. \A q \in Entry : made'[q].call = made[q].call
    BY <1>2, <1>4, <1>8
  <2>4. UsersWait'
    BY <1>0, <1>3, <1>4, <1>5, <1>8, <2>2 DEF Protocol, UsersWait, Live, Types, TableTypes
  <2>5. MmWaits' /\ FsServes'
    BY <1>0, <1>5, <2>2 DEF Protocol, MmWaits, FsServes, Live
  <2>8. MmServes'
    BY <1>0, <1>5, <1>8, <2>2, <2>3, <2>3a
         DEF Protocol, MmServes, MmOwes, Forks, AnswersFork, Live, Waiting
  <2>9. SysServes'
    BY <1>0, <1>5, <1>8, <2>2, <2>3, <2>3a DEF Protocol, SysServes, AnswersSys, Live
  <2>10. Answered'
    BY <1>0, <1>4, <1>5, <1>8, <2>2 DEF Protocol, Answered, AnswersFork, AnswersSys, Live
  <2> QED
    BY <1>6, <1>7, <2>0, <2>4, <2>5, <2>8, <2>9, <2>10 DEF Types, Protocol
<1> QED
  BY <1>0, <1>3, <1>5, <1>9, <1>10, ReceiveFrom

(* A call returns to the program.                                           *)
LEMMA UserReturnsStep ==
    ASSUME Types, Protocol, NEW p \in Entry, UserReturns(p), ~ torn'
    PROVE  Types' /\ Protocol'
<1> USE Processes, Numbers, WaitValues, Servers
<1>0. /\ p \in Live /\ wait[p] = Run /\ at[p] = "sendrec" /\ ~ Tears(p)
      /\ at' = [at EXCEPT ![p] = "user"]
      /\ mail' = [mail EXCEPT ![p] = NoMessage]
      /\ made' = [made EXCEPT ![p] = NoFrame]
      /\ frame' = frame \/ frame' = [frame EXCEPT ![base[p]] = NoFrame]
      /\ forked' = [forked EXCEPT ![p] = NoFork]
      /\ UNCHANGED <<wait, has_int_msg, free, base, p_parent, pc, src, child_pid>>
  BY DEF UserReturns, User, Running, Live, Pops, taskVars
<1>1. made[p].function = "RECEIVE"
  BY <1>0 DEF Protocol, Stacks, Tears, UserReturns
<1>2. TableTypes' /\ IpcTypes'
  BY <1>0, MessageAssumption DEF Types, TableTypes, IpcTypes, Frame
<1>3. /\ Live' = Live /\ at'[p] = "user" /\ forked'[p] = NoFork
      /\ \A q \in Entry : q # p => made'[q] = made[q] /\ at'[q] = at[q] /\ forked'[q] = forked[q]
      /\ \A q \in Proc : q # p => mail'[q] = mail[q]
  BY <1>0 DEF Types, TableTypes, IpcTypes, Live
<1>4. ~ Waiting(p) /\ \A q \in Live : q # p => (Waiting(q)' <=> Waiting(q))
  BY <1>0, <1>1, <1>3 DEF Waiting, Live
<1>5. UsersWait'
  BY <1>0, <1>3 DEF Protocol, UsersWait, Live, Types, TableTypes
<1>6. MmWaits' /\ FsServes'
  BY <1>0, <1>3 DEF Protocol, MmWaits, FsServes, Live
<1>7. MmServes'
  BY <1>0, <1>3, <1>4 DEF Protocol, MmServes, MmOwes, Forks, AnswersFork, Live, Waiting
<1>8. SysServes'
  BY <1>0, <1>3, <1>4 DEF Protocol, SysServes, AnswersSys, Live
<1>9. Answered'
  BY <1>0, <1>3 DEF Protocol, Answered, AnswersFork, AnswersSys, Live
<1>10. /\ base[p] = p /\ (Between' <=> Between)
       /\ \A q \in Live : q # p /\ ~ (Between /\ q = child_pid) => base[q] # p
  BY <1>0 DEF Protocol, Regions, Tears, Live, Between
<1>11. \A q \in Entry : q # p => frame'[q] = frame[q]
  BY <1>0, <1>10 DEF Types, TableTypes
<1>12. Regions'
  <2>1. Between => src # p /\ child_pid # p
    BY <1>0 DEF Tears
  <2>2. pc[TASK_MM] = "init_descriptor" => Between
    BY DEF Between
  <2>3. src \in Entry /\ child_pid \in Entry
    BY DEF Types, TableTypes
  <2> QED
    BY <1>0, <1>3, <1>10, <1>11, <2>1, <2>2, <2>3 DEF Protocol, Regions
<1>13. Stacks'
  <2> SUFFICES ASSUME NEW q \in Live, at'[q] = "sendrec", ~ (Between /\ q = child_pid)
               PROVE  frame'[base[q]] = made'[q]
    BY <1>0, <1>3, <1>10 DEF Stacks
  <2>1. q # p /\ at[q] = "sendrec" /\ base[q] # p /\ base[q] \in Entry
    BY <1>3, <1>10 DEF Types, TableTypes, Live
  <2>2. frame[base[q]] = made[q]
    BY <2>1 DEF Protocol, Stacks
  <2> QED
    BY <1>3, <1>11, <2>1, <2>2 DEF Live
<1> QED
  BY <1>2, <1>5, <1>6, <1>7, <1>8, <1>9, <1>12, <1>13 DEF Types, Protocol

-----------------------------------------------------------------------------
(* The steps of the tasks *)

(* Who sends to a task: processes with their calls to task_mm and task_sys, *)
(* and the two tasks that fork goes through to each other.                  *)
LEMMA Senders ==
    ASSUME Types, Protocol, NEW s \in Proc
    PROVE  /\ \A t \in {TASK_MM, TASK_SYS} :
                 wait[s] = Sends(t) /\ s \in Entry =>
                     /\ s \in Live /\ at[s] = "sendrec" /\ made[s].function = "SEND"
                     /\ mail[s].source = s /\ mail[s].type = made[s].call
                     /\ t = TASK_MM <=> made[s].call = "FORK"
           /\ wait[s] = Sends(TASK_MM) =>
                 s \in Entry \/ (s = TASK_FS /\ pc[TASK_MM] = "told")
           /\ wait[s] = Sends(TASK_FS) => s = TASK_MM /\ pc[TASK_MM] = "told"
           /\ wait[s] = Sends(TASK_SYS) => s \in Entry
<1> USE Processes, Numbers, WaitValues, Servers
<1>1. CASE s \in Entry
  <2>1. CASE s \in free
    BY <1>1, <2>1 DEF Protocol, UsersWait
  <2>2. CASE s \in Live
    <3>1. CASE at[s] = "user"
      BY <1>1, <2>2, <3>1 DEF Protocol, UsersWait
    <3>2. CASE at[s] = "sendrec"
      BY <1>1, <2>2, <3>2 DEF Protocol, UsersWait, Server
    <3> QED
      BY <1>1, <3>1, <3>2 DEF Types, TableTypes
  <2> QED
    BY <1>1, <2>1, <2>2 DEF Live
<1>2. CASE s = TASK_MM
  <2>1. pc[TASK_MM] \in Label /\ src \in Entry /\ child_pid \in Entry
    BY DEF Types, TableTypes
  <2> QED
    BY <1>2, <2>1 DEF Protocol, MmWaits, Label
<1>3. CASE s = TASK_FS
  BY <1>3 DEF Protocol, FsServes
<1>4. CASE s = TASK_SYS
  BY <1>4 DEF Protocol, SysServes, Live
<1> QED
  BY <1>1, <1>2, <1>3, <1>4

(* task_mm receives the call of a process, which waits for its answer then. *)
LEMMA MmReceivesStep ==
    ASSUME Types, Protocol, TaskReceives(TASK_MM)
    PROVE  Types' /\ Protocol'
<1> USE Processes, Numbers, WaitValues, Servers
<1>0. /\ wait[TASK_MM] = Run /\ pc[TASK_MM] = "receive" /\ ~ has_int_msg[TASK_MM]
      /\ Receive(TASK_MM, ANY, NoMessage)
      /\ pc' = [pc EXCEPT ![TASK_MM] = "do_fork"]
      /\ UNCHANGED <<free, base, p_parent, at, frame, made, forked, src, child_pid>>
  BY DEF TaskReceives, Running, tableVars, Types, IpcTypes
<1>1. TableTypes' /\ Live' = Live
  BY <1>0 DEF Types, TableTypes, Label, Live
<1>2. /\ pc'[TASK_MM] = "do_fork" /\ pc'[TASK_FS] = pc[TASK_FS] /\ pc'[TASK_SYS] = pc[TASK_SYS]
  BY <1>0 DEF Types, TableTypes
<1>3. ~ Between /\ ~ Between'
  BY <1>0, <1>2 DEF Between
<1>4. Regions' /\ Stacks'
  BY <1>0, <1>1, <1>2, <1>3 DEF Protocol, Regions, Stacks
<1>5. CASE /\ has_int_msg' = has_int_msg
           /\ \E s \in Proc : /\ wait[s] = Sends(TASK_MM)
                              /\ mail' = [mail EXCEPT ![s] = NoMessage, ![TASK_MM] = mail[s]]
                              /\ wait' = [wait EXCEPT ![s] = Run]
  <2>1. PICK s \in Proc : /\ wait[s] = Sends(TASK_MM)
                          /\ mail' = [mail EXCEPT ![s] = NoMessage, ![TASK_MM] = mail[s]]
                          /\ wait' = [wait EXCEPT ![s] = Run]
    BY <1>5
  <2>2. IpcTypes'
    BY <1>5, <2>1, MessageAssumption DEF Types, IpcTypes
  <2>3. s \in Entry /\ s \in Live /\ at[s] = "sendrec" /\ made[s].function = "SEND"
        /\ mail[s].source = s /\ made[s].call = "FORK" /\ forked[s] = NoFork
    <3>1. s \in Entry /\ s \in Live /\ at[s] = "sendrec" /\ made[s].function = "SEND"
          /\ mail[s].source = s /\ made[s].call = "FORK"
      BY <1>0, <2>1, Senders
    <3>2. forked[s] = NoFork
      BY <2>1, <3>1 DEF Protocol, UsersWait
    <3> QED
      BY <3>1, <3>2
  <2>4. /\ wait'[s] = Run /\ mail'[TASK_MM] = mail[s] /\ wait'[TASK_MM] = Run
        /\ \A q \in Proc : q # s => wait'[q] = wait[q]
        /\ \A q \in Proc : q # s /\ q # TASK_MM => mail'[q] = mail[q]
    BY <1>0, <2>1, <2>3 DEF Types, IpcTypes
  <2>5. ~ Waiting(s) /\ Waiting(s)' /\ \A q \in Live : q # s => (Waiting(q)' <=> Waiting(q))
    BY <1>0, <1>1, <2>1, <2>3, <2>4 DEF Waiting, Live
  <2>6. UsersWait'
    BY <1>0, <1>1, <2>3, <2>4 DEF Protocol, UsersWait, Live, Types, TableTypes
  <2>7. MmWaits'
    BY <1>2, <2>4 DEF MmWaits
  <2>8. FsServes'
    BY <1>0, <1>2, <2>3, <2>4 DEF Protocol, FsServes
  <2>9. SysServes'
    BY <1>0, <1>1, <1>2, <2>3, <2>4, <2>5 DEF Protocol, SysServes, AnswersSys, Live
  <2>10. MmServes'
    <3>1. \A q \in Entry : MmOwes(q)' => q = s
      BY <1>2, <2>3, <2>4 DEF MmOwes
    <3>2. Forks(s)'
      BY <1>0, <2>3, <2>5 DEF Forks
    <3> QED
      BY <1>0, <1>2, <2>3, <2>4, <3>1, <3>2 DEF MmServes
  <2>11. Answered'
    BY <1>0, <1>1, <2>3, <2>4 DEF Protocol, Answered, AnswersFork, AnswersSys, Live
  <2> QED
    BY <1>1, <1>4, <2>2, <2>6, <2>7, <2>8, <2>9, <2>10, <2>11 DEF Types, Protocol
<1>6. CASE /\ has_int_msg' = has_int_msg
           /\ wait' = [wait EXCEPT ![TASK_MM] = Receives(ANY)]
           /\ mail' = [mail EXCEPT ![TASK_MM] = NoMessage]
  <2>1. IpcTypes'
    BY <1>6, MessageAssumption DEF Types, IpcTypes
  <2>2. /\ wait'[TASK_MM] = Receives(ANY)
        /\ \A q \in Proc : q # TASK_MM => wait'[q] = wait[q] /\ mail'[q] = mail[q]
    BY <1>6 DEF Types, IpcTypes
  <2>3. \A q \in Live : Waiting(q)' <=> Waiting(q)
    BY <1>0, <1>1, <2>2 DEF Waiting, Live
  <2>4. UsersWait'
    BY <1>0, <1>1, <2>2 DEF Protocol, UsersWait, Live, Types, TableTypes
  <2>5. MmWaits' /\ FsServes'
    BY <1>0, <1>2, <2>2 DEF Protocol, MmWaits, FsServes
  <2>6. SysServes'
    BY <1>0, <1>1, <1>2, <2>2, <2>3 DEF Protocol, SysServes, AnswersSys, Live
  <2>7. MmServes'
    BY <1>2, <2>2 DEF MmServes, MmOwes
  <2>8. Answered'
    BY <1>0, <1>1, <2>2 DEF Protocol, Answered, AnswersFork, AnswersSys, Live
  <2> QED
    BY <1>1, <1>4, <2>1, <2>4, <2>5, <2>6, <2>7, <2>8 DEF Types, Protocol
<1> QED
  BY <1>0, <1>5, <1>6, ReceiveAny

(* task_fs receives from task_mm, which asks it about the child.            *)
LEMMA FsReceivesStep ==
    ASSUME Types, Protocol, TaskReceives(TASK_FS)
    PROVE  Types' /\ Protocol'
<1> USE Processes, Numbers, WaitValues, Servers
<1>0. /\ wait[TASK_FS] = Run /\ pc[TASK_FS] = "receive" /\ ~ has_int_msg[TASK_FS]
      /\ Receive(TASK_FS, ANY, NoMessage)
      /\ pc' = [pc EXCEPT ![TASK_FS] = "serve"]
      /\ UNCHANGED <<free, base, p_parent, at, frame, made, forked, src, child_pid>>
  BY DEF TaskReceives, Running, tableVars, Types, IpcTypes
<1>1. TableTypes' /\ Live' = Live
  BY <1>0 DEF Types, TableTypes, Label, Live
<1>2. /\ pc'[TASK_FS] = "serve" /\ pc'[TASK_MM] = pc[TASK_MM] /\ pc'[TASK_SYS] = pc[TASK_SYS]
  BY <1>0 DEF Types, TableTypes
<1>4. Regions' /\ Stacks'
  BY <1>0, <1>1, <1>2 DEF Protocol, Regions, Stacks, Between
<1>5. CASE /\ has_int_msg' = has_int_msg
           /\ \E s \in Proc : /\ wait[s] = Sends(TASK_FS)
                              /\ mail' = [mail EXCEPT ![s] = NoMessage, ![TASK_FS] = mail[s]]
                              /\ wait' = [wait EXCEPT ![s] = Run]
  <2>1. /\ wait[TASK_MM] = Sends(TASK_FS) /\ pc[TASK_MM] = "told"
        /\ mail' = [mail EXCEPT ![TASK_MM] = NoMessage, ![TASK_FS] = mail[TASK_MM]]
        /\ wait' = [wait EXCEPT ![TASK_MM] = Run]
    BY <1>5, Senders
  <2>2. IpcTypes'
    BY <1>5, <2>1, MessageAssumption DEF Types, IpcTypes
  <2>4. /\ wait'[TASK_MM] = Run /\ mail'[TASK_FS] = mail[TASK_MM] /\ wait'[TASK_FS] = Run
        /\ \A q \in Proc : q # TASK_MM => wait'[q] = wait[q]
        /\ \A q \in Proc : q # TASK_FS /\ q # TASK_MM => mail'[q] = mail[q]
    BY <1>0, <2>1 DEF Types, IpcTypes
  <2>5. \A q \in Live : Waiting(q)' <=> Waiting(q)
    BY <1>0, <1>1, <2>4 DEF Waiting, Live
  <2>6. UsersWait'
    BY <1>0, <1>1, <2>4 DEF Protocol, UsersWait, Live, Types, TableTypes
  <2>7. MmWaits'
    BY <1>2, <2>1, <2>4 DEF MmWaits
  <2>8. FsServes'
    BY <1>2, <2>1, <2>4 DEF Protocol, FsServes, MmServes
  <2>9. SysServes'
    BY <1>0, <1>1, <1>2, <2>4, <2>5 DEF Protocol, SysServes, AnswersSys, Live
  <2>10. MmServes'
    <3>1. \A q \in Entry : MmOwes(q)' => MmOwes(q)
      BY <1>0, <1>2, <2>1, <2>4 DEF MmOwes
    <3>2. \A q \in Entry : Forks(q) => Forks(q)'
      BY <1>0, <2>5 DEF Forks, Waiting
    <3> QED
      BY <1>0, <1>2, <2>1, <2>4, <3>1, <3>2 DEF Protocol, MmServes
  <2>11. Answered'
    BY <1>0, <1>1, <2>4 DEF Protocol, Answered, AnswersFork, AnswersSys, Live
  <2> QED
    BY <1>1, <1>4, <2>2, <2>6, <2>7, <2>8, <2>9, <2>10, <2>11 DEF Types, Protocol
<1>6. CASE /\ has_int_msg' = has_int_msg
           /\ wait' = [wait EXCEPT ![TASK_FS] = Receives(ANY)]
           /\ mail' = [mail EXCEPT ![TASK_FS] = NoMessage]
  <2>1. IpcTypes'
    BY <1>6, MessageAssumption DEF Types, IpcTypes
  <2>2. /\ wait'[TASK_FS] = Receives(ANY)
        /\ \A q \in Proc : q # TASK_FS => wait'[q] = wait[q] /\ mail'[q] = mail[q]
    BY <1>6 DEF Types, IpcTypes
  <2>3. \A q \in Live : Waiting(q)' <=> Waiting(q)
    BY <1>0, <1>1, <2>2 DEF Waiting, Live
  <2>4. UsersWait'
    BY <1>0, <1>1, <2>2 DEF Protocol, UsersWait, Live, Types, TableTypes
  <2>5. MmWaits' /\ FsServes'
    BY <1>0, <1>2, <2>2 DEF Protocol, MmWaits, FsServes
  <2>6. SysServes'
    BY <1>0, <1>1, <1>2, <2>2, <2>3 DEF Protocol, SysServes, AnswersSys, Live
  <2>7. MmServes'
    BY <1>0, <1>1, <1>2, <2>2, <2>3 DEF Protocol, MmServes, MmOwes, Forks, Waiting, AnswersFork
  <2>8. Answered'
    BY <1>0, <1>1, <2>2 DEF Protocol, Answered, AnswersFork, AnswersSys, Live
  <2> QED
    BY <1>1, <1>4, <2>1, <2>4, <2>5, <2>6, <2>7, <2>8 DEF Types, Protocol
<1> QED
  BY <1>0, <1>5, <1>6, ReceiveAny

(* task_sys receives the call of a process, which waits for its answer.     *)
LEMMA SysReceivesStep ==
    ASSUME Types, Protocol, TaskReceives(TASK_SYS)
    PROVE  Types' /\ Protocol'
<1> USE Processes, Numbers, WaitValues, Servers
<1>0. /\ wait[TASK_SYS] = Run /\ pc[TASK_SYS] = "receive" /\ ~ has_int_msg[TASK_SYS]
      /\ Receive(TASK_SYS, ANY, NoMessage)
      /\ pc' = [pc EXCEPT ![TASK_SYS] = "serve"]
      /\ UNCHANGED <<free, base, p_parent, at, frame, made, forked, src, child_pid>>
  BY DEF TaskReceives, Running, tableVars, Types, IpcTypes
<1>1. TableTypes' /\ Live' = Live
  BY <1>0 DEF Types, TableTypes, Label, Live
<1>2. /\ pc'[TASK_SYS] = "serve" /\ pc'[TASK_MM] = pc[TASK_MM] /\ pc'[TASK_FS] = pc[TASK_FS]
  BY <1>0 DEF Types, TableTypes
<1>4. Regions' /\ Stacks'
  BY <1>0, <1>1, <1>2 DEF Protocol, Regions, Stacks, Between
<1>5. CASE /\ has_int_msg' = has_int_msg
           /\ \E s \in Proc : /\ wait[s] = Sends(TASK_SYS)
                              /\ mail' = [mail EXCEPT ![s] = NoMessage, ![TASK_SYS] = mail[s]]
                              /\ wait' = [wait EXCEPT ![s] = Run]
  <2>1. PICK s \in Proc : /\ wait[s] = Sends(TASK_SYS)
                          /\ mail' = [mail EXCEPT ![s] = NoMessage, ![TASK_SYS] = mail[s]]
                          /\ wait' = [wait EXCEPT ![s] = Run]
    BY <1>5
  <2>2. IpcTypes'
    BY <1>5, <2>1, MessageAssumption DEF Types, IpcTypes
  <2>3. s \in Entry /\ s \in Live /\ at[s] = "sendrec" /\ made[s].function = "SEND"
        /\ mail[s].source = s /\ mail[s].type = made[s].call /\ made[s].call # "FORK"
    BY <2>1, Senders
  <2>4. /\ wait'[s] = Run /\ mail'[TASK_SYS] = mail[s] /\ wait'[TASK_SYS] = Run
        /\ \A q \in Proc : q # s => wait'[q] = wait[q]
        /\ \A q \in Proc : q # s /\ q # TASK_SYS => mail'[q] = mail[q]
    BY <1>0, <2>1, <2>3 DEF Types, IpcTypes
  <2>5. ~ Waiting(s) /\ Waiting(s)' /\ \A q \in Live : q # s => (Waiting(q)' <=> Waiting(q))
    BY <1>0, <1>1, <2>1, <2>3, <2>4 DEF Waiting, Live
  <2>6. UsersWait'
    BY <1>0, <1>1, <2>3, <2>4 DEF Protocol, UsersWait, Live, Types, TableTypes
  <2>7. MmWaits'
    BY <1>0, <1>2, <2>3, <2>4 DEF Protocol, MmWaits
  <2>8. FsServes'
    BY <1>0, <1>2, <2>3, <2>4 DEF Protocol, FsServes
  <2>9. SysServes'
    BY <1>0, <1>1, <1>2, <2>3, <2>4, <2>5 DEF SysServes
  <2>10. MmServes'
    <3>1. \A q \in Entry : MmOwes(q)' => MmOwes(q)
      BY <1>0, <1>2, <2>3, <2>4 DEF MmOwes
    <3>2. \A q \in Entry : Forks(q) => Forks(q)'
      BY <1>0, <2>5 DEF Forks, Waiting
    <3> QED
      BY <1>0, <1>2, <2>3, <2>4, <3>1, <3>2 DEF Protocol, MmServes, AnswersFork
  <2>11. Answered'
    BY <1>0, <1>1, <2>3, <2>4 DEF Protocol, Answered, AnswersFork, AnswersSys, Live
  <2> QED
    BY <1>1, <1>4, <2>2, <2>6, <2>7, <2>8, <2>9, <2>10, <2>11 DEF Types, Protocol
<1>6. CASE /\ has_int_msg' = has_int_msg
           /\ wait' = [wait EXCEPT ![TASK_SYS] = Receives(ANY)]
           /\ mail' = [mail EXCEPT ![TASK_SYS] = NoMessage]
  <2>1. IpcTypes'
    BY <1>6, MessageAssumption DEF Types, IpcTypes
  <2>2. /\ wait'[TASK_SYS] = Receives(ANY)
        /\ \A q \in Proc : q # TASK_SYS => wait'[q] = wait[q] /\ mail'[q] = mail[q]
    BY <1>6 DEF Types, IpcTypes
  <2>3. \A q \in Live : Waiting(q)' <=> Waiting(q)
    BY <1>0, <1>1, <2>2 DEF Waiting, Live
  <2>4. UsersWait'
    BY <1>0, <1>1, <2>2 DEF Protocol, UsersWait, Live, Types, TableTypes
  <2>5. MmWaits' /\ FsServes'
    BY <1>0, <1>2, <2>2 DEF Protocol, MmWaits, FsServes
  <2>6. SysServes'
    BY <1>2, <2>2 DEF SysServes
  <2>7. MmServes'
    BY <1>0, <1>1, <1>2, <2>2, <2>3 DEF Protocol, MmServes, MmOwes, Forks, Waiting, AnswersFork
  <2>8. Answered'
    BY <1>0, <1>1, <2>2 DEF Protocol, Answered, AnswersFork, AnswersSys, Live
  <2> QED
    BY <1>1, <1>4, <2>1, <2>4, <2>5, <2>6, <2>7, <2>8 DEF Types, Protocol
<1> QED
  BY <1>0, <1>5, <1>6, ReceiveAny

(* task_fs answers task_mm.                                                 *)
LEMMA FsServesStep ==
    ASSUME Types, Protocol, TaskServes(TASK_FS)
    PROVE  Types' /\ Protocol'
<1> USE Processes, Numbers, WaitValues, Servers
<1>0. wait[TASK_FS] = Run /\ pc[TASK_FS] = "serve"
  BY DEF TaskServes, TaskSends, Running
<1>1. /\ mail[TASK_FS].source = TASK_MM
      /\ \/ pc[TASK_MM] = "told" /\ wait[TASK_MM] = Run
         \/ pc[TASK_MM] = "wake" /\ wait[TASK_MM] = Receives(TASK_FS)
  BY <1>0 DEF Protocol, FsServes
<1>2. CASE Halt("deadlock")
  BY <1>2, Kept DEF Halt, ipcVars
<1>3. CASE /\ Send(TASK_FS, TASK_MM, Answer(TASK_FS))
           /\ pc' = [pc EXCEPT ![TASK_FS] = "receive"]
           /\ UNCHANGED <<free, base, p_parent, at, frame, made, forked, src, child_pid>>
  <2>1. Answer(TASK_FS) \in Message
    <3>1. mail[TASK_FS] \in Message
      BY DEF Types, IpcTypes
    <3>2. Answer(TASK_FS) = [mail[TASK_FS] EXCEPT !.type = "SYSCALL_RET"]
      BY DEF Answer
    <3> QED
      BY <3>1, <3>2 DEF Message
  <2>2. PICK st \in Message : Sent(TASK_FS, TASK_MM, st)
    BY <1>3, <2>1, SendEffect
  <2>3. TableTypes' /\ Live' = Live
    BY <1>3 DEF Types, TableTypes, Label, Live
  <2>4. /\ pc'[TASK_FS] = "receive" /\ pc'[TASK_MM] = pc[TASK_MM] /\ pc'[TASK_SYS] = pc[TASK_SYS]
    BY <1>3 DEF Types, TableTypes
  <2>5. Regions' /\ Stacks'
    BY <1>3, <2>3, <2>4 DEF Protocol, Regions, Stacks, Between
  <2>6. IpcTypes'
    BY <2>2, MessageAssumption DEF Sent, Types, IpcTypes
  <2>7. /\ \A q \in Proc : q # TASK_FS /\ q # TASK_MM => wait'[q] = wait[q] /\ mail'[q] = mail[q]
        /\ \/ wait[TASK_MM] = Receives(TASK_FS) /\ wait'[TASK_MM] = Run /\ wait'[TASK_FS] = Run
           \/ /\ wait[TASK_MM] = Run /\ wait'[TASK_MM] = Run /\ wait'[TASK_FS] = Sends(TASK_MM)
              /\ mail'[TASK_MM] = mail[TASK_MM]
    BY <1>0, <1>1, <2>2 DEF Sent, Types, IpcTypes
  <2>8. \A q \in Live : Waiting(q)' <=> Waiting(q)
    BY <1>3, <2>3, <2>7 DEF Waiting, Live
  <2>9. UsersWait'
    BY <1>3, <2>3, <2>7 DEF Protocol, UsersWait, Live, Types, TableTypes
  <2>10. MmWaits' /\ FsServes'
    BY <1>0, <1>1, <2>4, <2>7 DEF Protocol, MmWaits, FsServes
  <2>11. SysServes'
    BY <1>3, <2>3, <2>4, <2>7, <2>8 DEF Protocol, SysServes, AnswersSys, Live
  <2>12. MmServes'
    <3>1. \A q \in Entry : MmOwes(q)' => MmOwes(q)
      BY <1>1, <1>3, <2>4, <2>7 DEF MmOwes
    <3>2. \A q \in Entry : Forks(q) => Forks(q)'
      BY <1>3, <2>8 DEF Forks, Waiting
    <3> QED
      BY <1>1, <1>3, <2>4, <2>7, <3>1, <3>2 DEF Protocol, MmServes
  <2>13. Answered'
    BY <1>3, <2>3, <2>7 DEF Protocol, Answered, AnswersFork, AnswersSys, Live
  <2> QED
    BY <2>3, <2>5, <2>6, <2>9, <2>10, <2>11, <2>12, <2>13 DEF Types, Protocol
<1> QED
  BY <1>1, <1>2, <1>3 DEF TaskServes, TaskSends, tableVars

(* task_sys answers a process that waits for it.                            *)
LEMMA SysServesStep ==
    ASSUME Types, Protocol, TaskServes(TASK_SYS)
    PROVE  Types' /\ Protocol'
<1> USE Processes, Numbers, WaitValues, Servers
<1>0. wait[TASK_SYS] = Run /\ pc[TASK_SYS] = "serve"
  BY DEF TaskServes, TaskSends, Running
<1>1. PICK p \in Live : /\ mail[TASK_SYS].source = p /\ mail[TASK_SYS].type = made[p].call
                        /\ Waiting(p) /\ made[p].call # "FORK"
  BY <1>0 DEF Protocol, SysServes
<1>1a. p \in Entry
  BY DEF Live
<1>2. CASE Halt("deadlock")
  BY <1>2, Kept DEF Halt, ipcVars
<1>3. CASE /\ Send(TASK_SYS, p, Answer(TASK_SYS))
           /\ pc' = [pc EXCEPT ![TASK_SYS] = "receive"]
           /\ UNCHANGED <<free, base, p_parent, at, frame, made, forked, src, child_pid>>
  <2>1. PICK a \in Message : /\ a = Answer(TASK_SYS)
                             /\ made[p].call = "GET_PID" => a.type = "SYSCALL_RET" /\ a.PID = p
                             /\ made[p].call # "GET_PID" => a.type = made[p].call
    <3>1. mail[TASK_SYS] \in Message
      BY DEF Types, IpcTypes
    <3>2. CASE made[p].call = "GET_PID"
      <4>1. Answer(TASK_SYS) = [mail[TASK_SYS] EXCEPT !.type = "SYSCALL_RET", !.PID = p]
        BY <1>1, <3>2 DEF Answer
      <4>2. /\ Answer(TASK_SYS) \in Message
            /\ Answer(TASK_SYS).type = "SYSCALL_RET" /\ Answer(TASK_SYS).PID = p
        BY <1>1a, <3>1, <4>1 DEF Message
      <4> QED
        BY <3>2, <4>2
    <3>3. CASE made[p].call # "GET_PID"
      <4>1. Answer(TASK_SYS) = mail[TASK_SYS]
        BY <1>1, <3>3 DEF Answer
      <4> QED
        BY <1>1, <3>1, <3>3, <4>1
    <3> QED
      BY <3>2, <3>3
  <2>2. PICK st \in Message : /\ st.type = a.type /\ st.source = TASK_SYS /\ st.PID = a.PID
                              /\ Sent(TASK_SYS, p, st)
    <3>1. Send(TASK_SYS, p, a) /\ p \in Proc
      BY <1>1a, <1>3, <2>1
    <3> QED
      BY <3>1, SendEffect
  <2>3. TableTypes' /\ Live' = Live
    BY <1>3 DEF Types, TableTypes, Label, Live
  <2>4. /\ pc'[TASK_SYS] = "receive" /\ pc'[TASK_MM] = pc[TASK_MM] /\ pc'[TASK_FS] = pc[TASK_FS]
    BY <1>3 DEF Types, TableTypes
  <2>5. Regions' /\ Stacks'
    BY <1>3, <2>3, <2>4 DEF Protocol, Regions, Stacks, Between
  <2>6. IpcTypes'
    BY <1>1a, <2>2, MessageAssumption DEF Sent, Types, IpcTypes
  <2>7. AnswersSys(st, p)
    BY <2>1, <2>2 DEF AnswersSys
  <2>8. /\ \A q \in Proc : q # TASK_SYS /\ q # p => wait'[q] = wait[q] /\ mail'[q] = mail[q]
        /\ \/ /\ wait[p] = Receives(TASK_SYS) /\ wait'[p] = Run /\ mail'[p] = st
              /\ wait'[TASK_SYS] = Run
           \/ /\ wait[p] = Run /\ wait'[p] = Run /\ mail'[p] = mail[p]
              /\ wait'[TASK_SYS] = Sends(p) /\ mail'[TASK_SYS] = st
    BY <1>0, <1>1, <1>1a, <2>2 DEF Sent, Types, IpcTypes, Waiting
  <2>9. \A q \in Live : q # p => (Waiting(q)' <=> Waiting(q))
    BY <1>3, <2>3, <2>8 DEF Waiting, Live
  <2>10. UsersWait'
    BY <1>1, <1>1a, <1>3, <2>3, <2>8 DEF Protocol, UsersWait, Live, Types, TableTypes, Waiting
  <2>11. MmWaits' /\ FsServes'
    BY <1>1a, <1>3, <2>4, <2>8 DEF Protocol, MmWaits, FsServes
  <2>12. SysServes'
    <3>1. wait'[TASK_SYS] = Sends(p) => Waiting(p)'
      BY <1>1, <1>3, <2>3, <2>8 DEF Waiting
    <3>2. \A q \in Live : wait'[TASK_SYS] = Sends(q) => q = p /\ mail'[TASK_SYS] = st
      BY <2>8
    <3>3. AnswersSys(st, p)'  <=> AnswersSys(st, p)
      BY <1>3 DEF AnswersSys
    <3> QED
      BY <1>1, <1>3, <2>3, <2>4, <2>7, <2>8, <3>1, <3>2, <3>3 DEF SysServes, AnswersSys
  <2>13. MmServes'
    <3>1. \A q \in Entry : MmOwes(q)' => MmOwes(q)
      BY <1>1a, <1>3, <2>4, <2>8 DEF MmOwes
    <3>2. \A q \in Entry : q # p /\ Forks(q) => Forks(q)'
      BY <1>3, <2>9 DEF Forks, Waiting
    <3>3. ~ Forks(p)
      BY <1>1 DEF Forks
    <3>4. \A q \in Entry : MmOwes(q)' => Forks(q)'
      BY <3>1, <3>2, <3>3 DEF Protocol, MmServes
    <3> QED
      BY <1>1a, <1>3, <2>4, <2>8, <3>4 DEF Protocol, MmServes, AnswersFork
  <2>14. Answered'
    BY <1>1, <1>1a, <1>3, <2>3, <2>7, <2>8 DEF Protocol, Answered, AnswersFork, AnswersSys, Live, Waiting
  <2> QED
    BY <2>3, <2>5, <2>6, <2>10, <2>11, <2>12, <2>13, <2>14 DEF Types, Protocol
<1> QED
  BY <1>1, <1>2, <1>3 DEF TaskServes, TaskSends, tableVars

(* task_mm asks task_fs about the child.                                    *)
LEMMA TellFsStep ==
    ASSUME Types, Protocol, TellFs
    PROVE  Types' /\ Protocol'
<1> USE Processes, Numbers, WaitValues, Servers
<1>0. wait[TASK_MM] = Run /\ pc[TASK_MM] = "tell"
  BY DEF TellFs, TaskSends, Running
<1>1. \/ wait[TASK_FS] = Receives(ANY) /\ pc[TASK_FS] = "serve"
      \/ wait[TASK_FS] = Run /\ pc[TASK_FS] = "receive"
  BY <1>0 DEF Protocol, FsServes
<1>2. CASE Halt("deadlock")
  BY <1>2, Kept DEF Halt, ipcVars
<1>3. CASE /\ Send(TASK_MM, TASK_FS, [NoMessage EXCEPT !.type = "FORK", !.PID = child_pid])
           /\ pc' = [pc EXCEPT ![TASK_MM] = "told"]
           /\ UNCHANGED <<free, base, p_parent, at, frame, made, forked, src, child_pid>>
  <2>1. PICK m \in Message : m = [NoMessage EXCEPT !.type = "FORK", !.PID = child_pid]
    <3>1. child_pid \in 0 .. INIT_PID + NR_CHILDREN
      BY DEF Types, TableTypes
    <3>2. [NoMessage EXCEPT !.type = "FORK", !.PID = child_pid] \in Message
      BY <3>1, MessageAssumption DEF Message, Call
    <3> QED
      BY <3>2
  <2>2. PICK st \in Message : st.source = TASK_MM /\ Sent(TASK_MM, TASK_FS, st)
    BY <1>3, <2>1, SendEffect
  <2>3. TableTypes' /\ Live' = Live
    BY <1>3 DEF Types, TableTypes, Label, Live
  <2>4. /\ pc'[TASK_MM] = "told" /\ pc'[TASK_FS] = pc[TASK_FS] /\ pc'[TASK_SYS] = pc[TASK_SYS]
    BY <1>3 DEF Types, TableTypes
  <2>5. Regions' /\ Stacks'
    BY <1>0, <1>3, <2>3, <2>4 DEF Protocol, Regions, Stacks, Between
  <2>6. IpcTypes'
    BY <2>2, MessageAssumption DEF Sent, Types, IpcTypes
  <2>7. /\ \A q \in Proc : q # TASK_FS /\ q # TASK_MM => wait'[q] = wait[q] /\ mail'[q] = mail[q]
        /\ \/ /\ pc[TASK_FS] = "serve" /\ wait'[TASK_MM] = Run /\ wait'[TASK_FS] = Run
              /\ mail'[TASK_FS] = st
           \/ /\ pc[TASK_FS] = "receive" /\ wait'[TASK_FS] = Run /\ wait'[TASK_MM] = Sends(TASK_FS)
              /\ mail'[TASK_MM] = st
    BY <1>0, <1>1, <2>2 DEF Sent, Types, IpcTypes
  <2>8. \A q \in Live : Waiting(q)' <=> Waiting(q)
    BY <1>3, <2>3, <2>7 DEF Waiting, Live
  <2>9. UsersWait'
    BY <1>3, <2>3, <2>7 DEF Protocol, UsersWait, Live, Types, TableTypes
  <2>10. MmWaits' /\ FsServes'
    BY <2>2, <2>4, <2>7 DEF Protocol, MmWaits, FsServes
  <2>11. SysServes'
    BY <1>3, <2>3, <2>4, <2>7, <2>8 DEF Protocol, SysServes, AnswersSys, Live
  <2>12. MmServes'
    <3>1. \A q \in Entry : MmOwes(q)' => MmOwes(q)
      BY <1>0, <1>3, <2>4, <2>7 DEF MmOwes
    <3>2. \A q \in Entry : Forks(q) => Forks(q)'
      BY <1>3, <2>8 DEF Forks, Waiting
    <3> QED
      BY <1>0, <1>3, <2>2, <2>4, <2>7, <3>1, <3>2 DEF Protocol, MmServes
  <2>13. Answered'
    BY <1>3, <2>3, <2>7 DEF Protocol, Answered, AnswersFork, AnswersSys, Live
  <2> QED
    BY <2>3, <2>5, <2>6, <2>9, <2>10, <2>11, <2>12, <2>13 DEF Types, Protocol
<1> QED
  BY <1>2, <1>3 DEF TellFs, TaskSends, tableVars

(* task_mm takes the answer of task_fs, or waits for it.                    *)
LEMMA FsToldStep ==
    ASSUME Types, Protocol, FsTold
    PROVE  Types' /\ Protocol'
<1> USE Processes, Numbers, WaitValues, Servers
<1>0. /\ wait[TASK_MM] = Run /\ pc[TASK_MM] = "told"
      /\ Receive(TASK_MM, TASK_FS, NoMessage)
      /\ pc' = [pc EXCEPT ![TASK_MM] = "wake"]
      /\ UNCHANGED <<free, base, p_parent, at, frame, made, forked, src, child_pid>>
  BY DEF FsTold, Running, tableVars
<1>1. TableTypes' /\ Live' = Live
  BY <1>0 DEF Types, TableTypes, Label, Live
<1>2. /\ pc'[TASK_MM] = "wake" /\ pc'[TASK_FS] = pc[TASK_FS] /\ pc'[TASK_SYS] = pc[TASK_SYS]
  BY <1>0 DEF Types, TableTypes
<1>3. Regions' /\ Stacks'
  BY <1>0, <1>1, <1>2 DEF Protocol, Regions, Stacks, Between
<1>4. /\ has_int_msg' = has_int_msg
      /\ \/ /\ wait[TASK_FS] = Sends(TASK_MM)
            /\ mail' = [mail EXCEPT ![TASK_FS] = NoMessage, ![TASK_MM] = mail[TASK_FS]]
            /\ wait' = [wait EXCEPT ![TASK_FS] = Run]
         \/ /\ wait[TASK_FS] # Sends(TASK_MM)
            /\ wait' = [wait EXCEPT ![TASK_MM] = Receives(TASK_FS)]
            /\ mail' = [mail EXCEPT ![TASK_MM] = NoMessage]
  BY <1>0, ReceiveFrom
<1>5. IpcTypes'
  BY <1>4, MessageAssumption DEF Types, IpcTypes
<1>6. /\ \A q \in Proc : q # TASK_FS /\ q # TASK_MM => wait'[q] = wait[q] /\ mail'[q] = mail[q]
      /\ \/ wait[TASK_FS] = Sends(TASK_MM) /\ wait'[TASK_MM] = Run /\ wait'[TASK_FS] = Run
         \/ /\ wait[TASK_FS] # Sends(TASK_MM) /\ wait'[TASK_FS] = wait[TASK_FS]
            /\ wait'[TASK_MM] = Receives(TASK_FS) /\ mail'[TASK_FS] = mail[TASK_FS]
  BY <1>0, <1>4 DEF Types, IpcTypes
<1>7. \A q \in Live : Waiting(q)' <=> Waiting(q)
  BY <1>0, <1>1, <1>6 DEF Waiting, Live
<1>8. UsersWait'
  BY <1>0, <1>1, <1>6 DEF Protocol, UsersWait, Live, Types, TableTypes
<1>9. MmWaits'
  BY <1>2, <1>6 DEF MmWaits
<1>10. FsServes'
  BY <1>0, <1>2, <1>6 DEF Protocol, FsServes
<1>11. SysServes'
  BY <1>0, <1>1, <1>2, <1>6, <1>7 DEF Protocol, SysServes, AnswersSys, Live
<1>12. MmServes'
  <2>1. \A q \in Entry : MmOwes(q)' => MmOwes(q)
    BY <1>0, <1>2, <1>6 DEF MmOwes
  <2>2. \A q \in Entry : Forks(q) => Forks(q)'
    BY <1>0, <1>7 DEF Forks, Waiting
  <2> QED
    BY <1>0, <1>2, <1>6, <2>1, <2>2 DEF Protocol, MmServes
<1>13. Answered'
  BY <1>0, <1>1, <1>6 DEF Protocol, Answered, AnswersFork, AnswersSys, Live
<1> QED
  BY <1>1, <1>3, <1>5, <1>8, <1>9, <1>10, <1>11, <1>12, <1>13 DEF Types, Protocol

(* task_mm answers p, the child or the parent, which waits for it.          *)
LEMMA AnswerStep ==
    ASSUME Types, Protocol, NEW p \in Entry, NEW m \in Message, NEW next \in Label,
           Forks(p), TaskSends(TASK_MM, p, m, next),
           m.type = "SYSCALL_RET",
           IF m.RETVAL = 0 THEN m.PID = forked[p] ELSE forked[p] = NoFork /\ free = {},
           \/ next = "reply" /\ p = child_pid /\ pc[TASK_MM] = "wake"
           \/ next = "receive" /\ p = src /\ pc[TASK_MM] \in {"reply", "failed"}
    PROVE  Types' /\ Protocol'
<1> USE Processes, Numbers, WaitValues, Servers
<1>0. wait[TASK_MM] = Run
  BY DEF TaskSends, Running
<1>1. p \in Live /\ Waiting(p) /\ made[p].call = "FORK"
  BY DEF Forks, Waiting
<1>2. CASE Halt("deadlock")
  BY <1>2, Kept DEF Halt, ipcVars
<1>3. CASE /\ Send(TASK_MM, p, m)
           /\ pc' = [pc EXCEPT ![TASK_MM] = next]
           /\ UNCHANGED <<free, base, p_parent, at, frame, made, forked, src, child_pid>>
  <2>1. PICK st \in Message : /\ st.type = m.type /\ st.source = TASK_MM /\ st.PID = m.PID
                              /\ st.RETVAL = m.RETVAL /\ Sent(TASK_MM, p, st)
    <3>1. p \in Proc
      OBVIOUS
    <3> QED
      BY <1>3, <3>1, SendEffect
  <2>2. TableTypes' /\ Live' = Live
    BY <1>3 DEF Types, TableTypes, Live
  <2>3. /\ pc'[TASK_MM] = next /\ pc'[TASK_FS] = pc[TASK_FS] /\ pc'[TASK_SYS] = pc[TASK_SYS]
    BY <1>3 DEF Types, TableTypes
  <2>4. Regions' /\ Stacks'
    BY <1>3, <2>2, <2>3 DEF Protocol, Regions, Stacks, Between
  <2>5. IpcTypes'
    BY <2>1, MessageAssumption DEF Sent, Types, IpcTypes
  <2>6. AnswersFork(st, p)
    BY <2>1 DEF AnswersFork
  <2>7. /\ \A q \in Proc : q # TASK_MM /\ q # p => wait'[q] = wait[q] /\ mail'[q] = mail[q]
        /\ \/ /\ wait[p] = Receives(TASK_MM) /\ wait'[p] = Run /\ mail'[p] = st
              /\ wait'[TASK_MM] = Run
           \/ /\ wait[p] = Run /\ wait'[p] = Run /\ mail'[p] = mail[p]
              /\ wait'[TASK_MM] = Sends(p) /\ mail'[TASK_MM] = st
    BY <1>0, <1>1, <2>1 DEF Sent, Types, IpcTypes, Waiting
  <2>8. \A q \in Live : q # p => (Waiting(q)' <=> Waiting(q))
    BY <1>3, <2>2, <2>7 DEF Waiting, Live
  <2>9. UsersWait'
    BY <1>1, <1>3, <2>2, <2>7 DEF Protocol, UsersWait, Live, Types, TableTypes, Waiting
  <2>10. MmWaits'
    BY <1>3, <2>3, <2>7 DEF MmWaits
  <2>11. FsServes'
    BY <1>0, <2>3, <2>7 DEF Protocol, FsServes
  <2>12. SysServes'
    BY <1>1, <1>3, <2>2, <2>3, <2>7, <2>8 DEF Protocol, SysServes, AnswersSys, Live
  <2>13. MmServes'
    <3>1. wait'[TASK_MM] = Sends(p) => Forks(p)'
      BY <1>1, <1>3, <2>2, <2>7 DEF Waiting, Forks
    <3>2. child_pid # src \/ next = "receive"
      BY DEF Protocol, MmServes
    <3>3. \A q \in Entry : MmOwes(q)' => \/ MmOwes(q) /\ q # p
                                         \/ q = p /\ wait'[TASK_MM] = Sends(p)
      BY <1>0, <1>3, <2>3, <2>7, <3>2 DEF MmOwes
    <3>4. \A q \in Entry : q # p /\ Forks(q) => Forks(q)'
      BY <1>3, <2>8 DEF Forks, Waiting
    <3>5. \A q \in Entry : MmOwes(q)' => Forks(q)'
      BY <3>1, <3>3, <3>4 DEF Protocol, MmServes
    <3>6. \A q \in Entry : wait'[TASK_MM] = Sends(q) => AnswersFork(mail[TASK_MM], q)'
      BY <1>3, <2>6, <2>7 DEF AnswersFork
    <3> QED
      BY <1>3, <2>3, <2>7, <3>5, <3>6 DEF Protocol, MmServes
  <2>14. Answered'
    BY <1>1, <1>3, <2>2, <2>6, <2>7 DEF Protocol, Answered, AnswersFork, AnswersSys, Live, Waiting
  <2> QED
    BY <2>2, <2>4, <2>5, <2>9, <2>10, <2>11, <2>12, <2>13, <2>14 DEF Types, Protocol
<1> QED
  BY <1>2, <1>3 DEF TaskSends, tableVars

(* What the result of a fork says.                                          *)
LEMMA Results ==
    ASSUME NEW pid \in 0 .. INIT_PID + NR_CHILDREN, NEW val \in {0, 1}
    PROVE  /\ Result(pid, val) \in Message /\ Result(pid, val).type = "SYSCALL_RET"
           /\ Result(pid, val).PID = pid /\ Result(pid, val).RETVAL = val
BY MessageAssumption DEF Result, Message

(* task_mm wakes the child and answers the parent.                          *)
LEMMA RepliesStep ==
    ASSUME Types, Protocol, WakeChild \/ ReplyToParent
    PROVE  Types' /\ Protocol'
<1> USE Processes, Numbers, WaitValues, Servers
<1>0. src \in Entry /\ child_pid \in Entry /\ Run = wait[TASK_MM]
  BY DEF Types, TableTypes, WakeChild, ReplyToParent, TaskSends, Running
<1>1. CASE WakeChild
  <2>1. pc[TASK_MM] = "wake" /\ TaskSends(TASK_MM, child_pid, Result(0, 0), "reply")
    BY <1>1 DEF WakeChild
  <2>2. Forks(child_pid) /\ forked[child_pid] = 0
    BY <1>0, <2>1 DEF Protocol, MmServes, MmOwes
  <2> QED
    BY <1>0, <2>1, <2>2, Results, AnswerStep DEF Label
<1>2. CASE pc[TASK_MM] = "reply" /\ TaskSends(TASK_MM, src, Result(child_pid, 0), "receive")
  <2>1. Forks(src) /\ child_pid \in Children /\ forked[src] = child_pid
    BY <1>0, <1>2 DEF Protocol, MmServes, MmOwes
  <2> QED
    BY <1>0, <1>2, <2>1, Results, AnswerStep DEF Label
<1>3. CASE pc[TASK_MM] = "failed" /\ TaskSends(TASK_MM, src, Result(NoMessage.PID, 1), "receive")
  <2>1. Forks(src) /\ free = {} /\ forked[src] = NoFork
    BY <1>0, <1>3 DEF Protocol, MmServes, MmOwes
  <2>2. NoMessage.PID \in 0 .. INIT_PID + NR_CHILDREN
    BY MessageAssumption DEF Message
  <2> QED
    BY <1>0, <1>3, <2>1, <2>2, Results, AnswerStep DEF Label
<1> QED
  BY <1>1, <1>2, <1>3 DEF ReplyToParent

(* do_fork finds no entry, or makes the lowest one a copy of the parent's,  *)
(* which waits for the answer as the child now does.                        *)
LEMMA ForkStep ==
    ASSUME Types, Protocol, do_fork
    PROVE  Types' /\ Protocol'
<1> USE Processes, Numbers, WaitValues, Servers
<1>0. wait[TASK_MM] = Run /\ pc[TASK_MM] = "do_fork" /\ ~ Between
  BY DEF do_fork, Running, Between
<1>1. PICK p \in Entry : p = mail[TASK_MM].source /\ Forks(p)
  BY <1>0 DEF Protocol, MmServes, MmOwes
<1>2. /\ p \in Live /\ at[p] = "sendrec" /\ made[p].call = "FORK"
      /\ \/ made[p].function = "SEND" /\ wait[p] = Run
         \/ made[p].function = "RECEIVE" /\ wait[p] = Receives(TASK_MM)
  BY <1>1 DEF Forks, Waiting
<1>3. CASE free = {}
  <2>0. /\ src' = p /\ pc' = [pc EXCEPT ![TASK_MM] = "failed"]
        /\ UNCHANGED <<wait, mail, has_int_msg, free, base, p_parent, at, frame, made, forked, child_pid>>
    BY <1>1, <1>3 DEF do_fork, ipcVars, tableVars
  <2>1. Types' /\ Live' = Live
    BY <2>0 DEF Types, IpcTypes, TableTypes, Label, Live
  <2>2. /\ pc'[TASK_MM] = "failed" /\ pc'[TASK_FS] = pc[TASK_FS] /\ pc'[TASK_SYS] = pc[TASK_SYS]
    BY <2>0 DEF Types, TableTypes
  <2>3. \A q : (Waiting(q)' <=> Waiting(q)) /\ (Forks(q)' <=> Forks(q))
    BY <2>0, <2>1 DEF Waiting, Forks
  <2>4. UsersWait' /\ Answered'
    BY <2>0, <2>1 DEF Protocol, UsersWait, Answered, AnswersFork, AnswersSys
  <2>5. MmWaits' /\ FsServes'
    BY <1>0, <2>0, <2>2 DEF Protocol, MmWaits, FsServes
  <2>6. SysServes'
    BY <2>0, <2>1, <2>2, <2>3 DEF Protocol, SysServes, AnswersSys
  <2>7. MmServes'
    <3>1. forked[p] = NoFork
      BY <1>0, <1>1 DEF Protocol, MmServes
    <3> QED
      BY <1>0, <1>1, <1>3, <2>0, <2>2, <2>3, <3>1 DEF MmServes, MmOwes
  <2>8. Regions' /\ Stacks'
    BY <1>0, <2>0, <2>1, <2>2 DEF Protocol, Regions, Stacks, Between
  <2> QED
    BY <2>1, <2>4, <2>5, <2>6, <2>7, <2>8 DEF Protocol
<1>4. CASE free # {}
  <2>1. PICK child \in free : child = Min(free)
    <3>1. free \subseteq Nat
      BY DEF Types, TableTypes
    <3> QED
      BY <1>4, <3>1, MinIsLeast
  <2>2. child \in Children /\ child \in Entry /\ child # p /\ child \notin Live
    BY <1>2 DEF Types, TableTypes, Live
  <2>3. /\ src' = p /\ child_pid' = child /\ pc' = [pc EXCEPT ![TASK_MM] = "phys_copy"]
        /\ wait' = [wait EXCEPT ![child] = wait[p]]
        /\ mail' = [mail EXCEPT ![child] = mail[p]]
        /\ has_int_msg' = [has_int_msg EXCEPT ![child] = has_int_msg[p]]
        /\ at' = [at EXCEPT ![child] = at[p]]
        /\ made' = [made EXCEPT ![child] = made[p]]
        /\ base' = [base EXCEPT ![child] = base[p]]
        /\ p_parent' = [p_parent EXCEPT ![child] = p]
        /\ forked' = [forked EXCEPT ![p] = child, ![child] = 0]
        /\ free' = free \ {child}
        /\ frame' = frame
    BY <1>1, <1>4, <2>1 DEF do_fork, CopyEntry
  <2>4. IpcTypes'
    BY <2>2, <2>3 DEF Types, IpcTypes
  <2>5. TableTypes'
    BY <2>2, <2>3 DEF Types, TableTypes, Label
  <2>6. Live' = Live \cup {child} /\ free' \subseteq free
    BY <2>2, <2>3 DEF Live
  <2>7. /\ pc'[TASK_MM] = "phys_copy" /\ pc'[TASK_FS] = pc[TASK_FS] /\ pc'[TASK_SYS] = pc[TASK_SYS]
    BY <2>3 DEF Types, TableTypes
  <2>8. /\ wait'[child] = wait[p] /\ at'[child] = at[p] /\ made'[child] = made[p]
        /\ forked'[p] = child /\ forked'[child] = 0
        /\ \A q \in Proc : q # child => wait'[q] = wait[q] /\ mail'[q] = mail[q]
        /\ \A q \in Entry : q # child => /\ at'[q] = at[q] /\ made'[q] = made[q]
                                         /\ base'[q] = base[q]
        /\ \A q \in Entry : q # child /\ q # p => forked'[q] = forked[q]
    BY <2>2, <2>3 DEF Types, IpcTypes, TableTypes
  <2>9. /\ \A q \in Live : Waiting(q)' <=> Waiting(q)
        /\ Forks(p)' /\ Forks(child)'
    BY <1>2, <2>2, <2>6, <2>8 DEF Waiting, Forks, Live
  <2>10. UsersWait'
    <3>1. \A q \in free' : wait'[q] = Run
      BY <2>2, <2>3, <2>8 DEF Protocol, UsersWait, Types, TableTypes
    <3>2. ASSUME NEW q \in Live
          PROVE  /\ at'[q] = "user" => wait'[q] = Run /\ forked'[q] = NoFork
                 /\ at'[q] = "sendrec" =>
                      \/ /\ made'[q].function = "SEND"
                         /\ wait'[q] \in {Run, Sends(Server(made'[q].call))}
                      \/ /\ made'[q].function = "RECEIVE"
                         /\ wait'[q] \in {Run, Receives(Server(made'[q].call))}
                 /\ \A d \in Proc : wait'[q] = Sends(d) =>
                      mail'[q].source = q /\ mail'[q].type = made'[q].call /\ forked'[q] = NoFork
      <4>1. q \in Entry /\ q # child
        BY <2>2 DEF Live
      <4>2. /\ wait'[q] = wait[q] /\ mail'[q] = mail[q] /\ at'[q] = at[q] /\ made'[q] = made[q]
        BY <2>8, <4>1
      <4>3. q = p => at[q] = "sendrec" /\ \A d \in Proc : wait[q] # Sends(d)
        BY <1>2
      <4>4. q # p => forked'[q] = forked[q]
        BY <2>8, <4>1
      <4> QED
        BY <4>2, <4>3, <4>4 DEF Protocol, UsersWait
    <3> QED
      BY <1>2, <2>2, <2>6, <2>8, <3>1, <3>2 DEF UsersWait
  <2>11. MmWaits' /\ FsServes'
    BY <1>0, <2>2, <2>7, <2>8 DEF Protocol, MmWaits, FsServes
  <2>12. SysServes'
    <3>1. wait[TASK_SYS] # Sends(child)
      BY <2>2 DEF Protocol, SysServes
    <3>2. \A q \in Live : q \in Entry /\ q # child
      BY <2>2 DEF Live
    <3> QED
      BY <2>2, <2>6, <2>7, <2>8, <2>9, <3>1, <3>2 DEF Protocol, SysServes, AnswersSys
  <2>13. MmServes'
    <3>1. \A q \in Entry : MmOwes(q)' => q = p \/ q = child
      BY <1>0, <2>2, <2>3, <2>7, <2>8 DEF MmOwes
    <3>2. wait'[TASK_MM] = Run
      BY <1>0, <2>2, <2>8
    <3> QED
      BY <2>2, <2>3, <2>7, <2>8, <2>9, <3>1, <3>2 DEF MmServes
  <2>14. Answered'
    <3>2. ASSUME NEW q \in Live, wait[q] = Run, at[q] = "sendrec", made[q].function = "RECEIVE"
          PROVE  IF made[q].call = "FORK" THEN AnswersFork(mail[q], q)' ELSE AnswersSys(mail[q], q)'
      <4>1. q \in Entry /\ q # child
        BY <2>2 DEF Live
      <4>2. IF made[q].call = "FORK" THEN AnswersFork(mail[q], q) ELSE AnswersSys(mail[q], q)
        BY <3>2 DEF Protocol, Answered
      <4>3. AnswersFork(mail[q], q) => AnswersFork(mail[q], q)'
        <5>1. q # p
          BY <1>2, <3>2
        <5> QED
          BY <1>4, <2>8, <4>1, <5>1 DEF AnswersFork
      <4>4. AnswersSys(mail[q], q) => AnswersSys(mail[q], q)'
        BY <2>8, <4>1 DEF AnswersSys
      <4> QED
        BY <4>2, <4>3, <4>4
    <3>3. \A q \in Live : q \in Entry /\ q # child
      BY <2>2 DEF Live
    <3> QED
      BY <1>2, <2>6, <2>8, <3>2, <3>3 DEF Answered
  <2>15. Between'
    BY <2>7 DEF Between
  <2>16. Regions'
    <3>1. \A q \in Live : base'[q] = q
      BY <1>0, <2>2, <2>8 DEF Protocol, Regions, Live
    <3> QED
      BY <2>2, <2>3, <2>6, <2>7, <2>8, <2>15, <3>1 DEF Regions
  <2>17. Stacks'
    <3> SUFFICES ASSUME NEW q \in Live, at'[q] = "sendrec"
                 PROVE  frame[base'[q]] = made'[q]
      BY <2>3, <2>6, <2>15 DEF Stacks
    <3>1. q \in Entry /\ q # child
      BY <2>2 DEF Live
    <3> QED
      BY <1>0, <2>8, <3>1 DEF Protocol, Stacks
  <2> QED
    BY <2>4, <2>5, <2>10, <2>11, <2>12, <2>13, <2>14, <2>16, <2>17 DEF Types, Protocol
<1> QED
  BY <1>3, <1>4

(* The memory of the parent, which has not run, is copied into the region   *)
(* of the child, where no other process has its stack.                      *)
LEMMA CopyStep ==
    ASSUME Types, Protocol, phys_copy
    PROVE  Types' /\ Protocol'
<1> USE Processes, Numbers, WaitValues, Servers
<1>0. wait[TASK_MM] = Run /\ pc[TASK_MM] = "phys_copy" /\ Between
  BY DEF phys_copy, Running, Between
<1>1. CASE Halt("mm/main.c:78")
  BY <1>1, Kept DEF Halt, ipcVars
<1>2. CASE /\ frame' = [frame EXCEPT ![child_pid] = frame[base[src]]]
           /\ pc' = [pc EXCEPT ![TASK_MM] = "init_descriptor"]
           /\ UNCHANGED <<wait, mail, has_int_msg, free, base, p_parent, at, made, forked, src,
                         child_pid>>
  <2>0. src \in Entry /\ child_pid \in Entry /\ Forks(src) /\ Forks(child_pid) /\ child_pid # src
    BY <1>0 DEF Protocol, MmServes, MmOwes, Types, TableTypes
  <2>1. Types' /\ Live' = Live
    BY <1>2, <2>0 DEF Types, IpcTypes, TableTypes, Label, Live
  <2>2. /\ pc'[TASK_MM] = "init_descriptor" /\ pc'[TASK_FS] = pc[TASK_FS] /\ pc'[TASK_SYS] = pc[TASK_SYS]
        /\ Between'
    BY <1>2 DEF Types, TableTypes, Between
  <2>3. \A q : (Waiting(q)' <=> Waiting(q)) /\ (Forks(q)' <=> Forks(q))
    BY <1>2, <2>1 DEF Waiting, Forks
  <2>4. UsersWait' /\ Answered'
    BY <1>2, <2>1 DEF Protocol, UsersWait, Answered, AnswersFork, AnswersSys
  <2>5. MmWaits' /\ FsServes'
    BY <1>0, <1>2, <2>2 DEF Protocol, MmWaits, FsServes
  <2>6. SysServes'
    BY <1>2, <2>1, <2>2, <2>3 DEF Protocol, SysServes, AnswersSys
  <2>7. MmServes'
    <3>1. \A q \in Entry : MmOwes(q)' => MmOwes(q)
      BY <1>0, <1>2, <2>2 DEF MmOwes
    <3> QED
      BY <1>0, <1>2, <2>2, <2>3, <3>1 DEF Protocol, MmServes
  <2>8. frame[base[src]] = made[src] /\ made[child_pid] = made[src]
    BY <1>0, <2>0 DEF Protocol, Stacks, Regions, Forks, Waiting
  <2>9. Regions'
    BY <1>0, <1>2, <2>0, <2>1, <2>2, <2>8 DEF Protocol, Regions, Types, TableTypes
  <2>10. Stacks'
    <3> SUFFICES ASSUME NEW q \in Live, at[q] = "sendrec", q # child_pid
                 PROVE  frame'[base[q]] = made[q]
      BY <1>2, <2>1, <2>2 DEF Stacks
    <3>1. base[q] = q /\ q \in Entry
      BY DEF Protocol, Regions, Live
    <3> QED
      BY <1>2, <3>1 DEF Protocol, Stacks, Types, TableTypes
  <2> QED
    BY <2>1, <2>4, <2>5, <2>6, <2>7, <2>9, <2>10 DEF Protocol
<1> QED
  BY <1>1, <1>2 DEF phys_copy, alloc_mem, ipcVars

(* The child's descriptors stand for its own region from now on.            *)
LEMMA DescriptorStep ==
    ASSUME Types, Protocol, init_descriptor
    PROVE  Types' /\ Protocol'
<1> USE Processes, Numbers, WaitValues, Servers
<1>0. /\ wait[TASK_MM] = Run /\ pc[TASK_MM] = "init_descriptor" /\ Between
      /\ base' = [base EXCEPT ![child_pid] = child_pid]
      /\ pc' = [pc EXCEPT ![TASK_MM] = "tell"]
      /\ UNCHANGED <<wait, mail, has_int_msg, free, p_parent, at, frame, made, forked, src, child_pid>>
  BY DEF init_descriptor, Running, Between, alloc_mem, ipcVars
<1>1. child_pid \in Entry
  BY DEF Types, TableTypes
<1>2. Types' /\ Live' = Live
  BY <1>0, <1>1 DEF Types, IpcTypes, TableTypes, Label, Live
<1>3. /\ pc'[TASK_MM] = "tell" /\ pc'[TASK_FS] = pc[TASK_FS] /\ pc'[TASK_SYS] = pc[TASK_SYS]
      /\ ~ Between'
  BY <1>0 DEF Types, TableTypes, Between
<1>4. \A q : (Waiting(q)' <=> Waiting(q)) /\ (Forks(q)' <=> Forks(q))
  BY <1>0, <1>2 DEF Waiting, Forks
<1>5. UsersWait' /\ Answered'
  BY <1>0, <1>2 DEF Protocol, UsersWait, Answered, AnswersFork, AnswersSys
<1>6. MmWaits' /\ FsServes'
  BY <1>0, <1>3 DEF Protocol, MmWaits, FsServes
<1>7. SysServes'
  BY <1>0, <1>2, <1>3, <1>4 DEF Protocol, SysServes, AnswersSys
<1>8. MmServes'
  <2>1. \A q \in Entry : MmOwes(q)' => MmOwes(q)
    BY <1>0, <1>3 DEF MmOwes
  <2> QED
    BY <1>0, <1>3, <1>4, <2>1 DEF Protocol, MmServes
<1>9. \A q \in Live : base'[q] = q
  BY <1>0 DEF Protocol, Regions, Live, Types, TableTypes
<1>10. Regions'
  BY <1>2, <1>3, <1>9 DEF Regions
<1>11. Stacks'
  <2>1. \A q \in Live : at[q] = "sendrec" => frame[q] = made[q]
    BY <1>0 DEF Protocol, Regions, Stacks
  <2> QED
    BY <1>0, <1>2, <1>9, <2>1 DEF Stacks
<1> QED
  BY <1>2, <1>5, <1>6, <1>7, <1>8, <1>10, <1>11 DEF Protocol

-----------------------------------------------------------------------------
(* The invariant *)

(* Only the first process is there, and nobody calls.                       *)
LEMMA IInvInit == Init => IInv
<1> USE Processes, Numbers, WaitValues, Servers
<1> SUFFICES ASSUME Init PROVE Types /\ Protocol
  BY DEF IInv
<1>1. /\ wait = [p \in Proc |-> Run] /\ mail = [p \in Proc |-> NoMessage]
      /\ has_int_msg = [p \in Proc |-> FALSE]
      /\ free = Children /\ base = [e \in Entry |-> INIT_PID]
      /\ p_parent = [e \in Entry |-> NO_TASK]
      /\ at = [e \in Entry |-> "user"] /\ forked = [e \in Entry |-> NoFork]
      /\ frame = [r \in Entry |-> NoFrame] /\ made = frame
      /\ pc = [t \in Tasks |-> "receive"]
      /\ src = INIT_PID /\ child_pid = INIT_PID
  BY DEF Init, IpcInit
<1>2. Types
  BY <1>1, MessageAssumption DEF Types, IpcTypes, TableTypes, Label, Frame
<1>3. /\ Live = {INIT_PID} /\ \A p \in Proc : wait[p] = Run
      /\ \A p \in Entry : at[p] = "user" /\ forked[p] = NoFork
      /\ pc[TASK_MM] = "receive" /\ pc[TASK_FS] = "receive" /\ pc[TASK_SYS] = "receive"
  BY <1>1 DEF Live
<1>4. UsersWait
  BY <1>1, <1>3 DEF UsersWait
<1>5. MmWaits /\ FsServes /\ SysServes
  BY <1>3 DEF MmWaits, FsServes, SysServes, Live
<1>6. MmServes
  BY <1>3 DEF MmServes, MmOwes
<1>7. Regions /\ Stacks /\ Answered
  BY <1>1, <1>3 DEF Regions, Stacks, Answered, Between
<1> QED
  BY <1>2, <1>4, <1>5, <1>6, <1>7 DEF Protocol

(* The invariant is inductive; nothing mends a fork that was torn.          *)
LEMMA IInvStep == IInv /\ [Next]_vars => IInv'
<1> SUFFICES ASSUME IInv, [Next]_vars, ~ torn' PROVE Types' /\ Protocol'
  BY DEF IInv
<1>1. CASE \E p \in Entry : UserSends(p) \/ UserReceives(p) \/ UserReturns(p)
  <2>1. PICK p \in Entry : UserSends(p) \/ UserReceives(p) \/ UserReturns(p)
    BY <1>1
  <2>2. ~ torn
    BY <2>1 DEF UserSends, UserReceives, UserReturns, Halt
  <2> QED
    BY <2>1, <2>2, UserSendsStep, UserReceivesStep, UserReturnsStep DEF IInv
<1>2. CASE MM
  <2>1. ~ torn
    BY <1>2 DEF MM, TaskReceives, do_fork, phys_copy, init_descriptor, TellFs, FsTold, WakeChild,
                ReplyToParent, TaskSends, Halt
  <2> QED
    BY <1>2, <2>1, MmReceivesStep, ForkStep, CopyStep, DescriptorStep, TellFsStep, FsToldStep,
       RepliesStep DEF MM, IInv
<1>3. CASE \E t \in {TASK_FS, TASK_SYS} : TaskReceives(t) \/ TaskServes(t)
  <2>1. ~ torn
    BY <1>3 DEF TaskReceives, TaskServes, TaskSends, Halt
  <2> QED
    BY <1>3, <2>1, FsReceivesStep, FsServesStep, SysReceivesStep, SysServesStep DEF IInv
<1>4. CASE Stopped \/ UNCHANGED vars
  BY <1>4, Kept DEF Stopped, vars, ipcVars, IInv
<1> QED
  BY <1>1, <1>2, <1>3, <1>4 DEF Next

(* The invariant holds in every reachable state.                            *)
LEMMA Invariance == Spec => []IInv
BY IInvInit, IInvStep, PTL DEF Spec

(* For any number of processes, forks and calls: a process that is inside   *)
(* sendrec finds on its stack the call it made.  The registers and the      *)
(* memory that do_fork gives the child (mm/forkexit.c:27-73) belong         *)
(* together, and no two processes use one stack, as long as neither parent  *)
(* nor child ran between the copies.                                        *)
THEOREM StacksMatchCalls == Spec => []StackMatchesCall
<1>1. IInv => StackMatchesCall
  BY DEF IInv, Protocol, Stacks, Live, StackMatchesCall
<1> QED
  BY <1>1, Invariance, PTL

(* For any number of processes, forks and calls, every call returns with    *)
(* its own answer: fork with the number of the child that this very call    *)
(* has made in the parent, be it itself a child; with 0 in the child, for   *)
(* its first return only; and with a failure only when the table is full;   *)
(* getpid with the number of the caller (mm/main.c, kernel/systask.c).      *)
THEOREM AnswersAreRight == Spec => []RightAnswers
<1>1. IInv => RightAnswers
  <2> SUFFICES ASSUME Types, Protocol, NEW p \in Live, Running(p), at[p] = "sendrec",
                      made[p].function = "RECEIVE"
               PROVE  CASE made[p].call = "FORK" -> AnswersFork(mail[p], p)
                        [] made[p].call = "GET_PID" -> mail[p].type = "SYSCALL_RET" /\ mail[p].PID = p
                        [] made[p].call = "GET_TICKS" ->
                              mail[p].type = "GET_TICKS" /\ mail[p].source = TASK_SYS
    BY DEF IInv, RightAnswers, Live, AnswersFork
  <2>1. made[p].call \in {"FORK", "GET_PID", "GET_TICKS"}
    BY DEF Types, TableTypes, Frame, NoFrame, Call, Live
  <2>2. IF made[p].call = "FORK" THEN AnswersFork(mail[p], p) ELSE AnswersSys(mail[p], p)
    BY DEF Protocol, Answered, Running
  <2> QED
    BY <2>1, <2>2 DEF AnswersSys
<1> QED
  BY <1>1, Invariance, PTL
=============================================================================
