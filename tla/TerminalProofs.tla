--------------------------- MODULE TerminalProofs ---------------------------
(***************************************************************************)
(* Proofs about Terminal, for any number of processes, terminals and keys, *)
(* any sizes of the buffers and any counts.                                *)
(***************************************************************************)
EXTENDS Terminal, TLAPS

-----------------------------------------------------------------------------
(* The inductive invariant *)

(* A process that made its call and has no answer. *)
Waiting(u) == \/ pc[u] = "both" /\ wait[u] = Run
              \/ pc[u] = "return" /\ wait[u] = Receives(TASK_FS)

(* The read of the tty c is not yet answered. *)
Live(c) == IF c = p_tty /\ pc[TASK_TTY] \in {"resume", "resumed"}
           THEN pc[TASK_TTY] = "resume" \/ wait[TASK_TTY] = Sends(TASK_FS)
           ELSE tty[c].left > 0

(* task_fs waits for task_tty, which has the request. *)
FsAsked == \/ pc[TASK_FS] = "both" /\ wait[TASK_FS] = Run
           \/ pc[TASK_FS] = "return" /\ wait[TASK_FS] = Receives(TASK_TTY)

(* task_tty has suspended the process that task_fs works for. *)
SuspendSent ==
    \/ pc[TASK_FS] = "return" /\ wait[TASK_FS] = Run /\ mail[TASK_FS].type = "SUSPEND_PROC"
    \/ /\ pc[TASK_FS] = "both" /\ wait[TASK_FS] = Run
       /\ wait[TASK_TTY] = Sends(TASK_FS) /\ mail[TASK_TTY].type = "SUSPEND_PROC"

(* task_fs owes u an answer. *)
FsHas(u) ==
    \/ /\ pc[TASK_FS] = "serve" /\ wait[TASK_FS] = Run
       /\ u = IF mail[TASK_FS].type = "RESUME_PROC" THEN mail[TASK_FS].PROC_NR
                                                    ELSE mail[TASK_FS].source
    \/ pc[TASK_FS] \in {"both", "return"} /\ fs_src = u /\ ~ SuspendSent
    \/ wait[TASK_FS] = Sends(u)

(* m is the call that u made. *)
IsCall(m, u) == m.source = u /\ m.type = asked[u].call /\ m.CNT = asked[u].count

(* m is what task_fs made of the call of fs_src, or the answer to it. *)
IsRequest(m) ==
    /\ m.source = TASK_FS /\ m.PROC_NR = fs_src
    /\ m.type = DevRequest(asked[fs_src].call) /\ m.CNT = asked[fs_src].count
IsAnswer(m) ==
    /\ m.type \in {"SYSCALL_RET", "SUSPEND_PROC"}
    /\ m.type = "SUSPEND_PROC" <=> asked[fs_src].call = "READ"

(* n characters in the buffer of u are the line typed for it. *)
IsLine(u, n) ==
    /\ n = Len(line[u])
    /\ n <= asked[u].count
    /\ \A i \in 1 .. n : buf[u][i] = line[u][i]

(* What each process waits for at each statement. *)
UsersWait ==
    \A u \in Users :
        /\ pc[u] = "user" => wait[u] = Run
        /\ pc[u] = "both" => wait[u] \in {Run, Sends(TASK_FS)}
        /\ pc[u] = "return" => wait[u] \in {Run, Receives(TASK_FS)}
        /\ wait[u] = Sends(TASK_FS) => IsCall(mail[u], u)
        /\ asked[u].call = "READ" => asked[u].count > 0
TtyWaits ==
    /\ pc[TASK_TTY] \in {"write", "resume", "receive"} => wait[TASK_TTY] = Run
    /\ pc[TASK_TTY] \in {"read", "resumed"} => wait[TASK_TTY] \in {Run, Sends(TASK_FS)}
    /\ pc[TASK_TTY] = "serve" => wait[TASK_TTY] \in {Run, Receives(ANY)}
FsWaits ==
    /\ pc[TASK_FS] = "receive" => wait[TASK_FS] = Run \/ \E u \in Users : wait[TASK_FS] = Sends(u)
    /\ pc[TASK_FS] = "serve" => wait[TASK_FS] \in {Run, Receives(ANY)}
    /\ pc[TASK_FS] = "both" => wait[TASK_FS] \in {Run, Sends(TASK_TTY)}
    /\ pc[TASK_FS] = "return" => wait[TASK_FS] \in {Run, Receives(TASK_TTY)}
    /\ ~ has_int_msg[TASK_FS]

(* What task_fs has received, and for whom it works. *)
FsMail ==
    /\ pc[TASK_FS] = "serve" /\ wait[TASK_FS] = Run =>
          \/ \E u \in Users : IsCall(mail[TASK_FS], u)
          \/ /\ mail[TASK_FS].type = "RESUME_PROC"
             /\ \E u \in Users : /\ mail[TASK_FS].PROC_NR = u
                                 /\ IsLine(u, mail[TASK_FS].CNT)
    /\ pc[TASK_FS] \in {"both", "return"} => fs_src \in Users
    /\ wait[TASK_FS] = Sends(TASK_TTY) => IsRequest(mail[TASK_FS])
    /\ pc[TASK_FS] = "both" /\ wait[TASK_FS] = Run =>
          \/ pc[TASK_TTY] = "serve" /\ wait[TASK_TTY] = Run /\ mail[TASK_TTY].type # "HARD_INT"
          \/ pc[TASK_TTY] = "read" /\ wait[TASK_TTY] = Sends(TASK_FS) /\ IsAnswer(mail[TASK_TTY])
    /\ pc[TASK_FS] = "return" /\ wait[TASK_FS] = Receives(TASK_TTY) =>
          pc[TASK_TTY] = "serve" /\ wait[TASK_TTY] = Run /\ mail[TASK_TTY].type # "HARD_INT"
    /\ pc[TASK_FS] = "return" /\ wait[TASK_FS] = Run => IsAnswer(mail[TASK_FS])
    /\ \A u \in Users : wait[TASK_FS] = Sends(u) /\ asked[u].call = "READ" =>
          IsLine(u, mail[TASK_FS].CNT)

(* What task_tty has received, or sends. *)
TtyMail ==
    /\ pc[TASK_TTY] = "serve" /\ wait[TASK_TTY] = Run /\ mail[TASK_TTY].type # "HARD_INT" =>
          FsAsked /\ IsRequest(mail[TASK_TTY])
    /\ wait[TASK_TTY] = Sends(TASK_FS) /\ pc[TASK_TTY] = "read" =>
          pc[TASK_FS] = "both" /\ wait[TASK_FS] = Run
    /\ wait[TASK_TTY] = Sends(TASK_FS) /\ pc[TASK_TTY] = "resumed" =>
          /\ mail[TASK_TTY].type = "RESUME_PROC"
          /\ mail[TASK_TTY].PROC_NR = tty[p_tty].procnr
          /\ mail[TASK_TTY].CNT = tty[p_tty].trans

(* A read that is not answered is of a process that waits, and of no other  *)
(* tty; what the process asked for is what is there and what is left.       *)
Reader(c, u) ==
    /\ u \in Users
    /\ Waiting(u) /\ ~ FsHas(u)
    /\ asked[u].call = "READ"
    /\ tty[c].trans + tty[c].left = asked[u].count
    /\ IsLine(u, tty[c].trans)
Readers ==
    /\ \A c \in Console : tty[c].caller = TASK_FS
    /\ \A c \in Console : Live(c) => Reader(c, tty[c].procnr)
    /\ \A c, d \in Console : Live(c) /\ Live(d) /\ tty[c].procnr = tty[d].procnr => c = d

(* A process that task_fs works for waits for the answer. *)
Owed ==
    /\ \A u \in Users : FsHas(u) => Waiting(u)
    /\ pc[TASK_FS] \in {"both", "return"} => Waiting(fs_src)

(* A process that waits alone is not forgotten: task_fs works for it, or a  *)
(* tty reads for it.  A second process can take the tty away from it.       *)
Alone == \A u, v \in Users : u = v
Served ==
    Alone => \A u \in Users : Waiting(u) =>
                 FsHas(u) \/ \E c \in Console : Live(c) /\ tty[c].procnr = u

Protocol == /\ UsersWait /\ TtyWaits /\ FsWaits /\ FsMail /\ TtyMail /\ Readers /\ Owed /\ Served

WaitState == [op : {"run", "send", "receive"}, peer : Proc \cup {ANY, INTERRUPT}]

(* TypeOK, without the queues of senders, on which nothing here depends. *)
IpcTypes ==
    /\ wait \in [Proc -> WaitState]
    /\ mail \in [Proc -> Message]
    /\ has_int_msg \in [Proc -> BOOLEAN]
Label == {"user", "both", "return", "read", "write", "resume", "resumed", "receive", "serve"}
PcTypes ==
    /\ pc \in [Proc -> Label]
    /\ \A u \in Users : pc[u] \in {"user", "both", "return"}
    /\ pc[TASK_TTY] \in {"read", "write", "resume", "resumed", "receive", "serve"}
    /\ pc[TASK_FS] \in {"receive", "serve", "both", "return"}
TtyTypes ==
    /\ nr_current_console \in Console
    /\ in_buf \in [Console -> Seq(Printable \cup {"enter", "bs"})]
    /\ tty \in [Console -> [caller : Proc, procnr : Proc,
                            left : 0 .. MaxCount, trans : 0 .. MaxCount]]
    /\ line \in [Users -> Seq(Printable)]
    /\ asked \in [Users -> [call : Call, count : 0 .. MaxCount]]
    /\ buf \in [Users -> [1 .. MaxCount -> Printable \cup {"none"}]]
    /\ p_tty \in Console
    /\ fs_src \in Proc /\ fs_len \in 0 .. MaxCount
Types == IpcTypes /\ PcTypes /\ TtyTypes

IInv == /\ Types
        /\ halted = "no" => Protocol
        /\ ReplyIsWanted /\ ReadReturnsLine

-----------------------------------------------------------------------------
(* Messages and the states of waiting *)

(* The processes, apart and none of them ANY or INTERRUPT.                  *)
LEMMA Processes ==
    /\ TASK_TTY \in Proc /\ TASK_FS \in Proc /\ TASK_TTY # TASK_FS
    /\ \A u \in Users : u \in Proc /\ u # TASK_TTY /\ u # TASK_FS
    /\ \A p \in Proc : p \in Users \/ p = TASK_TTY \/ p = TASK_FS
    /\ \A p \in Proc : p # ANY /\ p # INTERRUPT
    /\ ANY # INTERRUPT
BY TerminalAssumption

(* What a process waits for is one of these, and they differ.               *)
LEMMA WaitValues ==
    /\ Run \in WaitState
    /\ \A p \in Proc : Sends(p) \in WaitState /\ Receives(p) \in WaitState
    /\ Receives(ANY) \in WaitState
    /\ \A p : Run # Sends(p) /\ Run # Receives(p)
    /\ \A p, q : Sends(p) # Receives(q)
    /\ \A p, q : Sends(p) = Sends(q) => p = q
    /\ \A p, q : Receives(p) = Receives(q) => p = q
<1>1. /\ Run \in WaitState
      /\ \A p \in Proc : Sends(p) \in WaitState /\ Receives(p) \in WaitState
      /\ Receives(ANY) \in WaitState
  BY DEF Run, Sends, Receives, WaitState
<1>2. /\ \A p : Run.op # Sends(p).op /\ Run.op # Receives(p).op
      /\ \A p, q : Sends(p).op # Receives(q).op
  BY DEF Run, Sends, Receives
<1>3. /\ \A p : Sends(p).peer = p
      /\ \A p : Receives(p).peer = p
  BY DEF Sends, Receives
<1>4. /\ \A p, q : Sends(p) = Sends(q) => p = q
      /\ \A p, q : Receives(p) = Receives(q) => p = q
  BY <1>3
<1>5. /\ \A p : Run # Sends(p) /\ Run # Receives(p)
      /\ \A p, q : Sends(p) # Receives(q)
  BY <1>2
<1> QED
  BY <1>1, <1>4, <1>5

(* Two processes that send to each other are a deadlock.                    *)
LEMMA Crossing ==
    ASSUME NEW s \in Proc, NEW d \in Proc, wait[d] = Sends(s)
    PROVE  deadlock(s, d)
<1>1. wait[d].op = "send" /\ wait[d].peer = s
  BY DEF Sends
<1> QED
  BY <1>1 DEF deadlock

(* What SEND does: the message goes to a receiver that waits for it, or the *)
(* sender is blocked.                                                       *)
Sent(s, d, st) ==
    /\ has_int_msg' = has_int_msg
    /\ wait[d] # Sends(s)
    /\ \/ /\ wait[d] = Receives(s) \/ wait[d] = Receives(ANY)
          /\ mail' = [mail EXCEPT ![s] = NoMessage, ![d] = st]
          /\ wait' = [wait EXCEPT ![d] = Run]
       \/ /\ wait[d] # Receives(s) /\ wait[d] # Receives(ANY)
          /\ mail' = [mail EXCEPT ![s] = st]
          /\ wait' = [wait EXCEPT ![s] = Sends(d)]

(* SEND passes on the message with the name of its sender (kernel/proc.c    *)
(* msg_send): every other field is as the sender wrote it.                  *)
LEMMA SendEffect ==
    ASSUME NEW s \in Proc, NEW d \in Proc, NEW m \in Message, Send(s, d, m)
    PROVE  \E st \in Message :
              /\ st.type = m.type /\ st.source = s /\ st.CNT = m.CNT
              /\ st.PROC_NR = m.PROC_NR /\ st.DEVICE = m.DEVICE
              /\ Sent(s, d, st)
<1> DEFINE x == [m EXCEPT !.source = s]
<1>1. /\ x \in Message /\ x.type = m.type /\ x.source = s /\ x.CNT = m.CNT
      /\ x.PROC_NR = m.PROC_NR /\ x.DEVICE = m.DEVICE
  BY DEF Message
<1>2. Sent(s, d, x)
  BY Crossing DEF Send, WaitsFor, Sent
<1> QED
  BY <1>1, <1>2

(* What RECEIVE from one process does.                                      *)
LEMMA ReceiveFrom ==
    ASSUME NEW p \in Proc, NEW s \in Proc, Receive(p, s, HardInt)
    PROVE  /\ has_int_msg' = has_int_msg
           /\ \/ /\ wait[s] = Sends(p)
                 /\ mail' = [mail EXCEPT ![s] = NoMessage, ![p] = mail[s]]
                 /\ wait' = [wait EXCEPT ![s] = Run]
              \/ /\ wait[s] # Sends(p)
                 /\ wait' = [wait EXCEPT ![p] = Receives(s)]
                 /\ mail' = [mail EXCEPT ![p] = NoMessage]
<1>1. s # ANY /\ s # INTERRUPT
  BY Processes
<1>2. \A r \in Proc : Offers(r, p, s) <=> r = s /\ wait[r] = Sends(p)
  BY <1>1 DEF Offers
<1> QED
  BY <1>1, <1>2 DEF Receive

(* What RECEIVE from any process does.                                      *)
LEMMA ReceiveAny ==
    ASSUME NEW p \in Proc, Receive(p, ANY, HardInt)
    PROVE  \/ /\ has_int_msg[p]
              /\ mail' = [mail EXCEPT ![p] = HardInt]
              /\ has_int_msg' = [has_int_msg EXCEPT ![p] = FALSE]
              /\ wait' = wait
           \/ /\ has_int_msg' = has_int_msg
              /\ \E s \in Proc : /\ wait[s] = Sends(p)
                                 /\ mail' = [mail EXCEPT ![s] = NoMessage, ![p] = mail[s]]
                                 /\ wait' = [wait EXCEPT ![s] = Run]
           \/ /\ has_int_msg' = has_int_msg
              /\ wait' = [wait EXCEPT ![p] = Receives(ANY)]
              /\ mail' = [mail EXCEPT ![p] = NoMessage]
BY DEF Receive, Offers

(* The empty message and that of an interrupt are messages.                 *)
LEMMA Messages ==
    /\ NoMessage \in Message
    /\ HardInt \in Message /\ HardInt.type = "HARD_INT"
BY MessageAssumption DEF HardInt, Message, Type

-----------------------------------------------------------------------------
(* The steps of the processes *)

(* send_recv(BOTH): a process that sent its call goes on to receive the     *)
(* answer, which task_fs may be waiting to give it.                         *)
LEMMA UserBothStep ==
    ASSUME IInv, NEW u \in Users, UserBoth(u)
    PROVE  IInv'
<1> USE Processes, WaitValues
<1>0. /\ halted = "no" /\ wait[u] = Run /\ pc[u] = "both" /\ Types /\ Protocol
      /\ ReplyIsWanted /\ ReadReturnsLine
      /\ Receive(u, TASK_FS, HardInt)
      /\ pc' = [pc EXCEPT ![u] = "return"]
      /\ UNCHANGED <<ttyVars, fsVars, typed, asked, key_pressed, halted>>
  BY DEF UserBoth, At, Running, Goto, IInv
<1>1. UNCHANGED <<nr_current_console, in_buf, tty, line, buf, p_tty, fs_src, fs_len, asked, halted>>
  BY <1>0 DEF ttyVars, fsVars
<1>2. CASE /\ wait[TASK_FS] = Sends(u) /\ has_int_msg' = has_int_msg
           /\ mail' = [mail EXCEPT ![TASK_FS] = NoMessage, ![u] = mail[TASK_FS]]
           /\ wait' = [wait EXCEPT ![TASK_FS] = Run]
  <2>1. pc[TASK_FS] = "receive"
    BY <1>0, <1>2 DEF Protocol, FsWaits, Types, IpcTypes, PcTypes, TtyTypes
  <2>2. IpcTypes' /\ PcTypes' /\ TtyTypes'
    <3>1. IpcTypes'
      BY <1>0, <1>1, <1>2, Messages DEF Types, IpcTypes
    <3>2. PcTypes'
      BY <1>0, <1>1, <1>2 DEF Types, PcTypes, Label
    <3>3. TtyTypes'
      BY <1>0, <1>1, <1>2 DEF Types, TtyTypes
    <3> QED
      BY <3>1, <3>2, <3>3
  <2>3. FsHas(u) /\ \A v \in Users : ~ FsHas(v)'
    BY <1>0, <1>1, <1>2, <2>1 DEF FsHas, Types, IpcTypes, PcTypes, TtyTypes
  <2>4. \A c \in Console : Live(c)' <=> Live(c)
    BY <1>0, <1>1, <1>2, <2>1 DEF Live, Types, IpcTypes, PcTypes, TtyTypes
  <2>5. \A v \in Users : v # u => (Waiting(v)' <=> Waiting(v))
    BY <1>0, <1>1, <1>2 DEF Waiting, Types, IpcTypes, PcTypes, TtyTypes
  <2>6. UsersWait'
    BY <1>0, <1>1, <1>2 DEF Protocol, UsersWait, Types, IpcTypes, PcTypes, TtyTypes, IsCall
  <2>7. TtyWaits' /\ FsWaits'
    BY <1>0, <1>1, <1>2, <2>1 DEF Protocol, TtyWaits, FsWaits, Types, IpcTypes, PcTypes, TtyTypes
  <2>8. FsMail'
    BY <1>0, <1>1, <1>2, <2>1 DEF Protocol, FsMail, Types, IpcTypes, PcTypes, TtyTypes
  <2>9. TtyMail'
    BY <1>0, <1>1, <1>2, <2>1 DEF Protocol, TtyMail, Types, IpcTypes, PcTypes, TtyTypes, FsAsked, IsRequest
  <2>10. Readers'
    BY <1>0, <1>1, <1>2, <2>3, <2>4, <2>5 DEF Protocol, Readers, Reader, IsLine
  <2>11. Owed'
    BY <1>0, <1>1, <1>2, <2>1, <2>3 DEF Owed, Types, IpcTypes, PcTypes, TtyTypes
  <2>s. Served'
    BY <1>0, <1>1, <1>2 DEF Protocol, Served, Alone, Waiting, Types, IpcTypes, PcTypes
  <2>12. ReplyIsWanted' /\ ReadReturnsLine'
    BY <1>0, <1>1, <1>2, <2>1 DEF ReplyIsWanted, ReadReturnsLine, Running, Types, IpcTypes, PcTypes, TtyTypes, Protocol, FsMail, IsLine
  <2> QED
    BY <2>s, <2>2, <2>6, <2>7, <2>8, <2>9, <2>10, <2>11, <2>12 DEF IInv, Protocol, Types
<1>3. CASE /\ wait[TASK_FS] # Sends(u) /\ has_int_msg' = has_int_msg
           /\ wait' = [wait EXCEPT ![u] = Receives(TASK_FS)]
           /\ mail' = [mail EXCEPT ![u] = NoMessage]
  <2>2. IpcTypes' /\ PcTypes' /\ TtyTypes'
    <3>1. IpcTypes'
      BY <1>0, <1>1, <1>3, Messages DEF Types, IpcTypes
    <3>2. PcTypes'
      BY <1>0, <1>1, <1>3 DEF Types, PcTypes, Label
    <3>3. TtyTypes'
      BY <1>0, <1>1, <1>3 DEF Types, TtyTypes
    <3> QED
      BY <3>1, <3>2, <3>3
  <2>3. (\A v \in Users : FsHas(v)' <=> FsHas(v)) /\ (SuspendSent' <=> SuspendSent)
    BY <1>0, <1>1, <1>3 DEF FsHas, SuspendSent, Types, IpcTypes, PcTypes, TtyTypes
  <2>4. \A c \in Console : Live(c)' <=> Live(c)
    BY <1>0, <1>1, <1>3 DEF Live, Types, IpcTypes, PcTypes, TtyTypes
  <2>5. \A v \in Users : Waiting(v)' <=> Waiting(v)
    BY <1>0, <1>1, <1>3 DEF Waiting, Types, IpcTypes, PcTypes, TtyTypes
  <2>6. UsersWait'
    BY <1>0, <1>1, <1>3 DEF Protocol, UsersWait, Types, IpcTypes, PcTypes, TtyTypes, IsCall
  <2>7. TtyWaits' /\ FsWaits'
    BY <1>0, <1>1, <1>3 DEF Protocol, TtyWaits, FsWaits, Types, IpcTypes, PcTypes, TtyTypes
  <2>8. FsMail'
    BY <1>0, <1>1, <1>3 DEF Protocol, FsMail, Types, IpcTypes, PcTypes, TtyTypes, IsCall, IsLine, IsRequest, IsAnswer
  <2>9. TtyMail'
    BY <1>0, <1>1, <1>3 DEF Protocol, TtyMail, Types, IpcTypes, PcTypes, TtyTypes, FsAsked, IsRequest
  <2>10. Readers'
    BY <1>0, <1>1, <1>3, <2>3, <2>4, <2>5 DEF Protocol, Readers, Reader, IsLine
  <2>11. Owed'
    BY <1>0, <1>1, <1>3, <2>3, <2>5 DEF Owed, Types, IpcTypes, PcTypes, TtyTypes, Protocol, FsMail
  <2>s. Served'
    BY <1>0, <1>1, <1>3, <2>3, <2>4, <2>5 DEF Protocol, Served, Alone
  <2>12. ReplyIsWanted' /\ ReadReturnsLine'
    BY <1>0, <1>1, <1>3 DEF ReplyIsWanted, ReadReturnsLine, Running, Types, IpcTypes, PcTypes, TtyTypes
  <2> QED
    BY <2>s, <2>2, <2>6, <2>7, <2>8, <2>9, <2>10, <2>11, <2>12 DEF IInv, Protocol, Types
<1> QED
  BY <1>0, <1>2, <1>3, ReceiveFrom

(* A call returns: the process is nobody's reader any more.                 *)
LEMMA UserReturnsStep ==
    ASSUME IInv, NEW u \in Users, UserReturns(u)
    PROVE  IInv'
<1> USE Processes, WaitValues
<1>0. /\ halted = "no" /\ wait[u] = Run /\ pc[u] = "return" /\ Types /\ Protocol
      /\ ReplyIsWanted /\ ReadReturnsLine
      /\ pc' = [pc EXCEPT ![u] = "user"]
      /\ mail' = [mail EXCEPT ![u] = NoMessage]
      /\ buf' = [buf EXCEPT ![u] = [i \in 1 .. MaxCount |-> "none"]]
      /\ line' = [line EXCEPT ![u] = <<>>]
      /\ UNCHANGED <<wait, has_int_msg, nr_current_console, in_buf, tty, p_tty, fs_src, fs_len,
                     asked, halted>>
  BY DEF UserReturns, At, Running, Goto, IInv, fsVars
<1>1. ~ Waiting(u) /\ ~ FsHas(u) /\ (pc[TASK_FS] \in {"both", "return"} => fs_src # u)
  BY <1>0 DEF Waiting, Protocol, Owed
<1>2. \A c \in Console : Live(c) => tty[c].procnr # u
  BY <1>0, <1>1 DEF Protocol, Readers, Reader
<1>3. IpcTypes' /\ PcTypes' /\ TtyTypes'
  <2>1. IpcTypes'
    BY <1>0, Messages DEF Types, IpcTypes
  <2>2. PcTypes'
    BY <1>0 DEF Types, PcTypes, Label
  <2>3. line' \in [Users -> Seq(Printable)]
    BY <1>0 DEF Types, TtyTypes
  <2>4. buf' \in [Users -> [1 .. MaxCount -> Printable \cup {"none"}]]
    <3>1. [i \in 1 .. MaxCount |-> "none"] \in [1 .. MaxCount -> Printable \cup {"none"}]
      OBVIOUS
    <3> QED
      BY <1>0, <3>1 DEF Types, TtyTypes
  <2>5. TtyTypes'
    BY <1>0, <2>3, <2>4 DEF Types, TtyTypes
  <2> QED
    BY <2>1, <2>2, <2>5
<1>4. (\A v \in Users : FsHas(v)' <=> FsHas(v)) /\ (SuspendSent' <=> SuspendSent)
  BY <1>0 DEF FsHas, SuspendSent, Types, IpcTypes, PcTypes
<1>5. \A c \in Console : Live(c)' <=> Live(c)
  BY <1>0 DEF Live, Types, PcTypes
<1>6. \A v \in Users : v # u => (Waiting(v)' <=> Waiting(v))
  BY <1>0 DEF Waiting, Types, PcTypes
<1>7. \A v \in Users : \A n : v # u /\ IsLine(v, n) => IsLine(v, n)'
  BY <1>0 DEF IsLine, Types, TtyTypes
<1>8. UsersWait'
  BY <1>0 DEF Protocol, UsersWait, Types, IpcTypes, PcTypes, IsCall
<1>9. TtyWaits' /\ FsWaits'
  BY <1>0 DEF Protocol, TtyWaits, FsWaits, Types, IpcTypes, PcTypes
<1>10. FsMail'
  <2>1. ASSUME pc[TASK_FS] = "serve" /\ wait[TASK_FS] = Run
        PROVE  \/ \E v \in Users : IsCall(mail[TASK_FS], v)'
               \/ /\ mail[TASK_FS].type = "RESUME_PROC"
                  /\ \E v \in Users : /\ mail[TASK_FS].PROC_NR = v
                                      /\ IsLine(v, mail[TASK_FS].CNT)'
    BY <1>0, <1>1, <1>7, <2>1 DEF Protocol, FsMail, Types, IpcTypes, PcTypes, IsCall, FsHas
  <2>2. ASSUME NEW v \in Users, wait[TASK_FS] = Sends(v), asked[v].call = "READ"
        PROVE  IsLine(v, mail[TASK_FS].CNT)'
    BY <1>0, <1>1, <1>7, <2>2 DEF Protocol, FsMail, FsHas, Types, IpcTypes
  <2> QED
    BY <1>0, <2>1, <2>2 DEF Protocol, FsMail, Types, IpcTypes, PcTypes, IsCall, IsRequest, IsAnswer
<1>11. TtyMail'
  BY <1>0 DEF Protocol, TtyMail, Types, IpcTypes, PcTypes, FsAsked, IsRequest
<1>12. Readers'
  BY <1>0, <1>2, <1>4, <1>5, <1>6, <1>7 DEF Protocol, Readers, Reader
<1>13. Owed'
  BY <1>0, <1>1, <1>4, <1>6 DEF Owed, Types, PcTypes, Protocol, FsMail
<1>s. Served'
  BY <1>0 DEF Protocol, Served, Alone, Waiting, Types, IpcTypes, PcTypes
<1>14. ReplyIsWanted' /\ ReadReturnsLine'
  BY <1>0, <1>1 DEF ReplyIsWanted, ReadReturnsLine, Running, Types, IpcTypes, PcTypes, TtyTypes, FsHas
<1> QED
  BY <1>s, <1>3, <1>8, <1>9, <1>10, <1>11, <1>12, <1>13, <1>14 DEF IInv, Protocol, Types

(* A panic leaves the processes as they are.                                *)
LEMMA PanicStep ==
    ASSUME IInv, halted' # "no", UNCHANGED <<wait, mail, has_int_msg, pc>>,
           TtyTypes', ReadReturnsLine'
    PROVE  IInv'
BY DEF IInv, Types, IpcTypes, PcTypes, ReplyIsWanted

(* A process calls open, read or write: the call reaches task_fs or waits   *)
(* in its queue, and no read of the process is left over.                   *)
LEMMA UserCallsStep ==
    ASSUME IInv, NEW u \in Users, NEW call \in Call, NEW c \in Console, NEW n \in 0 .. MaxCount,
           UserCalls(u, call, c, n)
    PROVE  IInv'
<1> USE Processes, WaitValues
<1> DEFINE m == [NoMessage EXCEPT !.type = call, !.DEVICE = c, !.CNT = n]
<1>0. /\ halted = "no" /\ wait[u] = Run /\ pc[u] = "user" /\ Types /\ Protocol
      /\ ReplyIsWanted /\ ReadReturnsLine
      /\ SendOrPanic(u, TASK_FS, m, "both")
      /\ asked' = [asked EXCEPT ![u] = [call |-> call, count |-> n]]
      /\ UNCHANGED <<nr_current_console, in_buf, tty, p_tty, fs_src, fs_len, line, buf>>
      /\ call = "READ" => n > 0
  BY DEF UserCalls, At, Running, Goto, IInv, fsVars, ttyVars, Call
<1>1. m \in Message /\ m.type = call /\ m.CNT = n
  BY Messages DEF Message, Call, Type
<1>2. TtyTypes'
  BY <1>0 DEF Types, TtyTypes
<1>3. CASE Panic(u, TASK_FS)
  <2>1. ReadReturnsLine'
    BY <1>0, <1>3 DEF ReadReturnsLine, Types, TtyTypes, Panic, ipcVars, Running
  <2> QED
    BY <1>2, <1>3, <2>1, PanicStep DEF Panic, ipcVars
<1>4. CASE Send(u, TASK_FS, m) /\ Goto(u, "both") /\ UNCHANGED halted
  <2> HIDE DEF m
  <2>1. PICK st \in Message : /\ st.type = call /\ st.source = u /\ st.CNT = n
                              /\ Sent(u, TASK_FS, st)
    BY <1>1, <1>4, SendEffect
  <2>2. pc' = [pc EXCEPT ![u] = "both"] /\ halted' = halted
    BY <1>4 DEF Goto
  <2>3. ~ Waiting(u) /\ ~ FsHas(u) /\ (pc[TASK_FS] \in {"both", "return"} => fs_src # u)
    BY <1>0 DEF Waiting, Protocol, Owed
  <2>4. \A d \in Console : Live(d) => tty[d].procnr # u
    BY <1>0, <2>3 DEF Protocol, Readers, Reader
  <2>5. PcTypes'
    BY <1>0, <2>2 DEF Types, PcTypes, Label
  <2>6. /\ asked'[u].call = call /\ asked'[u].count = n
        /\ \A v \in Users : v # u => asked'[v] = asked[v]
    BY <1>0 DEF Types, TtyTypes
  <2>7. \A d \in Console : Live(d)' <=> Live(d)
    BY <1>0, <2>1, <2>2 DEF Live, Types, PcTypes, IpcTypes, Sent
  <2>8. \A v \in Users : \A k : v # u /\ IsLine(v, k) => IsLine(v, k)'
    BY <1>0, <2>6 DEF IsLine
  <2>9. CASE /\ wait[TASK_FS] = Receives(ANY) /\ has_int_msg' = has_int_msg
             /\ mail' = [mail EXCEPT ![u] = NoMessage, ![TASK_FS] = st]
             /\ wait' = [wait EXCEPT ![TASK_FS] = Run]
    <3>1. pc[TASK_FS] = "serve"
      BY <1>0, <2>9 DEF Protocol, FsWaits, Types, PcTypes
    <3>2. IpcTypes'
      BY <1>0, <2>1, <2>9, Messages DEF Types, IpcTypes
    <3>3. st.type # "RESUME_PROC"
      BY <2>1 DEF Call
    <3>4. \A v \in Users : FsHas(v)' <=> v = u
      BY <1>0, <2>1, <2>2, <2>9, <3>1, <3>3 DEF FsHas, Types, IpcTypes, PcTypes
    <3>5. Waiting(u)' /\ \A v \in Users : v # u => (Waiting(v)' <=> Waiting(v))
      BY <1>0, <2>1, <2>2, <2>9 DEF Waiting, Types, IpcTypes, PcTypes
    <3>6. UsersWait'
      BY <1>0, <2>2, <2>6, <2>9 DEF Protocol, UsersWait, Types, IpcTypes, PcTypes, IsCall
    <3>7. TtyWaits' /\ FsWaits'
      BY <1>0, <2>2, <2>9, <3>1 DEF Protocol, TtyWaits, FsWaits, Types, IpcTypes, PcTypes
    <3>8. FsMail'
      BY <1>0, <2>1, <2>2, <2>6, <2>9, <3>1 DEF FsMail, Types, IpcTypes, PcTypes, IsCall
    <3>9. TtyMail'
      BY <1>0, <2>2, <2>9, <3>1 DEF Protocol, TtyMail, Types, IpcTypes, PcTypes, FsAsked
    <3>10. Readers'
      BY <1>0, <2>4, <2>6, <2>7, <2>8, <3>4, <3>5 DEF Protocol, Readers, Reader
    <3>11. Owed'
      BY <1>0, <2>2, <3>1, <3>4, <3>5 DEF Owed, Types, PcTypes
    <3>s. Served'
      BY <3>4 DEF Protocol, Served, Alone
    <3>12. ReplyIsWanted' /\ ReadReturnsLine'
      BY <1>0, <2>2, <2>6, <2>9 DEF ReplyIsWanted, ReadReturnsLine, Running, Types, IpcTypes, PcTypes
    <3> QED
      BY <3>s, <1>2, <2>5, <3>2, <3>6, <3>7, <3>8, <3>9, <3>10, <3>11, <3>12 DEF IInv, Protocol, Types
  <2>10. CASE /\ wait[TASK_FS] # Receives(ANY) /\ has_int_msg' = has_int_msg
              /\ mail' = [mail EXCEPT ![u] = st]
              /\ wait' = [wait EXCEPT ![u] = Sends(TASK_FS)]
    <3>2. IpcTypes'
      BY <1>0, <2>1, <2>10, Messages DEF Types, IpcTypes
    <3>4. (\A v \in Users : FsHas(v)' <=> FsHas(v)) /\ (SuspendSent' <=> SuspendSent)
      BY <1>0, <2>2, <2>10 DEF FsHas, SuspendSent, Types, IpcTypes, PcTypes
    <3>5. \A v \in Users : v # u => (Waiting(v)' <=> Waiting(v))
      BY <1>0, <2>1, <2>2, <2>10 DEF Waiting, Types, IpcTypes, PcTypes
    <3>6. UsersWait'
      BY <1>0, <2>1, <2>2, <2>6, <2>10 DEF Protocol, UsersWait, Types, IpcTypes, PcTypes, IsCall
    <3>7. TtyWaits' /\ FsWaits'
      BY <1>0, <2>2, <2>10 DEF Protocol, TtyWaits, FsWaits, Types, IpcTypes, PcTypes
    <3>8. FsMail'
      <4>1. ASSUME pc[TASK_FS] = "serve" /\ wait[TASK_FS] = Run
            PROVE  \/ \E v \in Users : IsCall(mail[TASK_FS], v)'
                   \/ /\ mail[TASK_FS].type = "RESUME_PROC"
                      /\ \E v \in Users : /\ mail[TASK_FS].PROC_NR = v
                                          /\ IsLine(v, mail[TASK_FS].CNT)'
        <5>1. mail'[TASK_FS] = mail[TASK_FS]
          BY <1>0, <2>10 DEF Types, IpcTypes
        <5>2. ASSUME NEW v \in Users, IsCall(mail[TASK_FS], v)
              PROVE  IsCall(mail[TASK_FS], v)'
          <6>1. FsHas(v)
            <7>1. mail[TASK_FS].type # "RESUME_PROC"
              BY <1>0, <5>2 DEF IsCall, Types, TtyTypes, Call
            <7> QED
              BY <4>1, <5>2, <7>1 DEF FsHas, IsCall
          <6> QED
            BY <2>3, <2>6, <5>1, <5>2, <6>1 DEF IsCall
        <5>3. ASSUME NEW v \in Users, mail[TASK_FS].type = "RESUME_PROC",
                     mail[TASK_FS].PROC_NR = v, IsLine(v, mail[TASK_FS].CNT)
              PROVE  IsLine(v, mail[TASK_FS].CNT)'
          BY <2>3, <2>8, <4>1, <5>1, <5>3 DEF FsHas
        <5> QED
          BY <1>0, <4>1, <5>2, <5>3 DEF Protocol, FsMail
      <4>2. ASSUME NEW v \in Users, wait[TASK_FS] = Sends(v), asked'[v].call = "READ"
            PROVE  IsLine(v, mail[TASK_FS].CNT)'
        BY <1>0, <2>3, <2>6, <2>8, <2>10, <4>2 DEF Protocol, FsMail, FsHas, Types, IpcTypes
      <4>3. ASSUME pc[TASK_FS] \in {"both", "return"}
            PROVE  asked'[fs_src] = asked[fs_src]
        BY <1>0, <2>3, <2>6, <4>3 DEF Protocol, FsMail
      <4>4. wait[TASK_FS] = Sends(TASK_TTY) => pc[TASK_FS] = "both"
        BY <1>0 DEF Protocol, FsWaits, Types, PcTypes
      <4> QED
        BY <1>0, <2>2, <2>10, <4>1, <4>2, <4>3, <4>4
           DEF Protocol, FsMail, Types, IpcTypes, PcTypes, IsCall, IsRequest, IsAnswer
    <3>9. TtyMail'
      <4>1. FsAsked => asked'[fs_src] = asked[fs_src]
        BY <1>0, <2>3, <2>6 DEF Protocol, FsMail, FsAsked
      <4> QED
        BY <1>0, <2>2, <2>10, <4>1 DEF Protocol, TtyMail, Types, IpcTypes, PcTypes, FsAsked, IsRequest
    <3>10. Readers'
      BY <1>0, <2>4, <2>6, <2>7, <2>8, <3>4, <3>5 DEF Protocol, Readers, Reader
    <3>11. Owed'
      BY <1>0, <2>2, <2>3, <3>4, <3>5 DEF Owed, Types, PcTypes, Protocol, FsMail
    <3>s. Served'
      BY <1>0, <2>2, <2>10 DEF Protocol, Served, Alone, Waiting, Types, IpcTypes, PcTypes
    <3>12. ReplyIsWanted' /\ ReadReturnsLine'
      BY <1>0, <2>2, <2>3, <2>6, <2>10
         DEF ReplyIsWanted, ReadReturnsLine, Running, Types, IpcTypes, PcTypes, FsHas
    <3> QED
      BY <3>s, <1>2, <2>5, <3>2, <3>6, <3>7, <3>8, <3>9, <3>10, <3>11, <3>12 DEF IInv, Protocol, Types
  <2> QED
    <3>1. wait[TASK_FS] # Receives(u)
      BY <1>0 DEF Protocol, FsWaits, Types, PcTypes
    <3> QED
      BY <2>1, <2>9, <2>10, <3>1 DEF Sent
<1> QED
  BY <1>0, <1>3, <1>4 DEF SendOrPanic

-----------------------------------------------------------------------------
(* The steps of task_fs *)

(* task_fs receives a call, or the resume of a read (fs/main.c).            *)
LEMMA FsReceiveStep ==
    ASSUME IInv, FsReceive
    PROVE  IInv'
<1> USE Processes, WaitValues
<1>0. /\ halted = "no" /\ wait[TASK_FS] = Run /\ pc[TASK_FS] = "receive" /\ Types /\ Protocol
      /\ ReplyIsWanted /\ ReadReturnsLine
      /\ Receive(TASK_FS, ANY, HardInt)
      /\ pc' = [pc EXCEPT ![TASK_FS] = "serve"]
      /\ UNCHANGED <<nr_current_console, in_buf, tty, line, buf, p_tty, fs_src, fs_len, asked, halted>>
  BY DEF FsReceive, At, Running, Goto, IInv, ttyVars, fsVars
<1>1. PcTypes' /\ TtyTypes'
  BY <1>0 DEF Types, PcTypes, TtyTypes, Label
<1>2. \A u, n : IsLine(u, n)' <=> IsLine(u, n)
  BY <1>0 DEF IsLine
<1>3. ~ has_int_msg[TASK_FS]
  BY <1>0 DEF Protocol, FsWaits
<1>4. ASSUME NEW s \in Proc, wait[s] = Sends(TASK_FS), has_int_msg' = has_int_msg,
             mail' = [mail EXCEPT ![s] = NoMessage, ![TASK_FS] = mail[s]],
             wait' = [wait EXCEPT ![s] = Run]
      PROVE  IInv'
  <2>0. s # TASK_FS
    BY <1>0, <1>4
  <2>1. IpcTypes'
    BY <1>0, <1>4, Messages DEF Types, IpcTypes
  <2>2. TtyWaits' /\ FsWaits'
    BY <1>0, <1>4, <2>0 DEF Protocol, TtyWaits, FsWaits, Types, IpcTypes, PcTypes
  <2>3. UsersWait'
    BY <1>0, <1>4, <2>0 DEF Protocol, UsersWait, Types, IpcTypes, PcTypes, IsCall
  <2>4. ReplyIsWanted' /\ ReadReturnsLine'
    BY <1>0, <1>4, <2>0 DEF ReplyIsWanted, ReadReturnsLine, Running, Types, IpcTypes, PcTypes,
                            Protocol, UsersWait
  <2>5. CASE s \in Users
    <3>1. IsCall(mail[s], s) /\ pc[s] = "both"
      BY <1>0, <1>4, <2>5 DEF Protocol, UsersWait, Types, PcTypes
    <3>2. mail[s].type # "RESUME_PROC" /\ mail'[TASK_FS] = mail[s] /\ mail[s].source = s
      BY <1>0, <1>4, <2>5, <3>1 DEF IsCall, Types, TtyTypes, IpcTypes, Call
    <3>3. \A v \in Users : FsHas(v)' <=> v = s
      BY <1>0, <1>4, <2>0, <3>2 DEF FsHas, Types, IpcTypes, PcTypes
    <3>4. Waiting(s)' /\ ~ Waiting(s) /\ \A v \in Users : v # s => (Waiting(v)' <=> Waiting(v))
      BY <1>0, <1>4, <2>5, <3>1 DEF Waiting, Types, IpcTypes, PcTypes
    <3>5. \A c \in Console : Live(c)' <=> Live(c)
      BY <1>0, <1>4, <2>5 DEF Live, Types, PcTypes, IpcTypes
    <3>6. FsMail'
      <4>1. IsCall(mail[TASK_FS], s)'
        BY <1>0, <3>1, <3>2 DEF IsCall
      <4> QED
        BY <1>0, <1>4, <2>0, <2>5, <4>1 DEF FsMail, Types, IpcTypes, PcTypes
    <3>7. TtyMail'
      BY <1>0, <1>4, <2>5 DEF Protocol, TtyMail, Types, IpcTypes, PcTypes, FsAsked
    <3>8. Readers'
      BY <1>0, <1>2, <3>3, <3>4, <3>5 DEF Protocol, Readers, Reader
    <3>9. Owed'
      BY <1>0, <2>5, <3>3, <3>4 DEF Owed, Types, PcTypes
    <3>s. Served'
      BY <2>5, <3>3 DEF Protocol, Served, Alone
    <3> QED
      BY <3>s, <1>1, <2>1, <2>2, <2>3, <2>4, <3>6, <3>7, <3>8, <3>9 DEF IInv, Protocol, Types
  <2>6. CASE s = TASK_TTY
    <3>1. pc[TASK_TTY] = "resumed" /\ Live(p_tty)
      BY <1>0, <1>4, <2>6 DEF Protocol, TtyWaits, TtyMail, Types, PcTypes, Live
    <3>2. PICK r : r = tty[p_tty].procnr
      OBVIOUS
    <3>3. /\ mail[s].type = "RESUME_PROC" /\ mail[s].PROC_NR = r /\ mail[s].CNT = tty[p_tty].trans
          /\ mail'[TASK_FS] = mail[s]
      BY <1>0, <1>4, <2>6, <3>1, <3>2 DEF Protocol, TtyMail, Types, IpcTypes
    <3>4. p_tty \in Console /\ r \in Users /\ Waiting(r) /\ IsLine(r, tty[p_tty].trans)
      BY <1>0, <3>1, <3>2 DEF Protocol, Readers, Reader, Types, TtyTypes
    <3>5. \A v \in Users : FsHas(v)' <=> v = r
      BY <1>0, <1>4, <2>0, <3>3 DEF FsHas, Types, IpcTypes, PcTypes
    <3>6. \A v \in Users : Waiting(v)' <=> Waiting(v)
      BY <1>0, <1>4, <2>6 DEF Waiting, Types, IpcTypes, PcTypes
    <3>7. \A c \in Console : Live(c)' <=> Live(c) /\ c # p_tty
      BY <1>0, <1>4, <2>6, <3>1 DEF Live, Types, PcTypes, IpcTypes
    <3>8. FsMail'
      <4>1. mail'[TASK_FS].PROC_NR = r /\ IsLine(r, mail[TASK_FS].CNT)'
        BY <1>0, <3>3, <3>4 DEF IsLine
      <4> QED
        BY <1>0, <1>4, <2>0, <3>3, <3>4, <4>1 DEF FsMail, Types, IpcTypes, PcTypes
    <3>9. TtyMail'
      BY <1>0, <1>4, <2>6, <3>1 DEF Protocol, TtyMail, Types, IpcTypes, PcTypes, FsAsked
    <3>10. Readers'
      <4>1. \A c \in Console : Live(c) /\ c # p_tty => tty[c].procnr # r
        BY <1>0, <3>1, <3>2, <3>4 DEF Protocol, Readers, Reader
      <4> QED
        BY <1>0, <1>2, <3>5, <3>6, <3>7, <4>1 DEF Protocol, Readers, Reader
    <3>11. Owed'
      BY <1>0, <3>4, <3>5, <3>6 DEF Owed, Types, PcTypes
    <3>s. Served'
      BY <3>4, <3>5 DEF Protocol, Served, Alone
    <3> QED
      BY <3>s, <1>1, <2>1, <2>2, <2>3, <2>4, <3>8, <3>9, <3>10, <3>11 DEF IInv, Protocol, Types
  <2> QED
    BY <2>0, <2>5, <2>6
<1>5. CASE /\ has_int_msg' = has_int_msg
           /\ wait' = [wait EXCEPT ![TASK_FS] = Receives(ANY)]
           /\ mail' = [mail EXCEPT ![TASK_FS] = NoMessage]
  <2>1. IpcTypes'
    BY <1>0, <1>5, Messages DEF Types, IpcTypes
  <2>2. TtyWaits' /\ FsWaits'
    BY <1>0, <1>5 DEF Protocol, TtyWaits, FsWaits, Types, IpcTypes, PcTypes
  <2>3. UsersWait'
    BY <1>0, <1>5 DEF Protocol, UsersWait, Types, IpcTypes, PcTypes, IsCall
  <2>4. ReplyIsWanted' /\ ReadReturnsLine'
    BY <1>0, <1>5 DEF ReplyIsWanted, ReadReturnsLine, Running, Types, IpcTypes, PcTypes
  <2>5. \A v \in Users : ~ FsHas(v)'
    BY <1>0, <1>5 DEF FsHas, Types, IpcTypes, PcTypes
  <2>6. \A v \in Users : Waiting(v)' <=> Waiting(v)
    BY <1>0, <1>5 DEF Waiting, Types, IpcTypes, PcTypes
  <2>7. \A c \in Console : Live(c)' <=> Live(c)
    BY <1>0, <1>5 DEF Live, Types, PcTypes, IpcTypes
  <2>8. FsMail'
    BY <1>0, <1>5 DEF FsMail, Types, IpcTypes, PcTypes
  <2>9. TtyMail'
    BY <1>0, <1>5 DEF Protocol, TtyMail, Types, IpcTypes, PcTypes, FsAsked
  <2>10. Readers'
    BY <1>0, <1>2, <2>5, <2>6, <2>7 DEF Protocol, Readers, Reader
  <2>11. Owed'
    BY <1>0, <2>5 DEF Owed, Types, PcTypes
  <2>s. Served'
    BY <1>0, <2>6, <2>7 DEF Protocol, Served, Alone, FsHas
  <2> QED
    BY <2>s, <1>1, <2>1, <2>2, <2>3, <2>4, <2>8, <2>9, <2>10, <2>11 DEF IInv, Protocol, Types
<1> QED
  BY <1>0, <1>3, <1>4, <1>5, ReceiveAny

(* task_fs has sent its request to task_tty and receives the answer:        *)
(* task_tty waits to send it, or has yet to serve the request.              *)
LEMMA FsBothStep ==
    ASSUME IInv, FsBoth
    PROVE  IInv'
<1> USE Processes, WaitValues
<1>0. /\ halted = "no" /\ wait[TASK_FS] = Run /\ pc[TASK_FS] = "both" /\ Types /\ Protocol
      /\ ReplyIsWanted /\ ReadReturnsLine
      /\ Receive(TASK_FS, TASK_TTY, HardInt)
      /\ pc' = [pc EXCEPT ![TASK_FS] = "return"]
      /\ UNCHANGED <<nr_current_console, in_buf, tty, line, buf, p_tty, fs_src, fs_len, asked, halted>>
  BY DEF FsBoth, At, Running, Goto, IInv, ttyVars, fsVars
<1>1. PcTypes' /\ TtyTypes'
  BY <1>0 DEF Types, PcTypes, TtyTypes, Label
<1>2. \A u, n : IsLine(u, n)' <=> IsLine(u, n)
  BY <1>0 DEF IsLine
<1>3. fs_src \in Users
  BY <1>0 DEF Protocol, FsMail
<1>4. CASE /\ wait[TASK_TTY] = Sends(TASK_FS) /\ has_int_msg' = has_int_msg
           /\ mail' = [mail EXCEPT ![TASK_TTY] = NoMessage, ![TASK_FS] = mail[TASK_TTY]]
           /\ wait' = [wait EXCEPT ![TASK_TTY] = Run]
  <2>1. pc[TASK_TTY] = "read" /\ IsAnswer(mail[TASK_TTY]) /\ mail'[TASK_FS] = mail[TASK_TTY]
    BY <1>0, <1>4 DEF Protocol, FsMail, Types, IpcTypes
  <2>2. IpcTypes'
    BY <1>0, <1>4, Messages DEF Types, IpcTypes
  <2>3. SuspendSent' <=> SuspendSent
    BY <1>0, <1>4, <2>1 DEF SuspendSent, Types, IpcTypes, PcTypes
  <2>4. \A v \in Users : FsHas(v)' <=> FsHas(v)
    BY <1>0, <1>4, <2>3 DEF FsHas, Types, IpcTypes, PcTypes
  <2>5. \A v \in Users : Waiting(v)' <=> Waiting(v)
    BY <1>0, <1>4 DEF Waiting, Types, IpcTypes, PcTypes
  <2>6. \A c \in Console : Live(c)' <=> Live(c)
    BY <1>0, <1>4, <2>1 DEF Live, Types, PcTypes, IpcTypes
  <2>7. TtyWaits' /\ FsWaits' /\ UsersWait'
    BY <1>0, <1>4, <2>1 DEF Protocol, TtyWaits, FsWaits, UsersWait, IsCall, Types, IpcTypes, PcTypes
  <2>8. FsMail'
    BY <1>0, <1>3, <1>4, <2>1 DEF FsMail, IsAnswer, Types, IpcTypes, PcTypes
  <2>9. TtyMail'
    BY <1>0, <1>4, <2>1 DEF TtyMail, Types, IpcTypes, PcTypes
  <2>10. Readers'
    BY <1>0, <1>2, <2>4, <2>5, <2>6 DEF Protocol, Readers, Reader
  <2>11. Owed'
    BY <1>0, <1>3, <2>4, <2>5 DEF Protocol, Owed, Types, PcTypes
  <2>s. Served'
    BY <1>0, <2>4, <2>5, <2>6 DEF Protocol, Served, Alone
  <2>12. ReplyIsWanted' /\ ReadReturnsLine'
    BY <1>0, <1>4 DEF ReplyIsWanted, ReadReturnsLine, Running, Types, IpcTypes, PcTypes
  <2> QED
    BY <2>s, <1>1, <2>2, <2>7, <2>8, <2>9, <2>10, <2>11, <2>12 DEF IInv, Protocol, Types
<1>5. CASE /\ wait[TASK_TTY] # Sends(TASK_FS) /\ has_int_msg' = has_int_msg
           /\ wait' = [wait EXCEPT ![TASK_FS] = Receives(TASK_TTY)]
           /\ mail' = [mail EXCEPT ![TASK_FS] = NoMessage]
  <2>1. pc[TASK_TTY] = "serve" /\ wait[TASK_TTY] = Run /\ mail[TASK_TTY].type # "HARD_INT"
    BY <1>0, <1>5 DEF Protocol, FsMail
  <2>2. IpcTypes'
    BY <1>0, <1>5, Messages DEF Types, IpcTypes
  <2>3. ~ SuspendSent' /\ ~ SuspendSent
    BY <1>0, <1>5, <2>1 DEF SuspendSent, Types, IpcTypes, PcTypes
  <2>4. \A v \in Users : FsHas(v)' <=> FsHas(v)
    BY <1>0, <1>5, <2>3 DEF FsHas, Types, IpcTypes, PcTypes
  <2>5. \A v \in Users : Waiting(v)' <=> Waiting(v)
    BY <1>0, <1>5 DEF Waiting, Types, IpcTypes, PcTypes
  <2>6. \A c \in Console : Live(c)' <=> Live(c)
    BY <1>0, <1>5, <2>1 DEF Live, Types, PcTypes, IpcTypes
  <2>7. TtyWaits' /\ FsWaits' /\ UsersWait'
    BY <1>0, <1>5, <2>1 DEF Protocol, TtyWaits, FsWaits, UsersWait, IsCall, Types, IpcTypes, PcTypes
  <2>8. FsMail'
    BY <1>0, <1>3, <1>5, <2>1 DEF FsMail, Types, IpcTypes, PcTypes
  <2>9. TtyMail'
    BY <1>0, <1>5, <2>1 DEF Protocol, TtyMail, FsAsked, IsRequest, Types, IpcTypes, PcTypes
  <2>10. Readers'
    BY <1>0, <1>2, <2>4, <2>5, <2>6 DEF Protocol, Readers, Reader
  <2>11. Owed'
    BY <1>0, <1>3, <2>4, <2>5 DEF Protocol, Owed, Types, PcTypes
  <2>s. Served'
    BY <1>0, <2>4, <2>5, <2>6 DEF Protocol, Served, Alone
  <2>12. ReplyIsWanted' /\ ReadReturnsLine'
    BY <1>0, <1>5 DEF ReplyIsWanted, ReadReturnsLine, Running, Types, IpcTypes, PcTypes
  <2> QED
    BY <2>s, <1>1, <2>2, <2>7, <2>8, <2>9, <2>10, <2>11, <2>12 DEF IInv, Protocol, Types
<1> QED
  BY <1>0, <1>4, <1>5, ReceiveFrom

(* task_fs sends an answer that the process u waits for.                    *)
LEMMA FsReply ==
    ASSUME IInv, halted = "no", NEW u \in Users, FsHas(u), wait[TASK_FS] = Run,
           pc[TASK_FS] \in {"serve", "return"},
           NEW st \in Message, Sent(TASK_FS, u, st),
           asked[u].call = "READ" => IsLine(u, st.CNT),
           pc' = [pc EXCEPT ![TASK_FS] = "receive"], fs_src' \in Proc, fs_len' \in 0 .. MaxCount,
           UNCHANGED <<nr_current_console, in_buf, tty, line, buf, p_tty, asked, halted>>
    PROVE  IInv'
<1> USE Processes, WaitValues
<1>0. Types /\ Protocol /\ ReplyIsWanted /\ ReadReturnsLine /\ Waiting(u)
  BY DEF IInv, Protocol, Owed
<1>1. PcTypes' /\ TtyTypes'
  BY <1>0 DEF Types, PcTypes, TtyTypes, Label
<1>2. \A v, n : IsLine(v, n)' <=> IsLine(v, n)
  BY DEF IsLine
<1>3. \A c \in Console : Live(c) => tty[c].procnr # u
  BY <1>0 DEF Protocol, Readers, Reader
<1>4. /\ wait[TASK_TTY] = Sends(TASK_FS) => pc[TASK_TTY] = "resumed"
      /\ ~ FsAsked
  BY <1>0 DEF Protocol, TtyMail, TtyWaits, Types, PcTypes, FsAsked
<1>5. CASE /\ wait[u] = Receives(TASK_FS) /\ has_int_msg' = has_int_msg
           /\ mail' = [mail EXCEPT ![TASK_FS] = NoMessage, ![u] = st]
           /\ wait' = [wait EXCEPT ![u] = Run]
  <2>1. pc[u] = "return"
    BY <1>0, <1>5 DEF Waiting
  <2>2. IpcTypes'
    BY <1>0, <1>5, Messages DEF Types, IpcTypes
  <2>3. \A v \in Users : ~ FsHas(v)'
    BY <1>0, <1>5 DEF FsHas, Types, IpcTypes, PcTypes
  <2>4. \A v \in Users : v # u => (Waiting(v)' <=> Waiting(v))
    BY <1>0, <1>5 DEF Waiting, Types, IpcTypes, PcTypes
  <2>5. \A c \in Console : Live(c)' <=> Live(c)
    BY <1>0, <1>5 DEF Live, Types, PcTypes, IpcTypes
  <2>6. TtyWaits' /\ FsWaits' /\ UsersWait'
    BY <1>0, <1>5, <2>1 DEF Protocol, TtyWaits, FsWaits, UsersWait, IsCall, Types, IpcTypes, PcTypes
  <2>7. FsMail'
    BY <1>0, <1>5 DEF FsMail, Types, IpcTypes, PcTypes
  <2>8. TtyMail'
    BY <1>0, <1>4, <1>5 DEF Protocol, TtyMail, Types, IpcTypes, PcTypes
  <2>9. Readers'
    BY <1>0, <1>2, <1>3, <2>3, <2>4, <2>5 DEF Protocol, Readers, Reader
  <2>10. Owed'
    BY <1>0, <2>3 DEF Owed, Types, PcTypes
  <2>s. Served'
    BY <1>0, <1>5, <2>1 DEF Protocol, Served, Alone, Waiting, Types, IpcTypes, PcTypes
  <2>11. ReplyIsWanted' /\ ReadReturnsLine'
    BY <1>0, <1>5 DEF ReplyIsWanted, ReadReturnsLine, Running, IsLine, Types, IpcTypes, PcTypes
  <2> QED
    BY <2>s, <1>1, <2>2, <2>6, <2>7, <2>8, <2>9, <2>10, <2>11 DEF IInv, Protocol, Types
<1>6. CASE /\ wait[u] # Receives(TASK_FS) /\ has_int_msg' = has_int_msg
           /\ mail' = [mail EXCEPT ![TASK_FS] = st]
           /\ wait' = [wait EXCEPT ![TASK_FS] = Sends(u)]
  <2>1. pc[u] = "both"
    BY <1>0, <1>6 DEF Waiting
  <2>2. IpcTypes'
    BY <1>0, <1>6, Messages DEF Types, IpcTypes
  <2>3. \A v \in Users : FsHas(v)' <=> v = u
    BY <1>0, <1>6 DEF FsHas, Types, IpcTypes, PcTypes
  <2>4. \A v \in Users : Waiting(v)' <=> Waiting(v)
    BY <1>0, <1>6 DEF Waiting, Types, IpcTypes, PcTypes
  <2>5. \A c \in Console : Live(c)' <=> Live(c)
    BY <1>0, <1>6 DEF Live, Types, PcTypes, IpcTypes
  <2>6. TtyWaits' /\ FsWaits' /\ UsersWait'
    BY <1>0, <1>6 DEF Protocol, TtyWaits, FsWaits, UsersWait, IsCall, Types, IpcTypes, PcTypes
  <2>7. FsMail'
    <3>1. asked[u].call = "READ" => IsLine(u, mail[TASK_FS].CNT)'
      BY <1>0, <1>6 DEF IsLine, Types, IpcTypes
    <3> QED
      BY <1>0, <1>6, <3>1 DEF FsMail, Types, IpcTypes, PcTypes
  <2>8. TtyMail'
    BY <1>0, <1>4, <1>6 DEF Protocol, TtyMail, Types, IpcTypes, PcTypes
  <2>9. Readers'
    BY <1>0, <1>2, <1>3, <2>3, <2>4, <2>5 DEF Protocol, Readers, Reader
  <2>10. Owed'
    BY <1>0, <2>3, <2>4 DEF Owed, Types, PcTypes
  <2>s. Served'
    BY <2>3 DEF Protocol, Served, Alone
  <2>11. ReplyIsWanted' /\ ReadReturnsLine'
    BY <1>0, <1>6, <2>1 DEF ReplyIsWanted, ReadReturnsLine, Running, IsLine, Types, IpcTypes, PcTypes
  <2> QED
    BY <2>s, <1>1, <2>2, <2>6, <2>7, <2>8, <2>9, <2>10, <2>11 DEF IInv, Protocol, Types
<1>7. wait[u] # Receives(ANY)
  BY <1>0 DEF Waiting
<1> QED
  BY <1>5, <1>6, <1>7 DEF Sent

(* An answer that may make task_fs panic instead.                           *)
LEMMA FsReplyOrPanic ==
    ASSUME IInv, halted = "no", NEW u \in Users, FsHas(u), wait[TASK_FS] = Run,
           pc[TASK_FS] \in {"serve", "return"},
           NEW m \in Message, asked[u].call = "READ" => IsLine(u, m.CNT),
           SendOrPanic(TASK_FS, u, m, "receive"),
           fs_src' \in Proc, fs_len' \in 0 .. MaxCount,
           UNCHANGED <<nr_current_console, in_buf, tty, line, buf, p_tty, asked>>
    PROVE  IInv'
<1> USE Processes
<1>1. CASE Panic(TASK_FS, u)
  <2>1. TtyTypes'
    BY DEF IInv, Types, TtyTypes
  <2>2. ReadReturnsLine'
    BY <1>1 DEF IInv, ReadReturnsLine, Panic, ipcVars, Running
  <2> QED
    BY <1>1, <2>1, <2>2, PanicStep DEF Panic, ipcVars
<1>2. CASE Send(TASK_FS, u, m) /\ Goto(TASK_FS, "receive") /\ UNCHANGED halted
  <2>1. PICK st \in Message : st.CNT = m.CNT /\ Sent(TASK_FS, u, st)
    BY <1>2, SendEffect
  <2> QED
    BY <1>2, <2>1, FsReply DEF Goto
<1> QED
  BY <1>1, <1>2 DEF SendOrPanic

(* RESUME_PROC: task_fs wakes the reader with the count of its line.        *)
LEMMA FsResumeStep ==
    ASSUME IInv, FsResume
    PROVE  IInv'
<1> USE Processes, WaitValues
<1>0. /\ halted = "no" /\ wait[TASK_FS] = Run /\ pc[TASK_FS] = "serve" /\ Types /\ Protocol
      /\ mail[TASK_FS].type = "RESUME_PROC"
      /\ SendOrPanic(TASK_FS, mail[TASK_FS].PROC_NR,
                     [mail[TASK_FS] EXCEPT !.type = "SYSCALL_RET"], "receive")
      /\ UNCHANGED <<nr_current_console, in_buf, tty, line, buf, p_tty, fs_src, fs_len, asked>>
  BY DEF FsResume, At, Running, IInv, ttyVars, fsVars
<1>1. PICK x \in Message : x = mail[TASK_FS]
  BY <1>0 DEF Types, IpcTypes
<1>2. PICK m : m = [x EXCEPT !.type = "SYSCALL_RET"]
  OBVIOUS
<1>3. m \in Message /\ m.CNT = x.CNT
  BY <1>2 DEF Message, Type
<1>4. PICK u \in Users : x.PROC_NR = u /\ IsLine(u, x.CNT)
  <2>1. \A v \in Users : ~ IsCall(mail[TASK_FS], v)
    BY <1>0 DEF IsCall, Types, TtyTypes, Call
  <2> QED
    BY <1>0, <1>1, <2>1 DEF Protocol, FsMail
<1>5. FsHas(u)
  BY <1>0, <1>1, <1>4 DEF FsHas
<1> QED
  BY <1>0, <1>1, <1>2, <1>3, <1>4, <1>5, FsReplyOrPanic DEF Types, TtyTypes

(* task_fs gets the answer of task_tty: a write is answered at once, a read *)
(* is suspended and becomes the reader of its tty.                          *)
LEMMA FsReturnStep ==
    ASSUME IInv, FsReturn
    PROVE  IInv'
<1> USE Processes, WaitValues
<1>0. /\ halted = "no" /\ wait[TASK_FS] = Run /\ pc[TASK_FS] = "return" /\ Types /\ Protocol
      /\ ReplyIsWanted /\ ReadReturnsLine
      /\ fs_src' = TASK_FS /\ fs_len' = 0
      /\ UNCHANGED <<nr_current_console, in_buf, tty, line, buf, p_tty, asked>>
      /\ IsAnswer(mail[TASK_FS]) /\ fs_src \in Users
  BY DEF FsReturn, At, Running, IInv, ttyVars, Protocol, FsMail
<1>1. TtyTypes'
  BY <1>0, TerminalAssumption DEF Types, TtyTypes
<1>2. CASE halted' = "read_write.c:50" /\ UNCHANGED <<ipcVars, pc>>
  <2>1. ReadReturnsLine'
    BY <1>0, <1>2 DEF ReadReturnsLine, ipcVars, Running
  <2> QED
    BY <1>1, <1>2, <2>1, PanicStep DEF ipcVars
<1>3. CASE /\ mail[TASK_FS].type = "SUSPEND_PROC"
           /\ Goto(TASK_FS, "receive") /\ UNCHANGED <<ipcVars, halted>>
  <2>0. /\ pc' = [pc EXCEPT ![TASK_FS] = "receive"]
        /\ UNCHANGED <<wait, mail, has_int_msg, halted>>
    BY <1>3 DEF Goto, ipcVars
  <2>1. IpcTypes' /\ PcTypes'
    BY <1>0, <2>0 DEF Types, IpcTypes, PcTypes, Label
  <2>2. \A v \in Users : ~ FsHas(v)'
    BY <1>0, <2>0 DEF FsHas, Types, PcTypes
  <2>3. \A v \in Users : Waiting(v)' <=> Waiting(v)
    BY <1>0, <2>0 DEF Waiting, Types, PcTypes
  <2>4. \A c \in Console : Live(c)' <=> Live(c)
    BY <1>0, <2>0 DEF Live, Types, PcTypes
  <2>5. TtyWaits' /\ FsWaits' /\ UsersWait'
    BY <1>0, <2>0 DEF Protocol, TtyWaits, FsWaits, UsersWait, IsCall, Types, PcTypes
  <2>6. FsMail'
    BY <1>0, <2>0 DEF FsMail, Types, PcTypes
  <2>7. TtyMail'
    BY <1>0, <2>0 DEF Protocol, TtyMail, FsAsked, Types, PcTypes
  <2>8. Readers'
    BY <1>0, <2>2, <2>3, <2>4 DEF Protocol, Readers, Reader, IsLine
  <2>9. Owed'
    BY <1>0, <2>0, <2>2 DEF Owed, Types, PcTypes
  <2>s. Served'
    BY <1>0, <1>3, <2>3, <2>4 DEF Protocol, Served, Alone, FsHas, SuspendSent
  <2>10. ReplyIsWanted' /\ ReadReturnsLine'
    BY <1>0, <2>0 DEF ReplyIsWanted, ReadReturnsLine, Running, Types, PcTypes
  <2> QED
    BY <2>s, <1>1, <2>1, <2>5, <2>6, <2>7, <2>8, <2>9, <2>10 DEF IInv, Protocol, Types
<1>4. CASE /\ mail[TASK_FS].type # "SUSPEND_PROC"
           /\ SendOrPanic(TASK_FS, fs_src, [mail[TASK_FS] EXCEPT !.type = "SYSCALL_RET"], "receive")
  <2>1. PICK x \in Message : x = mail[TASK_FS]
    BY <1>0 DEF Types, IpcTypes
  <2>2. PICK m : m = [x EXCEPT !.type = "SYSCALL_RET"]
    OBVIOUS
  <2>3. m \in Message
    BY <2>2 DEF Message, Type
  <2>4. PICK u \in Users : u = fs_src
    BY <1>0
  <2>5. asked[u].call # "READ" /\ FsHas(u)
    BY <1>0, <1>4, <2>4 DEF IsAnswer, FsHas, SuspendSent
  <2>6. fs_src' \in Proc /\ fs_len' \in 0 .. MaxCount
    BY <1>1 DEF TtyTypes
  <2> QED
    BY <1>0, <1>4, <2>1, <2>2, <2>3, <2>4, <2>5, <2>6, FsReplyOrPanic
<1> QED
  BY <1>2, <1>3, <1>4 DEF FsReturn

(* task_fs makes a request to the driver of the call it received.           *)
LEMMA FsForwardStep ==
    ASSUME IInv, FsForward
    PROVE  IInv'
<1> USE Processes, WaitValues
<1>0. /\ halted = "no" /\ wait[TASK_FS] = Run /\ pc[TASK_FS] = "serve" /\ Types /\ Protocol
      /\ ReplyIsWanted /\ ReadReturnsLine
      /\ mail[TASK_FS].type \in Call
      /\ SendOrPanic(TASK_FS, TASK_TTY,
                     [mail[TASK_FS] EXCEPT !.type = DevRequest(mail[TASK_FS].type),
                                           !.PROC_NR = mail[TASK_FS].source], "both")
      /\ fs_src' = mail[TASK_FS].source /\ fs_len' = mail[TASK_FS].CNT
      /\ UNCHANGED <<nr_current_console, in_buf, tty, line, buf, p_tty, asked>>
  BY DEF FsForward, At, Running, IInv, ttyVars
<1>1. PICK x \in Message : x = mail[TASK_FS]
  BY <1>0 DEF Types, IpcTypes
<1>2. PICK u \in Users : IsCall(x, u)
  <2>1. mail[TASK_FS].type # "RESUME_PROC"
    BY <1>0 DEF Call
  <2> QED
    BY <1>0, <1>1, <2>1 DEF Protocol, FsMail
<1>3. x.source = u /\ x.type = asked[u].call /\ x.CNT = asked[u].count
  BY <1>2 DEF IsCall
<1>4. FsHas(u) /\ Waiting(u) /\ \A c \in Console : Live(c) => tty[c].procnr # u
  <2>1. FsHas(u)
    BY <1>0, <1>1, <1>3 DEF FsHas, Call
  <2> QED
    BY <1>0, <2>1 DEF Protocol, Owed, Readers, Reader
<1>5. PICK m : m = [x EXCEPT !.type = DevRequest(x.type), !.PROC_NR = x.source]
  OBVIOUS
<1>6. /\ m \in Message /\ m.type = DevRequest(asked[u].call) /\ m.PROC_NR = u
      /\ m.CNT = asked[u].count
      /\ m.type \in {"DEV_OPEN", "DEV_READ", "DEV_WRITE"}
  <2>1. DevRequest(x.type) \in {"DEV_OPEN", "DEV_READ", "DEV_WRITE"}
    BY <1>0, <1>1 DEF DevRequest, Call
  <2> QED
    BY <1>3, <1>5, <2>1 DEF Message, Type
<1>7. TtyTypes'
  BY <1>0, <1>1, <1>3 DEF Types, TtyTypes, Message
<1>8. CASE Panic(TASK_FS, TASK_TTY)
  <2>1. ReadReturnsLine'
    BY <1>0, <1>8 DEF ReadReturnsLine, Panic, ipcVars, Running
  <2> QED
    BY <1>7, <1>8, <2>1, PanicStep DEF Panic, ipcVars
<1>9. CASE Send(TASK_FS, TASK_TTY, m) /\ Goto(TASK_FS, "both") /\ UNCHANGED halted
  <2>1. PICK st \in Message : /\ st.type = m.type /\ st.source = TASK_FS /\ st.CNT = m.CNT
                              /\ st.PROC_NR = m.PROC_NR
                              /\ Sent(TASK_FS, TASK_TTY, st)
    BY <1>6, <1>9, SendEffect
  <2>2. pc' = [pc EXCEPT ![TASK_FS] = "both"] /\ halted' = halted
    BY <1>9 DEF Goto
  <2>3. PcTypes'
    BY <1>0, <2>2 DEF Types, PcTypes, Label
  <2>4. fs_src' = u /\ wait[TASK_TTY] # Receives(TASK_FS)
    BY <1>0, <1>1, <1>3 DEF Protocol, TtyWaits, Types, PcTypes
  <2>5. \A v, n : IsLine(v, n)' <=> IsLine(v, n)
    BY <1>0 DEF IsLine
  <2>6. /\ wait[TASK_TTY] = Sends(TASK_FS) => pc[TASK_TTY] = "resumed"
        /\ ~ FsAsked
    BY <1>0 DEF Protocol, TtyMail, TtyWaits, Types, PcTypes, FsAsked
  <2>7. CASE /\ wait[TASK_TTY] = Receives(ANY) /\ has_int_msg' = has_int_msg
             /\ mail' = [mail EXCEPT ![TASK_FS] = NoMessage, ![TASK_TTY] = st]
             /\ wait' = [wait EXCEPT ![TASK_TTY] = Run]
    <3>1. pc[TASK_TTY] = "serve"
      BY <1>0, <2>7 DEF Protocol, TtyWaits, Types, PcTypes
    <3>2. IpcTypes'
      BY <1>0, <2>7, Messages DEF Types, IpcTypes
    <3>3. IsRequest(mail[TASK_TTY])' /\ mail'[TASK_TTY].type # "HARD_INT"
      BY <1>0, <1>6, <2>1, <2>4, <2>7 DEF IsRequest, Types, IpcTypes
    <3>4. \A v \in Users : FsHas(v)' <=> v = u
      BY <1>0, <2>2, <2>4, <2>7 DEF FsHas, SuspendSent, Types, IpcTypes, PcTypes
    <3>5. \A v \in Users : Waiting(v)' <=> Waiting(v)
      BY <1>0, <2>2, <2>7 DEF Waiting, Types, IpcTypes, PcTypes
    <3>6. \A c \in Console : Live(c)' <=> Live(c)
      BY <1>0, <2>2, <2>7, <3>1 DEF Live, Types, PcTypes, IpcTypes
    <3>7. TtyWaits' /\ FsWaits' /\ UsersWait'
      BY <1>0, <2>2, <2>7, <3>1 DEF Protocol, TtyWaits, FsWaits, UsersWait, IsCall, Types, IpcTypes, PcTypes
    <3>8. FsMail'
      BY <1>0, <2>2, <2>4, <2>7, <3>1, <3>3 DEF FsMail, Types, IpcTypes, PcTypes
    <3>9. TtyMail'
      BY <1>0, <2>2, <2>7, <3>1, <3>3 DEF TtyMail, FsAsked, Types, IpcTypes, PcTypes
    <3>10. Readers'
      BY <1>0, <1>4, <2>5, <3>4, <3>5, <3>6 DEF Protocol, Readers, Reader
    <3>11. Owed'
      BY <1>0, <1>4, <2>4, <3>4, <3>5 DEF Owed
    <3>s. Served'
      BY <3>4 DEF Protocol, Served, Alone
    <3>12. ReplyIsWanted' /\ ReadReturnsLine'
      BY <1>0, <2>2, <2>7 DEF ReplyIsWanted, ReadReturnsLine, Running, Types, IpcTypes, PcTypes
    <3> QED
      BY <3>s, <1>7, <2>3, <3>2, <3>7, <3>8, <3>9, <3>10, <3>11, <3>12 DEF IInv, Protocol, Types
  <2>8. CASE /\ wait[TASK_TTY] # Receives(ANY) /\ has_int_msg' = has_int_msg
             /\ wait[TASK_TTY] # Sends(TASK_FS)
             /\ mail' = [mail EXCEPT ![TASK_FS] = st]
             /\ wait' = [wait EXCEPT ![TASK_FS] = Sends(TASK_TTY)]
    <3>2. IpcTypes'
      BY <1>0, <2>8, Messages DEF Types, IpcTypes
    <3>3. IsRequest(mail[TASK_FS])'
      BY <1>0, <1>6, <2>1, <2>4, <2>8 DEF IsRequest, Types, IpcTypes
    <3>4. \A v \in Users : FsHas(v)' <=> v = u
      BY <1>0, <2>2, <2>4, <2>8 DEF FsHas, SuspendSent, Types, IpcTypes, PcTypes
    <3>5. \A v \in Users : Waiting(v)' <=> Waiting(v)
      BY <1>0, <2>2, <2>8 DEF Waiting, Types, IpcTypes, PcTypes
    <3>6. \A c \in Console : Live(c)' <=> Live(c)
      BY <1>0, <2>2, <2>8 DEF Live, Types, PcTypes, IpcTypes
    <3>7. TtyWaits' /\ FsWaits' /\ UsersWait'
      BY <1>0, <2>2, <2>8 DEF Protocol, TtyWaits, FsWaits, UsersWait, IsCall, Types, IpcTypes, PcTypes
    <3>8. FsMail'
      BY <1>0, <2>2, <2>4, <2>8, <3>3 DEF FsMail, Types, IpcTypes, PcTypes
    <3>9. TtyMail'
      BY <1>0, <2>2, <2>6, <2>8 DEF Protocol, TtyMail, Types, IpcTypes, PcTypes
    <3>10. Readers'
      BY <1>0, <1>4, <2>5, <3>4, <3>5, <3>6 DEF Protocol, Readers, Reader
    <3>11. Owed'
      BY <1>0, <1>4, <2>4, <3>4, <3>5 DEF Owed
    <3>s. Served'
      BY <3>4 DEF Protocol, Served, Alone
    <3>12. ReplyIsWanted' /\ ReadReturnsLine'
      BY <1>0, <2>2, <2>8 DEF ReplyIsWanted, ReadReturnsLine, Running, Types, IpcTypes, PcTypes
    <3> QED
      BY <3>s, <1>7, <2>3, <3>2, <3>7, <3>8, <3>9, <3>10, <3>11, <3>12 DEF IInv, Protocol, Types
  <2> QED
    BY <2>1, <2>4, <2>7, <2>8 DEF Sent
<1> QED
  BY <1>0, <1>1, <1>5, <1>8, <1>9 DEF SendOrPanic

(* Every step of task_fs keeps the invariant.                               *)
LEMMA TaskFsStep ==
    ASSUME IInv, TaskFs
    PROVE  IInv'
BY FsReceiveStep, FsForwardStep, FsBothStep, FsReturnStep, FsResumeStep DEF TaskFs

-----------------------------------------------------------------------------
(* The steps of task_tty and of the handlers *)

(* The clock interrupt wakes task_tty, never task_fs.                       *)
LEMMA ClockStep ==
    ASSUME IInv, clock_handler
    PROVE  IInv'
<1> USE Processes, WaitValues
<1>0. /\ halted = "no" /\ Types /\ Protocol /\ ReplyIsWanted /\ ReadReturnsLine
      /\ inform_int(TASK_TTY, HardInt)
      /\ UNCHANGED <<nr_current_console, in_buf, tty, line, buf, p_tty, fs_src, fs_len, asked, pc, halted>>
  BY DEF clock_handler, IInv, ttyVars, fsVars
<1>1. PcTypes' /\ TtyTypes'
  BY <1>0 DEF Types, PcTypes, TtyTypes
<1>2. \A u, n : IsLine(u, n)' <=> IsLine(u, n)
  BY <1>0 DEF IsLine
<1>3. CASE /\ wait[TASK_TTY] = Receives(ANY)
           /\ mail' = [mail EXCEPT ![TASK_TTY] = HardInt]
           /\ wait' = [wait EXCEPT ![TASK_TTY] = Run]
           /\ has_int_msg' = [has_int_msg EXCEPT ![TASK_TTY] = FALSE]
  <2>1. pc[TASK_TTY] = "serve"
    BY <1>0, <1>3 DEF Protocol, TtyWaits, Types, PcTypes
  <2>2. IpcTypes'
    BY <1>0, <1>3, Messages DEF Types, IpcTypes
  <2>3. ~ FsAsked
    BY <1>0, <1>3 DEF Protocol, FsMail, FsAsked
  <2>4. \A v \in Users : FsHas(v)' <=> FsHas(v)
    BY <1>0, <1>3, <2>1 DEF FsHas, SuspendSent, Types, IpcTypes, PcTypes
  <2>5. \A v \in Users : Waiting(v)' <=> Waiting(v)
    BY <1>0, <1>3 DEF Waiting, Types, IpcTypes, PcTypes
  <2>6. \A c \in Console : Live(c)' <=> Live(c)
    BY <1>0, <1>3, <2>1 DEF Live, Types, PcTypes, IpcTypes
  <2>7. TtyWaits' /\ FsWaits' /\ UsersWait'
    BY <1>0, <1>3, <2>1 DEF Protocol, TtyWaits, FsWaits, UsersWait, IsCall, Types, IpcTypes, PcTypes
  <2>8. FsMail'
    BY <1>0, <1>2, <1>3, <2>3 DEF Protocol, FsMail, FsAsked, IsCall, IsRequest, IsAnswer, Types, IpcTypes, PcTypes
  <2>9. TtyMail'
    BY <1>0, <1>3, <2>1, Messages DEF TtyMail, Types, IpcTypes, PcTypes
  <2>10. Readers'
    BY <1>0, <1>2, <2>4, <2>5, <2>6 DEF Protocol, Readers, Reader
  <2>11. Owed'
    BY <1>0, <2>4, <2>5 DEF Protocol, Owed, FsMail
  <2>s. Served'
    BY <1>0, <2>4, <2>5, <2>6 DEF Protocol, Served, Alone
  <2>12. ReplyIsWanted' /\ ReadReturnsLine'
    BY <1>0, <1>3 DEF ReplyIsWanted, ReadReturnsLine, Running, Types, IpcTypes, PcTypes
  <2> QED
    BY <2>s, <1>0, <1>1, <2>2, <2>7, <2>8, <2>9, <2>10, <2>11, <2>12 DEF IInv, Protocol, Types
<1>4. CASE /\ has_int_msg' = [has_int_msg EXCEPT ![TASK_TTY] = TRUE]
           /\ UNCHANGED <<wait, mail>>
  <2>1. IpcTypes'
    BY <1>0, <1>4 DEF Types, IpcTypes
  <2>2. Protocol'
    <3>1. FsWaits'
      BY <1>0, <1>4 DEF Protocol, FsWaits, Types, IpcTypes
    <3>2. UsersWait' /\ TtyWaits' /\ FsMail' /\ TtyMail' /\ Readers' /\ Owed' /\ Served'
      BY <1>0, <1>4 DEF Protocol, UsersWait, TtyWaits, FsMail, TtyMail, Readers, Reader, Owed, Served, Live, Waiting,
                        Reader, FsHas, SuspendSent, FsAsked, IsCall, IsRequest, IsAnswer, IsLine
    <3> QED
      BY <3>1, <3>2 DEF Protocol
  <2>3. ReplyIsWanted' /\ ReadReturnsLine'
    BY <1>0, <1>4 DEF ReplyIsWanted, ReadReturnsLine, Running
  <2> QED
    BY <1>1, <2>1, <2>2, <2>3 DEF IInv, Types
<1>5. wait[TASK_TTY] # Receives(INTERRUPT)
  BY <1>0 DEF Protocol, TtyWaits, Types, PcTypes
<1> QED
  BY <1>0, <1>3, <1>4, <1>5 DEF inform_int

(* task_tty goes on while no process is served.                             *)
LEMMA TtyMoves ==
    ASSUME IInv, halted = "no", wait[TASK_TTY] = Run,
           \/ pc[TASK_TTY] \in {"read", "write"}
           \/ pc[TASK_TTY] = "serve" /\ mail[TASK_TTY].type = "HARD_INT",
           NEW b \in {"read", "write", "receive"}, pc' = [pc EXCEPT ![TASK_TTY] = b],
           p_tty' \in Console, nr_current_console' \in Console,
           in_buf' \in [Console -> Seq(Printable \cup {"enter", "bs"})],
           UNCHANGED <<wait, mail, has_int_msg, tty, line, buf, fs_src, fs_len, asked, halted>>
    PROVE  IInv'
<1> USE Processes, WaitValues
<1>0. Types /\ Protocol /\ ReplyIsWanted /\ ReadReturnsLine
  BY DEF IInv
<1>1. IpcTypes' /\ PcTypes' /\ TtyTypes'
  BY <1>0 DEF Types, IpcTypes, PcTypes, TtyTypes, Label
<1>2. ~ FsAsked
  BY <1>0 DEF Protocol, FsMail, FsAsked
<1>3. \A u, n : IsLine(u, n)' <=> IsLine(u, n)
  BY DEF IsLine
<1>4. \A v \in Users : FsHas(v)' <=> FsHas(v)
  BY <1>0 DEF FsHas, SuspendSent, Types, PcTypes
<1>5. \A v \in Users : Waiting(v)' <=> Waiting(v)
  BY <1>0 DEF Waiting, Types, PcTypes
<1>6. \A c \in Console : Live(c)' <=> Live(c)
  BY <1>0 DEF Live, Types, PcTypes
<1>7. TtyWaits' /\ FsWaits' /\ UsersWait'
  BY <1>0 DEF Protocol, TtyWaits, FsWaits, UsersWait, IsCall, Types, PcTypes
<1>8. FsMail'
  BY <1>0, <1>2, <1>3 DEF Protocol, FsMail, FsAsked, IsCall, IsRequest, IsAnswer, Types, PcTypes
<1>9. TtyMail'
  BY <1>0 DEF TtyMail, Types, PcTypes
<1>10. Readers'
  BY <1>0, <1>3, <1>4, <1>5, <1>6 DEF Protocol, Readers, Reader
<1>11. Owed'
  BY <1>0, <1>4, <1>5 DEF Protocol, Owed, FsMail, Types, PcTypes
<1>s. Served'
  BY <1>0, <1>4, <1>5, <1>6 DEF Protocol, Served, Alone
<1>12. ReplyIsWanted' /\ ReadReturnsLine'
  BY <1>0 DEF ReplyIsWanted, ReadReturnsLine, Running, Types, PcTypes
<1> QED
  BY <1>s, <1>1, <1>7, <1>8, <1>9, <1>10, <1>11, <1>12 DEF IInv, Protocol, Types

(* What the end of a pass does to the loops of task_tty.                    *)
LEMMA NextPassEffect ==
    ASSUME Types, NextPass
    PROVE  \E b \in {"read", "receive"} : /\ pc' = [pc EXCEPT ![TASK_TTY] = b]
                                          /\ p_tty' \in Console
<1>1. 0 \in Console /\ (p_tty + 1 < NR_CONSOLES => p_tty + 1 \in Console) /\ p_tty \in Console
  BY TerminalAssumption DEF Types, TtyTypes, Console
<1>2. CASE in_buf'[p_tty] # <<>>
  BY <1>1, <1>2 DEF NextPass, Goto
<1>3. CASE in_buf'[p_tty] = <<>> /\ p_tty + 1 < NR_CONSOLES
  BY <1>1, <1>3 DEF NextPass, Goto
<1>4. CASE in_buf'[p_tty] = <<>> /\ ~ (p_tty + 1 < NR_CONSOLES)
  BY <1>1, <1>4 DEF NextPass, Goto
<1> QED
  BY <1>2, <1>3, <1>4

(* tty_dev_read changes the keys of a tty, not its reader.                  *)
LEMMA DevReadStep ==
    ASSUME IInv, tty_dev_read
    PROVE  IInv'
<1> USE Processes
<1>0. /\ halted = "no" /\ wait[TASK_TTY] = Run /\ pc[TASK_TTY] = "read" /\ Types
      /\ pc' = [pc EXCEPT ![TASK_TTY] = "write"]
      /\ UNCHANGED <<wait, mail, has_int_msg, tty, line, buf, p_tty, fs_src, fs_len, asked, halted>>
  BY DEF tty_dev_read, At, Running, Goto, IInv, ipcVars, fsVars
<1>1. nr_current_console' \in Console
  BY <1>0 DEF tty_dev_read, Selected, Types, TtyTypes
<1>2. in_buf' \in [Console -> Seq(Printable \cup {"enter", "bs"})]
  <2>1. CASE UNCHANGED in_buf
    BY <1>0, <2>1 DEF Types, TtyTypes
  <2>2. CASE \E key : IsInput(key) /\ put_key(p_tty, key)
    <3>1. PICK key \in Printable \cup {"enter", "bs"} : put_key(p_tty, key)
      BY <2>2 DEF IsInput
    <3>2. PICK q \in Seq(Printable \cup {"enter", "bs"}) : q = in_buf[p_tty]
      BY <1>0 DEF Types, TtyTypes
    <3>3. Append(q, key) \in Seq(Printable \cup {"enter", "bs"})
      BY <3>1, <3>2
    <3> QED
      BY <1>0, <3>1, <3>2, <3>3 DEF put_key, Types, TtyTypes
  <2> QED
    BY <2>1, <2>2 DEF tty_dev_read
<1>3. p_tty' \in Console
  BY <1>0 DEF Types, TtyTypes
<1> QED
  BY <1>0, <1>1, <1>2, <1>3, TtyMoves

(* HARD_INT sends task_tty back to its loops, with every reader as it was.  *)
LEMMA InformedStep ==
    ASSUME IInv, TtyInformed
    PROVE  IInv'
<1>1. /\ halted = "no" /\ wait[TASK_TTY] = Run /\ pc[TASK_TTY] = "serve"
      /\ mail[TASK_TTY].type = "HARD_INT" /\ Types
      /\ pc' = [pc EXCEPT ![TASK_TTY] = "read"]
      /\ UNCHANGED <<wait, mail, has_int_msg, tty, line, buf, p_tty, fs_src, fs_len, asked, halted,
                     nr_current_console, in_buf>>
  BY DEF TtyInformed, At, Running, Goto, IInv, ipcVars, fsVars, ttyVars
<1> QED
  BY <1>1, TtyMoves DEF Types, TtyTypes

(* What tty_dev_write does to the line and the buffer.                      *)
KeyStored(c, u, ch) ==
    /\ line' = [line EXCEPT ![u] = LineAfter(@, ch)]
    /\ buf' = IF ch \in Printable THEN [buf EXCEPT ![u][tty[c].trans + 1] = ch] ELSE buf

(* A key on a read that goes on keeps the line and the counts together.     *)
LEMMA KeyEffect ==
    ASSUME IInv, halted = "no", NEW c \in Console, Live(c), tty[c].left > 0,
           NEW u, u = tty[c].procnr,
           NEW ch \in Printable \cup {"enter", "bs"},
           NEW t, t = Edited(tty[c], ch),
           UNCHANGED asked, KeyStored(c, u, ch)
    PROVE  /\ t \in [caller : Proc, procnr : Proc, left : 0 .. MaxCount, trans : 0 .. MaxCount]
           /\ t.caller = TASK_FS /\ t.procnr = u
           /\ t.trans + t.left = asked[u].count
           /\ IsLine(u, t.trans)'
           /\ line' \in [Users -> Seq(Printable)]
           /\ buf' \in [Users -> [1 .. MaxCount -> Printable \cup {"none"}]]
           /\ \A v \in Users : \A n : v # u => (IsLine(v, n)' <=> IsLine(v, n))
<1>0. Types /\ Protocol
  BY DEF IInv
<1>1. PICK r \in [caller : Proc, procnr : Proc, left : 0 .. MaxCount, trans : 0 .. MaxCount] :
         r = tty[c]
  BY <1>0 DEF Types, TtyTypes
<1>2. /\ u \in Users /\ r.caller = TASK_FS /\ r.procnr = u /\ r.left > 0
      /\ r.trans + r.left = asked[u].count /\ IsLine(u, r.trans)
      /\ asked[u].count \in 0 .. MaxCount
  BY <1>0, <1>1 DEF Protocol, Readers, Reader, Types, TtyTypes
<1>3. PICK l \in Seq(Printable) : l = line[u]
  BY <1>0, <1>2 DEF Types, TtyTypes
<1>4. PICK bf \in [1 .. MaxCount -> Printable \cup {"none"}] : bf = buf[u]
  BY <1>0, <1>2 DEF Types, TtyTypes
<1>5. Len(l) = r.trans /\ \A i \in 1 .. r.trans : bf[i] = l[i]
  BY <1>2, <1>3, <1>4 DEF IsLine
<1>6. MaxCount \in Nat /\ Printable \cap {"enter", "bs"} = {}
  BY TerminalAssumption
<1>a. /\ r.caller \in Proc /\ r.procnr \in Proc
      /\ r.left \in Nat /\ r.trans \in Nat /\ r.left <= MaxCount /\ r.trans <= MaxCount
      /\ r = [caller |-> r.caller, procnr |-> r.procnr, left |-> r.left, trans |-> r.trans]
  BY <1>1, <1>6
<1>b. PICK k \in Nat : k = asked[u].count /\ k <= MaxCount /\ r.trans + r.left = k /\ asked'[u].count = k
  BY <1>2, <1>6
<1>c. /\ line \in [Users -> Seq(Printable)]
      /\ buf \in [Users -> [1 .. MaxCount -> Printable \cup {"none"}]]
  BY <1>0 DEF Types, TtyTypes
<1>7. CASE ch \in Printable
  <2>1. t = [r EXCEPT !.trans = @ + 1, !.left = @ - 1] /\ LineAfter(l, ch) = Append(l, ch)
    BY <1>1, <1>6, <1>7 DEF Edited, LineAfter
  <2>2. /\ t \in [caller : Proc, procnr : Proc, left : 0 .. MaxCount, trans : 0 .. MaxCount]
        /\ t.caller = TASK_FS /\ t.procnr = u /\ t.trans = r.trans + 1 /\ t.left = r.left - 1
    <3>1. /\ t.caller = r.caller /\ t.procnr = r.procnr /\ t.trans = r.trans + 1
          /\ t.left = r.left - 1
          /\ t = [caller |-> t.caller, procnr |-> t.procnr, left |-> t.left, trans |-> t.trans]
      BY <1>a, <2>1
    <3>2. r.left - 1 \in 0 .. MaxCount /\ r.trans + 1 \in 0 .. MaxCount
      BY <1>2, <1>6, <1>a, <1>b
    <3> QED
      BY <1>2, <1>a, <3>1, <3>2
  <2>3. buf' = [buf EXCEPT ![u] = [bf EXCEPT ![r.trans + 1] = ch]]
    BY <1>1, <1>4, <1>7 DEF KeyStored
  <2>4. PICK b2 : b2 = [bf EXCEPT ![r.trans + 1] = ch]
    OBVIOUS
  <2>5. b2 \in [1 .. MaxCount -> Printable \cup {"none"}]
    BY <1>7, <2>4
  <2>6. buf' = [buf EXCEPT ![u] = b2] /\ line' = [line EXCEPT ![u] = Append(l, ch)]
    BY <1>3, <2>1, <2>3, <2>4 DEF KeyStored
  <2>7. Append(l, ch) \in Seq(Printable) /\ Len(Append(l, ch)) = r.trans + 1
    BY <1>5, <1>7
  <2>8. \A i \in 1 .. r.trans + 1 : b2[i] = Append(l, ch)[i]
    BY <1>2, <1>5, <1>6, <2>4
  <2>9. line'[u] = Append(l, ch) /\ buf'[u] = b2
        /\ line' \in [Users -> Seq(Printable)]
        /\ buf' \in [Users -> [1 .. MaxCount -> Printable \cup {"none"}]]
        /\ \A v \in Users : v # u => line'[v] = line[v] /\ buf'[v] = buf[v]
    BY <1>2, <1>c, <2>5, <2>6, <2>7
  <2>10. IsLine(u, t.trans)'
    BY <1>2, <1>a, <1>b, <2>2, <2>7, <2>8, <2>9 DEF IsLine
  <2>11. \A v \in Users : \A n : v # u => (IsLine(v, n)' <=> IsLine(v, n))
    BY <2>9 DEF IsLine
  <2> QED
    <3>1. t.trans + t.left = asked[u].count
      BY <1>a, <1>b, <2>2
    <3> QED
      BY <2>2, <2>9, <2>10, <2>11, <3>1
<1>8. CASE ch \notin Printable
  <2>1. PICK l2 : l2 = LineAfter(l, ch)
    OBVIOUS
  <2>2. /\ t \in [caller : Proc, procnr : Proc, left : 0 .. MaxCount, trans : 0 .. MaxCount]
        /\ t.caller = TASK_FS /\ t.procnr = u /\ t.trans + t.left = r.trans + r.left
        /\ l2 \in Seq(Printable) /\ Len(l2) = t.trans /\ t.trans <= r.trans
        /\ \A i \in 1 .. t.trans : l2[i] = l[i]
    <3>1. CASE ch = "bs" /\ r.trans > 0
      <4>1. t = [r EXCEPT !.trans = @ - 1, !.left = @ + 1] /\ l2 = SubSeq(l, 1, Len(l) - 1)
        BY <1>1, <1>5, <1>8, <2>1, <3>1 DEF Edited, LineAfter
      <4>2. l2 \in Seq(Printable) /\ Len(l2) = r.trans - 1 /\ \A i \in 1 .. r.trans - 1 : l2[i] = l[i]
        BY <1>5, <3>1, <4>1
      <4> QED
        <5>1. /\ t.caller = r.caller /\ t.procnr = r.procnr /\ t.trans = r.trans - 1
              /\ t.left = r.left + 1
              /\ t = [caller |-> t.caller, procnr |-> t.procnr, left |-> t.left, trans |-> t.trans]
          BY <1>a, <4>1
        <5>2. r.left + 1 \in 0 .. MaxCount /\ r.trans - 1 \in 0 .. MaxCount
          BY <1>6, <1>a, <1>b, <3>1
        <5>3. t \in [caller : Proc, procnr : Proc, left : 0 .. MaxCount, trans : 0 .. MaxCount]
          BY <1>a, <5>1, <5>2
        <5>4. t.trans + t.left = r.trans + r.left /\ t.trans <= r.trans /\ Len(l2) = t.trans
          <6>1. t.trans = r.trans - 1 /\ t.left = r.left + 1 /\ r.trans \in Nat /\ r.left \in Nat
            BY <1>a, <5>1
          <6>2. Len(l2) = r.trans - 1
            BY <4>2
          <6> QED
            BY <6>1, <6>2
        <5>5. \A i \in 1 .. t.trans : l2[i] = l[i]
          BY <4>2, <5>1
        <5> QED
          BY <1>2, <4>2, <5>1, <5>3, <5>4, <5>5
    <3>2. CASE ~ (ch = "bs" /\ r.trans > 0)
      <4>1. t = r /\ l2 = l
        BY <1>1, <1>5, <1>8, <2>1, <3>2 DEF Edited, LineAfter
      <4> QED
        BY <1>2, <1>5, <4>1
    <3> QED
      BY <3>1, <3>2
  <2>3. line' = [line EXCEPT ![u] = l2] /\ buf' = buf
    BY <1>3, <1>8, <2>1 DEF KeyStored
  <2>4. line'[u] = l2 /\ buf'[u] = bf
        /\ line' \in [Users -> Seq(Printable)]
        /\ buf' \in [Users -> [1 .. MaxCount -> Printable \cup {"none"}]]
        /\ \A v \in Users : v # u => line'[v] = line[v] /\ buf'[v] = buf[v]
    BY <1>2, <1>4, <1>c, <2>2, <2>3
  <2>5. IsLine(u, t.trans)'
    BY <1>2, <1>5, <1>a, <1>b, <2>2, <2>4 DEF IsLine
  <2>6. \A v \in Users : \A n : v # u => (IsLine(v, n)' <=> IsLine(v, n))
    BY <2>4 DEF IsLine
  <2> QED
    <3>1. t.trans + t.left = asked[u].count
      BY <1>a, <1>b, <2>2
    <3> QED
      BY <2>2, <2>4, <2>5, <2>6, <3>1
<1> QED
  BY <1>7, <1>8

(* tty_dev_write gives a key to a read.                                     *)
LEMMA KeyStep ==
    ASSUME IInv, halted = "no", wait[TASK_TTY] = Run, pc[TASK_TTY] = "write",
           tty[p_tty].left > 0,
           NEW u, u = tty[p_tty].procnr, NEW ch \in Printable \cup {"enter", "bs"},
           NEW t, t = Edited(tty[p_tty], ch), KeyStored(p_tty, u, ch),
           tty' = [tty EXCEPT ![p_tty] = t],
           in_buf' \in [Console -> Seq(Printable \cup {"enter", "bs"})],
           NEW b \in {"read", "receive", "resume"}, pc' = [pc EXCEPT ![TASK_TTY] = b],
           p_tty' \in Console, b = "resume" => p_tty' = p_tty, b # "resume" => t.left # 0,
           UNCHANGED <<wait, mail, has_int_msg, nr_current_console, fs_src, fs_len, asked, halted>>
    PROVE  IInv'
<1> USE Processes, WaitValues
<1>0. Types /\ Protocol /\ ReplyIsWanted /\ ReadReturnsLine
  BY DEF IInv
<1>1. PICK c \in Console : c = p_tty
  BY <1>0 DEF Types, TtyTypes
<1>2. \A d \in Console : Live(d) <=> tty[d].left > 0
  BY <1>0 DEF Live
<1>3. Live(c)
  BY <1>1, <1>2
<1>4. /\ t \in [caller : Proc, procnr : Proc, left : 0 .. MaxCount, trans : 0 .. MaxCount]
      /\ t.caller = TASK_FS /\ t.procnr = u
      /\ t.trans + t.left = asked[u].count
      /\ IsLine(u, t.trans)'
      /\ line' \in [Users -> Seq(Printable)]
      /\ buf' \in [Users -> [1 .. MaxCount -> Printable \cup {"none"}]]
      /\ \A v \in Users : \A n : v # u => (IsLine(v, n)' <=> IsLine(v, n))
  <2>1. /\ tty[c].left > 0 /\ u = tty[c].procnr /\ t = Edited(tty[c], ch)
        /\ KeyStored(c, u, ch) /\ UNCHANGED asked
    BY <1>1
  <2> QED
    BY <1>3, <2>1, KeyEffect
<1>5. /\ u \in Users /\ Waiting(u) /\ ~ FsHas(u) /\ asked[u].call = "READ"
      /\ \A d \in Console : Live(d) /\ d # c => tty[d].procnr # u
  BY <1>0, <1>1, <1>3 DEF Protocol, Readers, Reader
<1>6. /\ tty'[c] = t /\ \A d \in Console : d # c => tty'[d] = tty[d]
      /\ tty' \in [Console -> [caller : Proc, procnr : Proc, left : 0 .. MaxCount, trans : 0 .. MaxCount]]
  BY <1>0, <1>1, <1>4 DEF Types, TtyTypes
<1>7. IpcTypes' /\ PcTypes' /\ TtyTypes'
  <2>1. IpcTypes'
    BY <1>0 DEF Types, IpcTypes
  <2>2. PcTypes'
    BY <1>0 DEF Types, PcTypes, Label
  <2>3. TtyTypes'
    BY <1>0, <1>4, <1>6 DEF Types, TtyTypes
  <2> QED
    BY <2>1, <2>2, <2>3
<1>8. ~ FsAsked
  BY <1>0 DEF Protocol, FsMail, FsAsked
<1>9. \A v \in Users : FsHas(v)' <=> FsHas(v)
  BY <1>0 DEF FsHas, SuspendSent, Types, PcTypes
<1>10. \A v \in Users : Waiting(v)' <=> Waiting(v)
  BY <1>0 DEF Waiting, Types, PcTypes
<1>11. Live(c)' /\ \A d \in Console : d # c => (Live(d)' <=> Live(d))
  <2>1. pc'[TASK_TTY] = b
    BY <1>0 DEF Types, PcTypes
  <2>2. t.left # 0 => t.left > 0
    BY <1>4, TerminalAssumption
  <2> QED
    BY <1>1, <1>2, <1>6, <2>1, <2>2 DEF Live
<1>12. TtyWaits' /\ FsWaits' /\ UsersWait'
  BY <1>0 DEF Protocol, TtyWaits, FsWaits, UsersWait, IsCall, Types, PcTypes
<1>13. FsMail'
  <2>1. ASSUME pc[TASK_FS] = "serve" /\ wait[TASK_FS] = Run
        PROVE  \/ \E v \in Users : IsCall(mail[TASK_FS], v)'
               \/ /\ mail[TASK_FS].type = "RESUME_PROC"
                  /\ \E v \in Users : /\ mail[TASK_FS].PROC_NR = v
                                      /\ IsLine(v, mail[TASK_FS].CNT)'
    BY <1>0, <1>4, <1>5, <2>1 DEF Protocol, FsMail, IsCall, FsHas
  <2>2. ASSUME NEW v \in Users, wait[TASK_FS] = Sends(v), asked[v].call = "READ"
        PROVE  IsLine(v, mail[TASK_FS].CNT)'
    BY <1>0, <1>4, <1>5, <2>2 DEF Protocol, FsMail, FsHas
  <2> QED
    BY <1>0, <1>8, <2>1, <2>2 DEF Protocol, FsMail, FsAsked, IsCall, IsRequest, IsAnswer, Types, PcTypes
<1>14. TtyMail'
  BY <1>0 DEF TtyMail, Types, PcTypes
<1>15. Readers'
  <2>1. \A d \in Console : tty'[d].caller = TASK_FS
    BY <1>0, <1>4, <1>6 DEF Protocol, Readers, Reader
  <2>2. ASSUME NEW d \in Console, Live(d)'
        PROVE  Reader(d, tty[d].procnr)'
    <3>1. CASE d = c
      <4>1. /\ tty'[d] = t /\ u \in Users /\ Waiting(u)' /\ ~ FsHas(u)' /\ asked'[u].call = "READ"
            /\ t.trans + t.left = asked'[u].count
        BY <1>4, <1>5, <1>6, <1>9, <1>10, <3>1
      <4> QED
        BY <1>4, <4>1 DEF Reader
    <3>2. CASE d # c
      <4>1. tty'[d] = tty[d] /\ Live(d)
        BY <1>6, <1>11, <2>2, <3>2
      <4>2. PICK v : v = tty[d].procnr
        OBVIOUS
      <4>3. /\ v \in Users /\ Waiting(v) /\ ~ FsHas(v) /\ asked[v].call = "READ" /\ v # u
            /\ tty[d].trans + tty[d].left = asked[v].count
            /\ IsLine(v, tty[d].trans)
        BY <1>0, <1>5, <3>2, <4>1, <4>2 DEF Protocol, Readers, Reader
      <4>4. Waiting(v)' /\ ~ FsHas(v)' /\ IsLine(v, tty[d].trans)'
        BY <1>4, <1>9, <1>10, <4>1, <4>3
      <4> QED
        BY <4>1, <4>2, <4>3, <4>4 DEF Reader
    <3> QED
      BY <3>1, <3>2
  <2>3. ASSUME NEW d \in Console, NEW e \in Console, Live(d)', Live(e)',
               tty'[d].procnr = tty'[e].procnr
        PROVE  d = e
    BY <1>0, <1>4, <1>5, <1>6, <1>11, <2>3 DEF Protocol, Readers, Reader
  <2> QED
    BY <2>1, <2>2, <2>3 DEF Readers, Reader
<1>16. Owed'
  BY <1>0, <1>9, <1>10 DEF Protocol, Owed, FsMail, Types, PcTypes
<1>s. Served'
  BY <1>4, <1>5, <1>6, <1>11 DEF Protocol, Served, Alone
<1>17. ReplyIsWanted' /\ ReadReturnsLine'
  <2>1. ReplyIsWanted'
    BY <1>0 DEF ReplyIsWanted, Types, PcTypes
  <2>2. ASSUME NEW v \in Users, wait[v] = Run, pc[v] = "return", asked[v].call = "READ"
        PROVE  IsLine(v, mail[v].CNT)'
    <3>1. v # u
      BY <1>5, <2>2 DEF Waiting
    <3>2. IsLine(v, mail[v].CNT)
      BY <1>0, <2>2 DEF ReadReturnsLine, Running, IsLine
    <3> QED
      BY <1>4, <3>1, <3>2
  <2> QED
    BY <1>0, <2>1, <2>2 DEF ReadReturnsLine, Running, IsLine, Types, PcTypes
<1> QED
  BY <1>s, <1>7, <1>12, <1>13, <1>14, <1>15, <1>16, <1>17 DEF IInv, Protocol, Types

(* tty_dev_write gives a key to the reader of the tty, if it has one.       *)
LEMMA DevWriteStep ==
    ASSUME IInv, tty_dev_write
    PROVE  IInv'
<1>0. /\ halted = "no" /\ wait[TASK_TTY] = Run /\ pc[TASK_TTY] = "write" /\ Types
      /\ UNCHANGED <<wait, mail, has_int_msg, nr_current_console, fs_src, fs_len, asked, halted>>
  BY DEF tty_dev_write, At, Running, IInv, ipcVars, fsVars
<1>1. PICK c \in Console : c = p_tty
  BY <1>0 DEF Types, TtyTypes
<1>2. PICK q \in Seq(Printable \cup {"enter", "bs"}) : q = in_buf[c]
  BY <1>0 DEF Types, TtyTypes
<1>3. in_buf' \in [Console -> Seq(Printable \cup {"enter", "bs"})]
  <2>1. CASE q = <<>>
    BY <1>0, <1>1, <1>2, <2>1 DEF tty_dev_write, Types, TtyTypes
  <2>2. CASE q # <<>>
    <3>1. Tail(q) \in Seq(Printable \cup {"enter", "bs"})
      BY <2>2
    <3>2. in_buf' = [in_buf EXCEPT ![c] = Tail(q)]
      BY <1>1, <1>2, <2>2 DEF tty_dev_write
    <3> QED
      BY <1>0, <3>1, <3>2 DEF Types, TtyTypes
  <2> QED
    BY <2>1, <2>2
<1>4. CASE NextPass /\ UNCHANGED <<tty, line, buf>>
  <2>1. PICK b \in {"read", "receive"} : pc' = [pc EXCEPT ![TASK_TTY] = b] /\ p_tty' \in Console
    BY <1>0, <1>4, NextPassEffect
  <2> QED
    BY <1>0, <1>3, <1>4, <2>1, TtyMoves DEF Types, TtyTypes
<1>5. CASE ~ (q = <<>> \/ tty[c].left = 0)
  <2>1. PICK ch : ch = Head(q)
    OBVIOUS
  <2>2. ch \in Printable \cup {"enter", "bs"}
    BY <1>5, <2>1
  <2>3. PICK t : t = Edited(tty[c], ch)
    OBVIOUS
  <2>4. t.procnr = tty[c].procnr
    <3>1. PICK r \in [caller : Proc, procnr : Proc, left : 0 .. MaxCount, trans : 0 .. MaxCount] :
             r = tty[c]
      BY <1>0 DEF Types, TtyTypes
    <3>2. Printable \cap {"bs"} = {}
      BY TerminalAssumption
    <3>3. t \in {[r EXCEPT !.trans = @ + 1, !.left = @ - 1], [r EXCEPT !.trans = @ - 1, !.left = @ + 1], r}
      BY <2>3, <3>1, <3>2 DEF Edited
    <3> QED
      BY <3>1, <3>3
  <2>5. /\ tty' = [tty EXCEPT ![c] = t]
        /\ line' = [line EXCEPT ![t.procnr] = LineAfter(@, ch)]
        /\ buf' = IF ch \in Printable THEN [buf EXCEPT ![t.procnr][tty[c].trans + 1] = ch] ELSE buf
        /\ IF Complete(t, ch) THEN Goto(TASK_TTY, "resume") /\ UNCHANGED p_tty ELSE NextPass
    BY <1>1, <1>2, <1>5, <2>1, <2>3, Zenon DEF tty_dev_write
  <2>6. PICK u : u = tty[c].procnr
    OBVIOUS
  <2>7. KeyStored(c, u, ch)
    BY <2>4, <2>5, <2>6, Zenon DEF KeyStored
  <2>8. tty[c].left > 0
    BY <1>0, <1>5, TerminalAssumption DEF Types, TtyTypes
  <2>9. CASE Complete(t, ch)
    <3>1. pc' = [pc EXCEPT ![TASK_TTY] = "resume"] /\ p_tty' = p_tty
      BY <2>5, <2>9, Zenon DEF Goto
    <3>2. tty' = [tty EXCEPT ![c] = t] /\ p_tty' \in Console
      BY <1>1, <2>5, <3>1, Zenon
    <3> QED
      BY <1>0, <1>1, <1>3, <2>2, <2>3, <2>6, <2>7, <2>8, <3>1, <3>2, KeyStep
  <2>10. CASE ~ Complete(t, ch)
    <3>1. PICK b \in {"read", "receive"} : pc' = [pc EXCEPT ![TASK_TTY] = b] /\ p_tty' \in Console
      <4>1. NextPass
        BY <2>5, <2>10, Zenon
      <4> QED
        BY <1>0, <4>1, NextPassEffect
    <3>2. t.left # 0
      BY <2>10 DEF Complete
    <3>3. tty' = [tty EXCEPT ![c] = t]
      BY <2>5, Zenon
    <3> QED
      BY <1>0, <1>1, <1>3, <2>2, <2>3, <2>6, <2>7, <2>8, <3>1, <3>2, <3>3, KeyStep
  <2> QED
    BY <2>9, <2>10
<1>6. (q = <<>> \/ tty[c].left = 0) => NextPass /\ UNCHANGED <<tty, line, buf>>
  BY <1>1, <1>2, Zenon DEF tty_dev_write
<1> QED
  BY <1>4, <1>5, <1>6

(* After the resume the tty has no reader: tty_left_cnt = 0 comes after the *)
(* send of RESUME_PROC, and task_tty may be blocked between the two.        *)
LEMMA ResumedStep ==
    ASSUME IInv, TtyResumed
    PROVE  IInv'
<1> USE Processes, WaitValues
<1>0. /\ halted = "no" /\ wait[TASK_TTY] = Run /\ pc[TASK_TTY] = "resumed" /\ Types /\ Protocol
      /\ ReplyIsWanted /\ ReadReturnsLine
      /\ UNCHANGED <<wait, mail, has_int_msg, nr_current_console, in_buf, fs_src, fs_len, asked, halted,
                     line, buf>>
  BY DEF TtyResumed, At, Running, IInv, ipcVars, fsVars
<1>1. PICK c \in Console : c = p_tty
  BY <1>0 DEF Types, TtyTypes
<1>2. PICK t : t = [tty[c] EXCEPT !.left = 0]
  OBVIOUS
<1>3. tty' = [tty EXCEPT ![c] = t]
  BY <1>1, <1>2, Zenon DEF TtyResumed
<1>4. PICK b \in {"read", "receive"} : pc' = [pc EXCEPT ![TASK_TTY] = b] /\ p_tty' \in Console
  BY <1>0, NextPassEffect DEF TtyResumed
<1>5. /\ t \in [caller : Proc, procnr : Proc, left : 0 .. MaxCount, trans : 0 .. MaxCount]
      /\ t.caller = TASK_FS /\ t.left = 0
  <2>1. PICK r \in [caller : Proc, procnr : Proc, left : 0 .. MaxCount, trans : 0 .. MaxCount] :
           r = tty[c] /\ r.caller = TASK_FS
    BY <1>0 DEF Types, TtyTypes, Protocol, Readers
  <2>2. 0 \in 0 .. MaxCount
    BY TerminalAssumption
  <2> QED
    BY <1>2, <2>1, <2>2
<1>6. /\ tty'[c] = t /\ \A d \in Console : d # c => tty'[d] = tty[d]
      /\ tty' \in [Console -> [caller : Proc, procnr : Proc, left : 0 .. MaxCount, trans : 0 .. MaxCount]]
  BY <1>0, <1>3, <1>5 DEF Types, TtyTypes
<1>7. IpcTypes' /\ PcTypes' /\ TtyTypes'
  <2>1. IpcTypes'
    BY <1>0 DEF Types, IpcTypes
  <2>2. PcTypes'
    BY <1>0, <1>4 DEF Types, PcTypes, Label
  <2>3. TtyTypes'
    BY <1>0, <1>4, <1>6 DEF Types, TtyTypes
  <2> QED
    BY <2>1, <2>2, <2>3
<1>8. ~ FsAsked
  BY <1>0 DEF Protocol, FsMail, FsAsked
<1>9. \A v \in Users : FsHas(v)' <=> FsHas(v)
  BY <1>0, <1>4 DEF FsHas, SuspendSent, Types, PcTypes
<1>10. \A v \in Users : Waiting(v)' <=> Waiting(v)
  BY <1>0, <1>4 DEF Waiting, Types, PcTypes
<1>11. \A d \in Console : Live(d)' <=> Live(d) /\ d # c
  BY <1>0, <1>1, <1>4, <1>5, <1>6 DEF Live, Types, PcTypes
<1>12. \A v, n : IsLine(v, n)' <=> IsLine(v, n)
  BY <1>0 DEF IsLine
<1>13. TtyWaits' /\ FsWaits' /\ UsersWait'
  BY <1>0, <1>4 DEF Protocol, TtyWaits, FsWaits, UsersWait, IsCall, Types, PcTypes
<1>14. FsMail'
  BY <1>0, <1>4, <1>8, <1>12 DEF Protocol, FsMail, FsAsked, IsCall, IsRequest, IsAnswer, Types, PcTypes
<1>15. TtyMail'
  BY <1>0, <1>4 DEF TtyMail, Types, PcTypes
<1>16. Readers'
  BY <1>0, <1>5, <1>6, <1>9, <1>10, <1>11, <1>12 DEF Protocol, Readers, Reader
<1>17. Owed'
  BY <1>0, <1>4, <1>9, <1>10 DEF Protocol, Owed, FsMail, Types, PcTypes
<1>s. Served'
  BY <1>0, <1>1, <1>6, <1>9, <1>10, <1>11 DEF Protocol, Served, Alone, Live
<1>18. ReplyIsWanted' /\ ReadReturnsLine'
  BY <1>0, <1>4 DEF ReplyIsWanted, ReadReturnsLine, Running, Types, PcTypes
<1> QED
  BY <1>s, <1>0, <1>7, <1>13, <1>14, <1>15, <1>16, <1>17, <1>18 DEF IInv, Protocol, Types

(* task_tty sends RESUME_PROC for the line of the reader of p_tty: the      *)
(* reader stays alive until task_fs has the message.                        *)
LEMMA ResumeStep ==
    ASSUME IInv, TtyResume
    PROVE  IInv'
<1> USE Processes, WaitValues
<1>0. /\ halted = "no" /\ wait[TASK_TTY] = Run /\ pc[TASK_TTY] = "resume" /\ Types /\ Protocol
      /\ ReplyIsWanted /\ ReadReturnsLine
      /\ UNCHANGED <<nr_current_console, in_buf, tty, p_tty, fs_src, fs_len, asked, line, buf>>
      /\ SendOrPanic(TASK_TTY, tty[p_tty].caller,
                     [NoMessage EXCEPT !.type = "RESUME_PROC", !.PROC_NR = tty[p_tty].procnr,
                                       !.CNT = tty[p_tty].trans], "resumed")
  BY DEF TtyResume, At, Running, IInv, fsVars, ttyVars
<1>1. PICK c \in Console : c = p_tty
  BY <1>0 DEF Types, TtyTypes
<1>2. PICK r \in [caller : Proc, procnr : Proc, left : 0 .. MaxCount, trans : 0 .. MaxCount] :
         r = tty[c]
  BY <1>0 DEF Types, TtyTypes
<1>3. Live(c)
  BY <1>0, <1>1 DEF Live
<1>4. PICK u \in Users :
         /\ r.caller = TASK_FS /\ r.procnr = u /\ Waiting(u) /\ ~ FsHas(u) /\ IsLine(u, r.trans)
         /\ \A d \in Console : Live(d) /\ d # c => tty[d].procnr # u
  BY <1>0, <1>2, <1>3 DEF Protocol, Readers, Reader
<1>5. PICK m : m = [NoMessage EXCEPT !.type = "RESUME_PROC", !.PROC_NR = u, !.CNT = r.trans]
  OBVIOUS
<1>6. m \in Message /\ m.type = "RESUME_PROC" /\ m.PROC_NR = u /\ m.CNT = r.trans
  BY <1>5, Messages DEF Message, Type
<1>7. SendOrPanic(TASK_TTY, TASK_FS, m, "resumed")
  BY <1>0, <1>1, <1>2, <1>4, <1>5
<1>8. TtyTypes'
  BY <1>0 DEF Types, TtyTypes
<1>9. CASE Panic(TASK_TTY, TASK_FS)
  <2>1. ReadReturnsLine'
    BY <1>0, <1>9 DEF ReadReturnsLine, Panic, ipcVars, Running
  <2> QED
    BY <1>8, <1>9, <2>1, PanicStep DEF Panic, ipcVars
<1>10. CASE Send(TASK_TTY, TASK_FS, m) /\ Goto(TASK_TTY, "resumed") /\ UNCHANGED halted
  <2>1. PICK st \in Message : /\ st.type = m.type /\ st.source = TASK_TTY /\ st.CNT = m.CNT
                              /\ st.PROC_NR = m.PROC_NR
                              /\ Sent(TASK_TTY, TASK_FS, st)
    BY <1>6, <1>10, SendEffect
  <2>2. pc' = [pc EXCEPT ![TASK_TTY] = "resumed"] /\ halted' = halted
    BY <1>10 DEF Goto
  <2>3. PcTypes'
    BY <1>0, <2>2 DEF Types, PcTypes, Label
  <2>4. ~ FsAsked
    BY <1>0 DEF Protocol, FsMail, FsAsked
  <2>5. wait[TASK_FS] # Receives(TASK_TTY)
    BY <1>0, <2>4 DEF Protocol, FsWaits, FsAsked, Types, PcTypes
  <2>6. \A v, n : IsLine(v, n)' <=> IsLine(v, n)
    BY <1>0 DEF IsLine
  <2>7. CASE /\ wait[TASK_FS] = Receives(ANY) /\ has_int_msg' = has_int_msg
             /\ mail' = [mail EXCEPT ![TASK_TTY] = NoMessage, ![TASK_FS] = st]
             /\ wait' = [wait EXCEPT ![TASK_FS] = Run]
    <3>1. pc[TASK_FS] = "serve"
      BY <1>0, <2>7 DEF Protocol, FsWaits, Types, PcTypes
    <3>2. IpcTypes'
      BY <1>0, <2>7, Messages DEF Types, IpcTypes
    <3>4. \A v \in Users : FsHas(v)' <=> v = u
      BY <1>0, <1>6, <2>1, <2>2, <2>7, <3>1 DEF FsHas, Types, IpcTypes, PcTypes
    <3>5. \A v \in Users : Waiting(v)' <=> Waiting(v)
      BY <1>0, <2>2, <2>7 DEF Waiting, Types, IpcTypes, PcTypes
    <3>6. \A d \in Console : Live(d)' <=> Live(d) /\ d # c
      BY <1>0, <1>1, <2>2, <2>7 DEF Live, Types, PcTypes, IpcTypes
    <3>7. TtyWaits' /\ FsWaits' /\ UsersWait'
      BY <1>0, <2>2, <2>7, <3>1 DEF Protocol, TtyWaits, FsWaits, UsersWait, IsCall, Types, IpcTypes, PcTypes
    <3>8. FsMail'
      <4>1. mail'[TASK_FS].type = "RESUME_PROC" /\ mail'[TASK_FS].PROC_NR = u
        BY <1>0, <1>6, <2>1, <2>7 DEF Types, IpcTypes
      <4>2. IsLine(u, mail[TASK_FS].CNT)'
        BY <1>0, <1>4, <1>6, <2>1, <2>7 DEF Types, IpcTypes, IsLine
      <4> QED
        BY <1>0, <2>2, <2>7, <3>1, <4>1, <4>2 DEF FsMail, Types, IpcTypes, PcTypes
    <3>9. TtyMail'
      BY <1>0, <2>2, <2>7 DEF TtyMail, Types, IpcTypes, PcTypes
    <3>10. Readers'
      BY <1>0, <1>4, <2>6, <3>4, <3>5, <3>6 DEF Protocol, Readers, Reader
    <3>11. Owed'
      BY <1>0, <1>4, <2>2, <3>1, <3>4, <3>5 DEF Owed, Types, PcTypes
    <3>s. Served'
      BY <1>4, <3>4 DEF Protocol, Served, Alone
    <3>12. ReplyIsWanted' /\ ReadReturnsLine'
      BY <1>0, <2>2, <2>7 DEF ReplyIsWanted, ReadReturnsLine, Running, Types, IpcTypes, PcTypes
    <3> QED
      BY <3>s, <1>8, <2>3, <3>2, <3>7, <3>8, <3>9, <3>10, <3>11, <3>12 DEF IInv, Protocol, Types
  <2>8. CASE /\ wait[TASK_FS] # Receives(ANY) /\ has_int_msg' = has_int_msg
             /\ wait[TASK_FS] # Sends(TASK_TTY)
             /\ mail' = [mail EXCEPT ![TASK_TTY] = st]
             /\ wait' = [wait EXCEPT ![TASK_TTY] = Sends(TASK_FS)]
    <3>2. IpcTypes'
      BY <1>0, <2>8, Messages DEF Types, IpcTypes
    <3>3. SuspendSent' <=> SuspendSent
      BY <1>0, <2>2, <2>4, <2>8 DEF SuspendSent, FsAsked, Types, IpcTypes, PcTypes
    <3>4. \A v \in Users : FsHas(v)' <=> FsHas(v)
      BY <1>0, <2>2, <2>8, <3>3 DEF FsHas, Types, IpcTypes, PcTypes
    <3>5. \A v \in Users : Waiting(v)' <=> Waiting(v)
      BY <1>0, <2>2, <2>8 DEF Waiting, Types, IpcTypes, PcTypes
    <3>6. \A d \in Console : Live(d)' <=> Live(d)
      BY <1>0, <1>1, <2>2, <2>8 DEF Live, Types, PcTypes, IpcTypes
    <3>7. TtyWaits' /\ FsWaits' /\ UsersWait'
      BY <1>0, <2>2, <2>8 DEF Protocol, TtyWaits, FsWaits, UsersWait, IsCall, Types, IpcTypes, PcTypes
    <3>8. FsMail'
      BY <1>0, <2>2, <2>4, <2>6, <2>8
         DEF Protocol, FsMail, FsAsked, IsCall, IsRequest, IsAnswer, Types, IpcTypes, PcTypes
    <3>9. TtyMail'
      BY <1>0, <1>1, <1>2, <1>4, <1>6, <2>1, <2>2, <2>8 DEF TtyMail, Types, IpcTypes, PcTypes
    <3>10. Readers'
      BY <1>0, <2>6, <3>4, <3>5, <3>6 DEF Protocol, Readers, Reader
    <3>11. Owed'
      BY <1>0, <2>2, <3>4, <3>5 DEF Protocol, Owed, FsMail, Types, PcTypes
    <3>s. Served'
      BY <1>0, <3>4, <3>5, <3>6 DEF Protocol, Served, Alone
    <3>12. ReplyIsWanted' /\ ReadReturnsLine'
      BY <1>0, <2>2, <2>8 DEF ReplyIsWanted, ReadReturnsLine, Running, Types, IpcTypes, PcTypes
    <3> QED
      BY <3>s, <1>8, <2>3, <3>2, <3>7, <3>8, <3>9, <3>10, <3>11, <3>12 DEF IInv, Protocol, Types
  <2> QED
    BY <2>1, <2>5, <2>7, <2>8 DEF Sent
<1> QED
  BY <1>7, <1>9, <1>10 DEF SendOrPanic

(* task_tty receives a request of task_fs or a HARD_INT.                    *)
LEMMA TtyReceiveStep ==
    ASSUME IInv, TtyReceive
    PROVE  IInv'
<1> USE Processes, WaitValues
<1>0. /\ halted = "no" /\ wait[TASK_TTY] = Run /\ pc[TASK_TTY] = "receive" /\ Types /\ Protocol
      /\ ReplyIsWanted /\ ReadReturnsLine
      /\ Receive(TASK_TTY, ANY, HardInt)
      /\ pc' = [pc EXCEPT ![TASK_TTY] = "serve"]
      /\ UNCHANGED <<nr_current_console, in_buf, tty, p_tty, fs_src, fs_len, asked, line, buf, halted>>
  BY DEF TtyReceive, At, Running, IInv, fsVars, ttyVars, Goto
<1>1. PcTypes' /\ TtyTypes'
  BY <1>0 DEF Types, PcTypes, TtyTypes, Label
<1>2. \A v, n : IsLine(v, n)' <=> IsLine(v, n)
  BY <1>0 DEF IsLine
<1>3. ~ FsAsked
  BY <1>0 DEF Protocol, FsMail, FsAsked
<1>4. CASE \/ /\ mail' = [mail EXCEPT ![TASK_TTY] = HardInt]
              /\ has_int_msg' = [has_int_msg EXCEPT ![TASK_TTY] = FALSE]
              /\ wait' = wait
           \/ /\ has_int_msg' = has_int_msg
              /\ wait' = [wait EXCEPT ![TASK_TTY] = Receives(ANY)]
              /\ mail' = [mail EXCEPT ![TASK_TTY] = NoMessage]
  <2>1. IpcTypes'
    <3>1. wait' \in [Proc -> WaitState] /\ has_int_msg' \in [Proc -> BOOLEAN]
      BY <1>0, <1>4 DEF Types, IpcTypes
    <3>2. mail' \in [Proc -> Message]
      BY <1>0, <1>4, Messages DEF Types, IpcTypes
    <3> QED
      BY <3>1, <3>2 DEF IpcTypes
  <2>2. \A v \in Users : FsHas(v)' <=> FsHas(v)
    BY <1>0, <1>4 DEF FsHas, SuspendSent, Types, IpcTypes, PcTypes
  <2>3. \A v \in Users : Waiting(v)' <=> Waiting(v)
    BY <1>0, <1>4 DEF Waiting, Types, IpcTypes, PcTypes
  <2>4. \A c \in Console : Live(c)' <=> Live(c)
    BY <1>0, <1>4 DEF Live, Types, PcTypes, IpcTypes
  <2>5. TtyWaits' /\ FsWaits' /\ UsersWait'
    BY <1>0, <1>4 DEF Protocol, TtyWaits, FsWaits, UsersWait, IsCall, Types, IpcTypes, PcTypes
  <2>6. FsMail'
    BY <1>0, <1>2, <1>3, <1>4
       DEF Protocol, FsMail, FsAsked, IsCall, IsRequest, IsAnswer, Types, IpcTypes, PcTypes
  <2>7. TtyMail'
    BY <1>0, <1>4, Messages DEF TtyMail, Types, IpcTypes, PcTypes
  <2>8. Readers'
    BY <1>0, <1>2, <2>2, <2>3, <2>4 DEF Protocol, Readers, Reader
  <2>9. Owed'
    BY <1>0, <2>2, <2>3 DEF Protocol, Owed, FsMail, Types, PcTypes
  <2>s. Served'
    BY <1>0, <2>2, <2>3, <2>4 DEF Protocol, Served, Alone
  <2>10. ReplyIsWanted' /\ ReadReturnsLine'
    BY <1>0, <1>4 DEF ReplyIsWanted, ReadReturnsLine, Running, Types, IpcTypes, PcTypes
  <2> QED
    BY <2>s, <1>1, <2>1, <2>5, <2>6, <2>7, <2>8, <2>9, <2>10 DEF IInv, Protocol, Types
<1>5. ASSUME NEW s \in Proc, wait[s] = Sends(TASK_TTY), has_int_msg' = has_int_msg,
             mail' = [mail EXCEPT ![s] = NoMessage, ![TASK_TTY] = mail[s]],
             wait' = [wait EXCEPT ![s] = Run]
      PROVE  IInv'
  <2>1. s = TASK_FS
    BY <1>0, <1>5 DEF Protocol, UsersWait, Types, PcTypes
  <2>2. pc[TASK_FS] = "both" /\ IsRequest(mail[TASK_FS]) /\ fs_src \in Users
    BY <1>0, <1>5, <2>1 DEF Protocol, FsWaits, FsMail, Types, PcTypes
  <2>3. IpcTypes'
    BY <1>0, <1>5, Messages DEF Types, IpcTypes
  <2>4. \A v \in Users : FsHas(v)' <=> FsHas(v)
    BY <1>0, <1>5, <2>1, <2>2 DEF FsHas, SuspendSent, Types, IpcTypes, PcTypes
  <2>5. \A v \in Users : Waiting(v)' <=> Waiting(v)
    BY <1>0, <1>5, <2>1 DEF Waiting, Types, IpcTypes, PcTypes
  <2>6. \A c \in Console : Live(c)' <=> Live(c)
    BY <1>0, <1>5, <2>1 DEF Live, Types, PcTypes, IpcTypes
  <2>7. TtyWaits' /\ FsWaits' /\ UsersWait'
    BY <1>0, <1>5, <2>1, <2>2 DEF Protocol, TtyWaits, FsWaits, UsersWait, IsCall, Types, IpcTypes, PcTypes
  <2>8. IsRequest(mail[TASK_TTY])' /\ mail'[TASK_TTY].type # "HARD_INT"
    <3>1. mail'[TASK_TTY] = mail[TASK_FS]
      BY <1>0, <1>5, <2>1 DEF Types, IpcTypes
    <3>2. asked[fs_src].call \in Call
      BY <1>0, <2>2 DEF Types, TtyTypes
    <3>3. DevRequest(asked[fs_src].call) # "HARD_INT"
      BY <3>2 DEF Call, DevRequest
    <3> QED
      BY <1>0, <2>2, <3>1, <3>3 DEF IsRequest
  <2>9. FsMail'
    BY <1>0, <1>5, <2>1, <2>2, <2>8 DEF FsMail, Types, IpcTypes, PcTypes
  <2>10. TtyMail'
    BY <1>0, <1>5, <2>1, <2>2, <2>8 DEF TtyMail, FsAsked, Types, IpcTypes, PcTypes
  <2>11. Readers'
    BY <1>0, <1>2, <2>4, <2>5, <2>6 DEF Protocol, Readers, Reader
  <2>12. Owed'
    BY <1>0, <2>2, <2>4, <2>5 DEF Protocol, Owed, Types, PcTypes
  <2>s. Served'
    BY <1>0, <2>4, <2>5, <2>6 DEF Protocol, Served, Alone
  <2>13. ReplyIsWanted' /\ ReadReturnsLine'
    BY <1>0, <1>5, <2>1 DEF ReplyIsWanted, ReadReturnsLine, Running, Types, IpcTypes, PcTypes
  <2> QED
    BY <2>s, <1>1, <2>3, <2>7, <2>9, <2>10, <2>11, <2>12, <2>13 DEF IInv, Protocol, Types
<1> QED
  BY <1>0, <1>4, <1>5, ReceiveAny

(* What an answer of task_tty leaves to be shown about the readers.         *)
LEMMA AnswerSent ==
    ASSUME IInv, halted = "no", wait[TASK_TTY] = Run, pc[TASK_TTY] = "serve",
           mail[TASK_TTY].type # "HARD_INT",
           NEW st \in Message, st.type \in {"SYSCALL_RET", "SUSPEND_PROC"},
           st.type = "SUSPEND_PROC" <=> asked[fs_src].call = "READ",
           Sent(TASK_TTY, TASK_FS, st), pc' = [pc EXCEPT ![TASK_TTY] = "read"],
           UNCHANGED <<fs_src, asked, halted>>
    PROVE  /\ IpcTypes' /\ PcTypes' /\ UsersWait' /\ TtyWaits' /\ FsWaits' /\ FsMail' /\ TtyMail'
           /\ Owed' /\ ReplyIsWanted'
           /\ \A v \in Users : FsHas(v)' <=> v = fs_src /\ st.type # "SUSPEND_PROC"
           /\ FsHas(fs_src) /\ fs_src \in Users /\ wait'[TASK_TTY] # Sends(TASK_TTY)
           /\ \A v \in Users : Waiting(v)' <=> Waiting(v)
           /\ \A v \in Users : /\ wait'[v] = wait[v] /\ pc'[v] = pc[v]
                               /\ mail'[v] = mail[v]
<1> USE Processes, WaitValues
<1>0. Types /\ Protocol /\ ReplyIsWanted
  BY DEF IInv
<1>1. FsAsked /\ fs_src \in Users
  BY <1>0 DEF Protocol, TtyMail, FsMail, FsAsked
<1>2. FsHas(fs_src) /\ Waiting(fs_src)
  BY <1>0, <1>1 DEF FsHas, SuspendSent, FsAsked, Protocol, Owed
<1>3. PcTypes'
  BY <1>0 DEF Types, PcTypes, Label
<1>4. CASE /\ pc[TASK_FS] = "return" /\ wait[TASK_FS] = Receives(TASK_TTY)
           /\ has_int_msg' = has_int_msg
           /\ mail' = [mail EXCEPT ![TASK_TTY] = NoMessage, ![TASK_FS] = st]
           /\ wait' = [wait EXCEPT ![TASK_FS] = Run]
  <2>1. IpcTypes'
    BY <1>0, <1>4, Messages DEF Types, IpcTypes
  <2>2. SuspendSent' <=> st.type = "SUSPEND_PROC"
    BY <1>0, <1>4 DEF SuspendSent, Types, IpcTypes, PcTypes
  <2>3. \A v \in Users : FsHas(v)' <=> v = fs_src /\ st.type # "SUSPEND_PROC"
    BY <1>0, <1>4, <2>2 DEF FsHas, Types, IpcTypes, PcTypes
  <2>4. /\ \A v \in Users : Waiting(v)' <=> Waiting(v)
        /\ \A v \in Users : wait'[v] = wait[v] /\ pc'[v] = pc[v] /\ mail'[v] = mail[v]
        /\ wait'[TASK_TTY] # Sends(TASK_TTY)
    BY <1>0, <1>4 DEF Waiting, Types, IpcTypes, PcTypes
  <2>5. TtyWaits' /\ FsWaits' /\ UsersWait'
    BY <1>0, <1>4 DEF Protocol, TtyWaits, FsWaits, UsersWait, IsCall, Types, IpcTypes, PcTypes
  <2>6. FsMail'
    BY <1>0, <1>1, <1>4 DEF FsMail, IsAnswer, Types, IpcTypes, PcTypes
  <2>7. TtyMail'
    BY <1>0, <1>4 DEF TtyMail, Types, IpcTypes, PcTypes
  <2>8. Owed'
    BY <1>0, <1>1, <1>2, <2>3, <2>4 DEF Owed
  <2>9. ReplyIsWanted'
    BY <1>0, <1>4 DEF ReplyIsWanted, Types, IpcTypes, PcTypes
  <2> QED
    BY <1>1, <1>2, <1>3, <2>1, <2>3, <2>4, <2>5, <2>6, <2>7, <2>8, <2>9
<1>5. CASE /\ pc[TASK_FS] = "both" /\ wait[TASK_FS] = Run
           /\ has_int_msg' = has_int_msg
           /\ mail' = [mail EXCEPT ![TASK_TTY] = st]
           /\ wait' = [wait EXCEPT ![TASK_TTY] = Sends(TASK_FS)]
  <2>1. IpcTypes'
    BY <1>0, <1>5, Messages DEF Types, IpcTypes
  <2>2. SuspendSent' <=> st.type = "SUSPEND_PROC"
    BY <1>0, <1>5 DEF SuspendSent, Types, IpcTypes, PcTypes
  <2>3. \A v \in Users : FsHas(v)' <=> v = fs_src /\ st.type # "SUSPEND_PROC"
    BY <1>0, <1>5, <2>2 DEF FsHas, Types, IpcTypes, PcTypes
  <2>4. /\ \A v \in Users : Waiting(v)' <=> Waiting(v)
        /\ \A v \in Users : wait'[v] = wait[v] /\ pc'[v] = pc[v] /\ mail'[v] = mail[v]
        /\ wait'[TASK_TTY] # Sends(TASK_TTY)
    BY <1>0, <1>5 DEF Waiting, Types, IpcTypes, PcTypes
  <2>5. TtyWaits' /\ FsWaits' /\ UsersWait'
    BY <1>0, <1>5 DEF Protocol, TtyWaits, FsWaits, UsersWait, IsCall, Types, IpcTypes, PcTypes
  <2>6. FsMail'
    BY <1>0, <1>1, <1>5 DEF FsMail, IsAnswer, Types, IpcTypes, PcTypes
  <2>7. TtyMail'
    BY <1>0, <1>5 DEF TtyMail, Types, IpcTypes, PcTypes
  <2>8. Owed'
    BY <1>0, <1>1, <1>2, <2>3, <2>4 DEF Owed
  <2>9. ReplyIsWanted'
    BY <1>0, <1>5 DEF ReplyIsWanted, Types, IpcTypes, PcTypes
  <2> QED
    BY <1>1, <1>2, <1>3, <2>1, <2>3, <2>4, <2>5, <2>6, <2>7, <2>8, <2>9
<1> QED
  BY <1>1, <1>4, <1>5 DEF FsAsked, Sent

(* Opening and writing change nothing of the ttys.                          *)
LEMMA AnswerStep ==
    ASSUME IInv, halted = "no", wait[TASK_TTY] = Run, pc[TASK_TTY] = "serve",
           mail[TASK_TTY].type \in {"DEV_OPEN", "DEV_WRITE"},
           NEW m \in Message, m.type = "SYSCALL_RET",
           SendOrPanic(TASK_TTY, mail[TASK_TTY].source, m, "read"),
           UNCHANGED <<nr_current_console, in_buf, tty, p_tty, fs_src, fs_len, asked, line, buf>>
    PROVE  IInv'
<1> USE Processes, WaitValues
<1>0. Types /\ Protocol /\ ReplyIsWanted /\ ReadReturnsLine
  BY DEF IInv
<1>1. IsRequest(mail[TASK_TTY]) /\ fs_src \in Users
  BY <1>0 DEF Protocol, TtyMail, FsMail, FsAsked
<1>2. asked[fs_src].call # "READ" /\ mail[TASK_TTY].source = TASK_FS
  BY <1>1 DEF IsRequest, DevRequest
<1>3. TtyTypes'
  BY <1>0 DEF Types, TtyTypes
<1>4. CASE Panic(TASK_TTY, TASK_FS)
  <2>1. ReadReturnsLine'
    BY <1>0, <1>4 DEF ReadReturnsLine, Panic, ipcVars, Running
  <2> QED
    BY <1>3, <1>4, <2>1, PanicStep DEF Panic, ipcVars
<1>5. CASE Send(TASK_TTY, TASK_FS, m) /\ Goto(TASK_TTY, "read") /\ UNCHANGED halted
  <2>1. PICK st \in Message : st.type = m.type /\ Sent(TASK_TTY, TASK_FS, st)
    BY <1>5, SendEffect
  <2>2. pc' = [pc EXCEPT ![TASK_TTY] = "read"] /\ halted' = halted
    BY <1>5 DEF Goto
  <2>3. /\ IpcTypes' /\ PcTypes' /\ UsersWait' /\ TtyWaits' /\ FsWaits' /\ FsMail' /\ TtyMail'
        /\ Owed' /\ ReplyIsWanted'
        /\ \A v \in Users : FsHas(v)' <=> v = fs_src
        /\ FsHas(fs_src)
        /\ \A v \in Users : Waiting(v)' <=> Waiting(v)
        /\ \A v \in Users : wait'[v] = wait[v] /\ pc'[v] = pc[v] /\ mail'[v] = mail[v]
    BY <1>2, <2>1, <2>2, AnswerSent
  <2>4. pc'[TASK_TTY] = "read"
    BY <1>0, <2>2 DEF Types, PcTypes
  <2>5. \A c \in Console : Live(c)' <=> Live(c)
    BY <2>4 DEF Live
  <2>6. \A v, n : IsLine(v, n)' <=> IsLine(v, n)
    BY DEF IsLine
  <2>7. Readers'
    BY <1>0, <1>1, <2>3, <2>5, <2>6 DEF Protocol, Readers, Reader
  <2>8. ReadReturnsLine'
    BY <1>0, <2>3 DEF ReadReturnsLine, Running
  <2>s. Served'
    BY <1>1, <2>3 DEF Served, Alone
  <2> QED
    BY <2>s, <1>3, <2>3, <2>7, <2>8 DEF IInv, Protocol, Types
<1> QED
  BY <1>2, <1>4, <1>5 DEF SendOrPanic

(* DEV_OPEN is answered with SYSCALL_RET.                                   *)
LEMMA OpensStep ==
    ASSUME IInv, TtyOpens
    PROVE  IInv'
<1>0. /\ halted = "no" /\ wait[TASK_TTY] = Run /\ pc[TASK_TTY] = "serve"
      /\ mail[TASK_TTY].type = "DEV_OPEN"
      /\ UNCHANGED <<nr_current_console, in_buf, tty, p_tty, fs_src, fs_len, asked, line, buf>>
      /\ SendOrPanic(TASK_TTY, mail[TASK_TTY].source, [NoMessage EXCEPT !.type = "SYSCALL_RET"], "read")
  BY DEF TtyOpens, At, Running, IInv, fsVars, ttyVars
<1>1. PICK m : m = [NoMessage EXCEPT !.type = "SYSCALL_RET"]
  OBVIOUS
<1>2. m \in Message /\ m.type = "SYSCALL_RET"
  BY <1>1, Messages DEF Message, Type
<1> QED
  BY <1>0, <1>1, <1>2, AnswerStep

(* tty_do_write is answered with SYSCALL_RET.                               *)
LEMMA DoWriteStep ==
    ASSUME IInv, tty_do_write
    PROVE  IInv'
<1>0. /\ halted = "no" /\ wait[TASK_TTY] = Run /\ pc[TASK_TTY] = "serve" /\ Types
      /\ mail[TASK_TTY].type = "DEV_WRITE"
      /\ UNCHANGED <<nr_current_console, in_buf, tty, p_tty, fs_src, fs_len, asked, line, buf>>
      /\ SendOrPanic(TASK_TTY, mail[TASK_TTY].source,
                     [mail[TASK_TTY] EXCEPT !.type = "SYSCALL_RET"], "read")
  BY DEF tty_do_write, At, Running, IInv, fsVars, ttyVars
<1>1. PICK x \in Message : x = mail[TASK_TTY]
  BY <1>0, Processes DEF Types, IpcTypes
<1>2. PICK m : m = [x EXCEPT !.type = "SYSCALL_RET"]
  OBVIOUS
<1>3. m \in Message /\ m.type = "SYSCALL_RET"
  BY <1>2 DEF Message, Type
<1> QED
  BY <1>0, <1>1, <1>2, <1>3, AnswerStep

(* tty_do_read makes the process that task_fs works for the reader of the   *)
(* tty, in place of one that was there, and suspends it.                    *)
LEMMA DoReadStep ==
    ASSUME IInv, tty_do_read
    PROVE  IInv'
<1> USE Processes, WaitValues
<1>0. /\ halted = "no" /\ wait[TASK_TTY] = Run /\ pc[TASK_TTY] = "serve" /\ Types /\ Protocol
      /\ ReplyIsWanted /\ ReadReturnsLine
      /\ mail[TASK_TTY].type = "DEV_READ"
      /\ UNCHANGED <<nr_current_console, in_buf, p_tty, fs_src, fs_len, asked, buf>>
  BY DEF tty_do_read, At, Running, IInv, fsVars
<1>1. PICK x \in Message : x = mail[TASK_TTY]
  BY <1>0 DEF Types, IpcTypes
<1>2. PICK u \in Users : /\ u = fs_src /\ x.source = TASK_FS /\ x.PROC_NR = u
                         /\ asked[u].call = "READ" /\ x.CNT = asked[u].count /\ FsAsked
                         /\ FsHas(u) /\ Waiting(u)
  <2>1. IsRequest(mail[TASK_TTY]) /\ fs_src \in Users /\ FsAsked
    BY <1>0 DEF Protocol, TtyMail, FsMail, FsAsked
  <2>2. asked[fs_src].call = "READ"
    <3>1. asked[fs_src].call \in Call
      BY <1>0, <2>1 DEF Types, TtyTypes
    <3> QED
      BY <1>0, <2>1, <3>1 DEF IsRequest, DevRequest, Call
  <2>3. FsHas(fs_src)
    BY <1>0, <2>1 DEF FsHas, SuspendSent, FsAsked
  <2> QED
    BY <1>0, <1>1, <2>1, <2>2, <2>3 DEF IsRequest, Protocol, Owed
<1>3. PICK m : m = Suspended(x)
  OBVIOUS
<1>4. m \in Message /\ m.type = "SUSPEND_PROC"
  BY <1>3 DEF Suspended, Message, Type
<1>5. PICK c \in Console : c = x.DEVICE
  BY DEF Message
<1>6. PICK t : t = [caller |-> TASK_FS, procnr |-> u, left |-> x.CNT, trans |-> 0]
  OBVIOUS
<1>7. /\ tty' = [tty EXCEPT ![c] = t] /\ line' = [line EXCEPT ![u] = <<>>]
      /\ SendOrPanic(TASK_TTY, TASK_FS, m, "read")
  BY <1>1, <1>2, <1>3, <1>5, <1>6 DEF tty_do_read
<1>8. PICK k \in Nat : k = asked[u].count /\ k > 0 /\ k <= MaxCount
  BY <1>0, <1>2, TerminalAssumption DEF Types, TtyTypes, Protocol, UsersWait
<1>9. /\ t.caller = TASK_FS /\ t.procnr = u /\ t.left = k /\ t.trans = 0
      /\ t \in [caller : Proc, procnr : Proc, left : 0 .. MaxCount, trans : 0 .. MaxCount]
  BY <1>2, <1>6, <1>8, TerminalAssumption
<1>10. /\ line'[u] = <<>> /\ (\A v \in Users : v # u => line'[v] = line[v])
       /\ line' \in [Users -> Seq(Printable)]
  BY <1>0, <1>7 DEF Types, TtyTypes
<1>11. /\ tty'[c] = t /\ (\A d \in Console : d # c => tty'[d] = tty[d])
       /\ tty' \in [Console -> [caller : Proc, procnr : Proc, left : 0 .. MaxCount, trans : 0 .. MaxCount]]
  BY <1>0, <1>7, <1>9 DEF Types, TtyTypes
<1>12. TtyTypes'
  BY <1>0, <1>10, <1>11 DEF Types, TtyTypes
<1>13. \A v \in Users : \A n : v # u => (IsLine(v, n)' <=> IsLine(v, n))
  BY <1>0, <1>10 DEF IsLine
<1>14. ASSUME \A v \in Users : wait'[v] = wait[v] /\ pc'[v] = pc[v] /\ mail'[v] = mail[v]
       PROVE  ReadReturnsLine'
  BY <1>0, <1>2, <1>10, <1>14 DEF ReadReturnsLine, Running, Waiting
<1>15. CASE Panic(TASK_TTY, TASK_FS)
  BY <1>12, <1>14, <1>15, PanicStep DEF Panic, ipcVars
<1>16. CASE Send(TASK_TTY, TASK_FS, m) /\ Goto(TASK_TTY, "read") /\ UNCHANGED halted
  <2>1. PICK st \in Message : st.type = m.type /\ Sent(TASK_TTY, TASK_FS, st)
    BY <1>4, <1>16, SendEffect
  <2>2. pc' = [pc EXCEPT ![TASK_TTY] = "read"] /\ halted' = halted
    BY <1>16 DEF Goto
  <2>3. /\ IpcTypes' /\ PcTypes' /\ UsersWait' /\ TtyWaits' /\ FsWaits' /\ FsMail' /\ TtyMail'
        /\ Owed' /\ ReplyIsWanted'
        /\ \A v \in Users : ~ FsHas(v)'
        /\ \A v \in Users : Waiting(v)' <=> Waiting(v)
        /\ \A v \in Users : wait'[v] = wait[v] /\ pc'[v] = pc[v] /\ mail'[v] = mail[v]
    <3>1. st.type = "SUSPEND_PROC" /\ mail[TASK_TTY].type # "HARD_INT" /\ asked[fs_src].call = "READ"
          /\ UNCHANGED <<fs_src, asked, halted>>
      BY <1>0, <1>2, <1>4, <2>1, <2>2
    <3> QED
      BY <1>0, <2>1, <2>2, <3>1, AnswerSent
  <2>4. pc'[TASK_TTY] = "read"
    BY <1>0, <2>2 DEF Types, PcTypes
  <2>5. Live(c)' /\ \A d \in Console : d # c => (Live(d)' <=> Live(d))
    BY <1>0, <1>8, <1>9, <1>11, <2>4 DEF Live
  <2>6. \A d \in Console : Live(d) => tty[d].procnr # u
    BY <1>0, <1>2 DEF Protocol, Readers, Reader
  <2>7. Readers'
    <3>1. \A d \in Console : tty'[d].caller = TASK_FS
      BY <1>0, <1>9, <1>11 DEF Protocol, Readers
    <3>2. ASSUME NEW d \in Console, Live(d)'
          PROVE  Reader(d, tty[d].procnr)'
      <4>1. CASE d = c
        <5>1. IsLine(u, 0)'
          BY <1>0, <1>8, <1>10 DEF IsLine
        <5>2. /\ tty'[d] = t /\ Waiting(u)' /\ ~ FsHas(u)' /\ asked'[u].call = "READ"
              /\ t.trans + t.left = asked'[u].count
          BY <1>0, <1>2, <1>8, <1>9, <1>11, <2>3, <4>1
        <5> QED
          BY <1>9, <5>1, <5>2 DEF Reader
      <4>2. CASE d # c
        <5>1. tty'[d] = tty[d] /\ Live(d)
          BY <1>11, <2>5, <3>2, <4>2
        <5>2. PICK v : v = tty[d].procnr
          OBVIOUS
        <5>3. Reader(d, v) /\ v \in Users /\ v # u
          BY <1>0, <2>6, <5>1, <5>2 DEF Protocol, Readers, Reader
        <5>4. Reader(d, v)'
          BY <1>0, <1>13, <2>3, <5>1, <5>3 DEF Reader
        <5> QED
          BY <5>1, <5>2, <5>4
      <4> QED
        BY <4>1, <4>2
    <3>3. ASSUME NEW d \in Console, NEW e \in Console, Live(d)', Live(e)',
                 tty'[d].procnr = tty'[e].procnr
          PROVE  d = e
      BY <1>0, <1>9, <1>11, <2>5, <2>6, <3>3 DEF Protocol, Readers
    <3> QED
      BY <3>1, <3>2, <3>3 DEF Readers
  <2>8. ReadReturnsLine'
    BY <1>14, <2>3
  <2>s. Served'
    BY <1>9, <1>11, <2>5 DEF Served, Alone
  <2> QED
    BY <2>s, <1>12, <2>3, <2>7, <2>8 DEF IInv, Protocol, Types
<1> QED
  BY <1>7, <1>15, <1>16 DEF SendOrPanic

(* Every step of task_tty keeps the invariant.                              *)
LEMMA TaskTtyStep ==
    ASSUME IInv, TaskTty
    PROVE  IInv'
BY DevReadStep, DevWriteStep, ResumeStep, ResumedStep, TtyReceiveStep, InformedStep, OpensStep,
   DoReadStep, DoWriteStep DEF TaskTty

-----------------------------------------------------------------------------
(* The invariant *)

(* Nobody reads and nobody waits at first.                                  *)
LEMMA IInvInit == Init => IInv
<1> SUFFICES ASSUME Init PROVE IInv
  OBVIOUS
<1> USE Processes, WaitValues
<1>1. /\ wait = [p \in Proc |-> Run] /\ mail = [p \in Proc |-> NoMessage]
      /\ has_int_msg = [p \in Proc |-> FALSE]
      /\ nr_current_console = 0 /\ in_buf = [c \in Console |-> <<>>]
      /\ tty = [c \in Console |-> [caller |-> TASK_FS, procnr |-> TASK_FS, left |-> 0, trans |-> 0]]
      /\ line = [u \in Users |-> <<>>]
      /\ asked = [u \in Users |-> [call |-> "OPEN", count |-> 0]]
      /\ buf = [u \in Users |-> [i \in 1 .. MaxCount |-> "none"]]
      /\ p_tty = 0 /\ fs_src = TASK_FS /\ fs_len = 0 /\ halted = "no"
  BY DEF Init, IpcInit
<1>2. pc = [p \in Proc |-> CASE p = TASK_TTY -> "read"
                             [] p = TASK_FS  -> "receive"
                             [] OTHER        -> "user"]
  BY DEF Init
<1>3. /\ pc \in [Proc -> Label] /\ pc[TASK_TTY] = "read" /\ pc[TASK_FS] = "receive"
      /\ \A u \in Users : pc[u] = "user"
  BY <1>2 DEF Label
<1>4. 0 \in Console /\ 0 \in 0 .. MaxCount
  BY TerminalAssumption DEF Console
<1>5. IpcTypes /\ PcTypes /\ TtyTypes
  <2>1. IpcTypes
    BY <1>1, Messages DEF IpcTypes
  <2>2. PcTypes
    BY <1>3 DEF PcTypes
  <2>3. [i \in 1 .. MaxCount |-> "none"] \in [1 .. MaxCount -> Printable \cup {"none"}]
    OBVIOUS
  <2>4. TtyTypes
    BY <1>1, <1>4, <2>3 DEF TtyTypes, Call
  <2> QED
    BY <2>1, <2>2, <2>4
<1>6. /\ \A p \in Proc : wait[p] = Run
      /\ \A c \in Console : tty[c].left = 0 /\ tty[c].caller = TASK_FS
      /\ \A u \in Users : asked[u].call = "OPEN"
      /\ ~ has_int_msg[TASK_FS]
  BY <1>1
<1>7. /\ \A u \in Users : ~ FsHas(u) /\ ~ Waiting(u)
      /\ \A c \in Console : ~ Live(c)
  BY <1>3, <1>6 DEF FsHas, Waiting, Live
<1>8. UsersWait /\ TtyWaits /\ FsWaits
  BY <1>3, <1>6 DEF UsersWait, TtyWaits, FsWaits
<1>9. FsMail /\ TtyMail
  BY <1>3, <1>6 DEF FsMail, TtyMail
<1>10. Readers /\ Owed /\ Served
  BY <1>3, <1>6, <1>7 DEF Readers, Owed, Served
<1>11. ReplyIsWanted /\ ReadReturnsLine
  BY <1>3, <1>6 DEF ReplyIsWanted, ReadReturnsLine
<1> QED
  BY <1>5, <1>8, <1>9, <1>10, <1>11 DEF IInv, Protocol, Types

(* A step that leaves the state of the protocol.                            *)
LEMMA IInvKept ==
    ASSUME IInv, UNCHANGED <<wait, mail, has_int_msg, nr_current_console, in_buf, tty, line, buf,
                             asked, pc, p_tty, fs_src, fs_len, halted>>
    PROVE  IInv'
<1>1. Types'
  BY DEF IInv, Types, IpcTypes, PcTypes, TtyTypes
<1>2. ReplyIsWanted' /\ ReadReturnsLine'
  BY DEF IInv, ReplyIsWanted, ReadReturnsLine, Running
<1>3. Protocol => Protocol'
  BY DEF Protocol, UsersWait, TtyWaits, FsWaits, FsMail, TtyMail, Readers, Reader, Owed, Served, Live,
         Waiting, FsHas, SuspendSent, FsAsked, IsCall, IsRequest, IsAnswer, IsLine
<1> QED
  BY <1>1, <1>2, <1>3 DEF IInv

(* The invariant is inductive.                                              *)
LEMMA IInvStep == IInv /\ [Next]_vars => IInv'
<1> SUFFICES ASSUME IInv, [Next]_vars PROVE IInv'
  OBVIOUS
<1>1. CASE TaskTty
  BY <1>1, TaskTtyStep
<1>2. CASE TaskFs
  BY <1>2, TaskFsStep
<1>3. ASSUME NEW u \in Users,
             \/ UserBoth(u) \/ UserReturns(u)
             \/ \E call \in Call, c \in Console, n \in 0 .. MaxCount : UserCalls(u, call, c, n)
      PROVE  IInv'
  BY <1>3, UserBothStep, UserReturnsStep, UserCallsStep
<1>4. CASE \E code \in Code : keyboard_handler(code)
  BY <1>4, IInvKept DEF keyboard_handler, ipcVars, fsVars
<1>5. CASE clock_handler
  BY <1>5, ClockStep
<1>6. CASE Stopped
  BY <1>6, IInvKept DEF Stopped, vars, ipcVars, fsVars, ttyVars
<1>7. CASE UNCHANGED vars
  BY <1>7, IInvKept DEF vars, ipcVars, fsVars, ttyVars
<1> QED
  BY <1>1, <1>2, <1>3, <1>4, <1>5, <1>6, <1>7 DEF Next

(* The invariant holds in every reachable state.                            *)
LEMMA Invariance == Spec => []IInv
BY IInvInit, IInvStep, PTL DEF Spec

(* task_fs never sends to a process that is not about to receive, for any   *)
(* number of readers, terminals and keys: no read is answered twice, and    *)
(* fs/main.c's SEND of an answer never blocks the file system for good.     *)
THEOREM RepliesAreWanted == Spec => []ReplyIsWanted
BY Invariance, PTL DEF IInv

(* read() on a terminal returns the line as the typist sees it: as many     *)
(* characters as are left after the backspaces, in the buffer of the        *)
(* caller, and no more than it asked for (tty_dev_write, kernel/tty.c).     *)
THEOREM ReadsReturnLines == Spec => []ReadReturnsLine
BY Invariance, PTL DEF IInv

(* A process that reads alone is not forgotten: when both tasks are idle,   *)
(* some tty still wants keys for it (kernel/tty.c:150-196).                 *)
THEOREM SuspendedAreServed ==
    ASSUME \A u, v \in Users : u = v
    PROVE  Spec => []SuspendedIsServed
<1> USE Processes, WaitValues
<1>1. IInv => SuspendedIsServed
  <2> SUFFICES ASSUME IInv, halted = "no", Idle(TASK_FS), Idle(TASK_TTY),
                      NEW u \in Users, wait[u] = Receives(TASK_FS)
               PROVE  \E c \in Console : tty[c].procnr = u /\ tty[c].left > 0
    BY DEF SuspendedIsServed
  <2>1. wait[TASK_FS] = Receives(ANY) /\ wait[TASK_TTY] = Receives(ANY) /\ Types /\ Protocol
    BY DEF Idle, IInv
  <2>2. pc[TASK_FS] = "serve" /\ pc[TASK_TTY] = "serve" /\ pc[u] = "return"
    BY <2>1 DEF Protocol, FsWaits, TtyWaits, UsersWait, Types, PcTypes
  <2>3. Waiting(u) /\ ~ FsHas(u)
    BY <2>1, <2>2 DEF Waiting, FsHas
  <2>4. PICK c \in Console : Live(c) /\ tty[c].procnr = u
    BY <2>1, <2>3 DEF Protocol, Served, Alone
  <2> QED
    BY <2>2, <2>4 DEF Live
<1> QED
  BY <1>1, Invariance, PTL

-----------------------------------------------------------------------------
(* The ring of scan codes *)

(* The i-th place from p_tail on. *)
Place(i) == IF kb_in.p_tail + i < KB_IN_BYTES THEN kb_in.p_tail + i
                                              ELSE kb_in.p_tail + i - KB_IN_BYTES

(* The ring holds pending, from p_tail on and round the end of buf, and    *)
(* p_head is the first place behind it.                                     *)
Ring ==
    /\ kb_in \in [buf : [0 .. KB_IN_BYTES - 1 -> Code], p_head : 0 .. KB_IN_BYTES - 1,
                  p_tail : 0 .. KB_IN_BYTES - 1, count : 0 .. KB_IN_BYTES]
    /\ pending \in Seq(Code)
    /\ kb_in.p_head = Place(kb_in.count)
    /\ Len(pending) = kb_in.count
    /\ \A i \in 0 .. KB_IN_BYTES - 1 : i < kb_in.count => kb_in.buf[Place(i)] = pending[i + 1]

(* The ring is empty at first.                                              *)
LEMMA RingInit == Init => Ring
<1> SUFFICES ASSUME Init PROVE Ring
  OBVIOUS
<1>1. /\ kb_in = [buf |-> [i \in 0 .. KB_IN_BYTES - 1 |-> "other"], p_head |-> 0, p_tail |-> 0, count |-> 0]
      /\ pending = <<>>
  BY DEF Init
<1>2. KB_IN_BYTES \in Nat \ {0} /\ "other" \in Code
  BY TerminalAssumption DEF Code
<1>3. [i \in 0 .. KB_IN_BYTES - 1 |-> "other"] \in [0 .. KB_IN_BYTES - 1 -> Code]
  BY <1>2
<1> QED
  BY <1>1, <1>2, <1>3 DEF Ring, Place

(* Neither keyboard_handler nor keyboard_read leaves the ring out of step.  *)
LEMMA RingStep == Ring /\ [Next]_vars => Ring'
<1> SUFFICES ASSUME Ring, [Next]_vars PROVE Ring'
  OBVIOUS
<1>0. KB_IN_BYTES \in Nat /\ KB_IN_BYTES > 0
  BY TerminalAssumption
<1>a. PICK bf \in [0 .. KB_IN_BYTES - 1 -> Code], h \in 0 .. KB_IN_BYTES - 1,
           a \in 0 .. KB_IN_BYTES - 1, n \in 0 .. KB_IN_BYTES :
         kb_in = [buf |-> bf, p_head |-> h, p_tail |-> a, count |-> n]
  <2>1. kb_in \in [buf : [0 .. KB_IN_BYTES - 1 -> Code], p_head : 0 .. KB_IN_BYTES - 1,
                   p_tail : 0 .. KB_IN_BYTES - 1, count : 0 .. KB_IN_BYTES]
    BY DEF Ring
  <2>2. /\ kb_in.buf \in [0 .. KB_IN_BYTES - 1 -> Code] /\ kb_in.p_head \in 0 .. KB_IN_BYTES - 1
        /\ kb_in.p_tail \in 0 .. KB_IN_BYTES - 1 /\ kb_in.count \in 0 .. KB_IN_BYTES
    BY <2>1
  <2>3. kb_in = [buf |-> kb_in.buf, p_head |-> kb_in.p_head, p_tail |-> kb_in.p_tail, count |-> kb_in.count]
    BY <2>1
  <2> QED
    BY <2>2, <2>3
<1>b. kb_in.buf = bf /\ kb_in.p_head = h /\ kb_in.p_tail = a /\ kb_in.count = n
  BY <1>a
<1>c. PICK p \in Seq(Code) : p = pending
  BY DEF Ring
<1>1. /\ kb_in = [buf |-> bf, p_head |-> h, p_tail |-> a, count |-> n] /\ p = pending
      /\ Len(p) = n
      /\ h = IF a + n < KB_IN_BYTES THEN a + n ELSE a + n - KB_IN_BYTES
      /\ \A i \in 0 .. KB_IN_BYTES - 1 : i < n =>
            bf[IF a + i < KB_IN_BYTES THEN a + i ELSE a + i - KB_IN_BYTES] = p[i + 1]
  <2>1. Len(p) = n /\ h = IF a + n < KB_IN_BYTES THEN a + n ELSE a + n - KB_IN_BYTES
    BY <1>b, <1>c DEF Ring, Place
  <2>2. \A i \in 0 .. KB_IN_BYTES - 1 : i < n =>
            bf[IF a + i < KB_IN_BYTES THEN a + i ELSE a + i - KB_IN_BYTES] = p[i + 1]
    BY <1>b, <1>c DEF Ring, Place
  <2> QED
    BY <1>a, <1>c, <2>1, <2>2
<1>2. CASE UNCHANGED <<kb_in, pending>>
  BY <1>2 DEF Ring, Place
<1>3. CASE /\ n < KB_IN_BYTES
           /\ \E code \in Code :
                /\ kb_in' = [buf |-> [bf EXCEPT ![h] = code], p_head |-> Advance(h),
                             p_tail |-> a, count |-> n + 1]
                /\ pending' = Append(p, code)
  <2>1. PICK code \in Code :
                /\ kb_in' = [buf |-> [bf EXCEPT ![h] = code], p_head |-> Advance(h),
                             p_tail |-> a, count |-> n + 1]
                /\ pending' = Append(p, code)
    BY <1>3
  <2>2. PICK b2 : b2 = [bf EXCEPT ![h] = code]
    OBVIOUS
  <2>3. b2 \in [0 .. KB_IN_BYTES - 1 -> Code]
    BY <2>2
  <2>4. Advance(h) \in 0 .. KB_IN_BYTES - 1
        /\ Advance(h) = IF a + (n + 1) < KB_IN_BYTES THEN a + (n + 1) ELSE a + (n + 1) - KB_IN_BYTES
    BY <1>0, <1>1, <1>3 DEF Advance
  <2>5. ASSUME NEW i \in 0 .. KB_IN_BYTES - 1, i < n + 1
        PROVE  b2[IF a + i < KB_IN_BYTES THEN a + i ELSE a + i - KB_IN_BYTES] = Append(p, code)[i + 1]
    <3>1. CASE i = n
      BY <1>0, <1>1, <1>3, <2>2, <3>1
    <3>2. CASE i # n
      <4>1. i < n /\ Append(p, code)[i + 1] = p[i + 1]
        BY <1>0, <1>1, <2>5, <3>2
      <4>2. PICK k : k = IF a + i < KB_IN_BYTES THEN a + i ELSE a + i - KB_IN_BYTES
        OBVIOUS
      <4>3. k # h /\ k \in 0 .. KB_IN_BYTES - 1
        <5>1. i \in Nat /\ i < n /\ n < KB_IN_BYTES /\ n \in Nat
              /\ h = IF a + n < KB_IN_BYTES THEN a + n ELSE a + n - KB_IN_BYTES
          BY <1>1, <1>3, <4>1
        <5> QED
          BY <1>0, <4>2, <5>1
      <4> QED
        BY <1>1, <2>2, <4>1, <4>2, <4>3
    <3> QED
      BY <3>1, <3>2
  <2>6. kb_in' = [buf |-> b2, p_head |-> Advance(h), p_tail |-> a, count |-> n + 1]
    BY <2>1, <2>2
  <2>7. Append(p, code) \in Seq(Code) /\ Len(Append(p, code)) = n + 1 /\ n + 1 \in 0 .. KB_IN_BYTES
    BY <1>0, <1>1, <1>3
  <2>8. kb_in'.buf = b2 /\ kb_in'.p_head = Advance(h) /\ kb_in'.p_tail = a /\ kb_in'.count = n + 1
    BY <2>6
  <2>9. kb_in' \in [buf : [0 .. KB_IN_BYTES - 1 -> Code], p_head : 0 .. KB_IN_BYTES - 1,
                    p_tail : 0 .. KB_IN_BYTES - 1, count : 0 .. KB_IN_BYTES]
    BY <2>3, <2>4, <2>6, <2>7
  <2>10. \A i \in 0 .. KB_IN_BYTES - 1 : i < kb_in'.count =>
             kb_in'.buf[IF kb_in'.p_tail + i < KB_IN_BYTES THEN kb_in'.p_tail + i
                        ELSE kb_in'.p_tail + i - KB_IN_BYTES] = pending'[i + 1]
    BY <2>1, <2>5, <2>8
  <2>11. kb_in'.p_head = IF kb_in'.p_tail + kb_in'.count < KB_IN_BYTES THEN kb_in'.p_tail + kb_in'.count
                         ELSE kb_in'.p_tail + kb_in'.count - KB_IN_BYTES
    BY <2>4, <2>8
  <2> QED
    BY <2>1, <2>7, <2>8, <2>9, <2>10, <2>11 DEF Ring, Place
<1>4. CASE /\ n > 0
           /\ kb_in' = [buf |-> bf, p_head |-> h, p_tail |-> Advance(a), count |-> n - 1]
           /\ pending' = Tail(p)
  <2>1. PICK a2 : a2 = Advance(a)
    OBVIOUS
  <2>2. a2 \in 0 .. KB_IN_BYTES - 1 /\ a2 = IF a + 1 = KB_IN_BYTES THEN 0 ELSE a + 1
    BY <1>0, <2>1 DEF Advance
  <2>3. Tail(p) \in Seq(Code) /\ Len(Tail(p)) = n - 1 /\ n - 1 \in 0 .. KB_IN_BYTES
    BY <1>0, <1>1, <1>4
  <2>4. h = IF a2 + (n - 1) < KB_IN_BYTES THEN a2 + (n - 1) ELSE a2 + (n - 1) - KB_IN_BYTES
    BY <1>0, <1>1, <1>4, <2>2
  <2>5. ASSUME NEW i \in 0 .. KB_IN_BYTES - 1, i < n - 1
        PROVE  bf[IF a2 + i < KB_IN_BYTES THEN a2 + i ELSE a2 + i - KB_IN_BYTES] = Tail(p)[i + 1]
    <3>1. Tail(p)[i + 1] = p[(i + 1) + 1] /\ i + 1 \in 0 .. KB_IN_BYTES - 1 /\ i + 1 < n
      BY <1>0, <1>1, <1>4, <2>3, <2>5
    <3>2. bf[IF a + (i + 1) < KB_IN_BYTES THEN a + (i + 1) ELSE a + (i + 1) - KB_IN_BYTES] = p[(i + 1) + 1]
      BY <1>1, <3>1
    <3>3. (IF a2 + i < KB_IN_BYTES THEN a2 + i ELSE a2 + i - KB_IN_BYTES)
             = IF a + (i + 1) < KB_IN_BYTES THEN a + (i + 1) ELSE a + (i + 1) - KB_IN_BYTES
      BY <1>0, <1>1, <2>2
    <3> QED
      BY <3>1, <3>2, <3>3
  <2> QED
    BY <1>4, <2>1, <2>2, <2>3, <2>4, <2>5 DEF Ring, Place
<1>5. CASE \E code \in Code : keyboard_handler(code)
  <2>1. PICK code \in Code : keyboard_handler(code)
    BY <1>5
  <2>2. CASE n < KB_IN_BYTES
    BY <1>1, <1>3, <2>1, <2>2 DEF keyboard_handler, HasRoom
  <2>3. CASE ~ (n < KB_IN_BYTES)
    BY <1>1, <1>2, <2>1, <2>3 DEF keyboard_handler, HasRoom
  <2> QED
    BY <2>2, <2>3
<1>6. CASE tty_dev_read
  <2>1. CASE nr_current_console = p_tty /\ kb_in.count > 0
    <3>1. kb_in' = [kb_in EXCEPT !.p_tail = Advance(@), !.count = @ - 1] /\ pending' = Tail(pending)
      BY <1>6, <2>1 DEF tty_dev_read, TakeCode
    <3> QED
      BY <1>1, <1>4, <2>1, <3>1
  <2>2. CASE ~ (nr_current_console = p_tty /\ kb_in.count > 0)
    BY <1>2, <1>6, <2>2 DEF tty_dev_read
  <2> QED
    BY <2>1, <2>2
<1>7. CASE TaskTty /\ ~ tty_dev_read
  BY <1>2, <1>7 DEF TaskTty, tty_dev_write, TtyResume, TtyResumed, TtyReceive, TtyInformed, TtyOpens,
                    tty_do_read, tty_do_write, ttyVars
<1>8. CASE TaskFs \/ clock_handler \/ Stopped \/ UNCHANGED vars
  BY <1>2, <1>8 DEF TaskFs, FsReceive, FsForward, FsBoth, FsReturn, FsResume, clock_handler, Stopped,
                    ttyVars, vars
<1>9. CASE \E u \in Users :
             \/ UserBoth(u) \/ UserReturns(u)
             \/ \E call \in Call, c \in Console, k \in 0 .. MaxCount : UserCalls(u, call, c, k)
  BY <1>2, <1>9 DEF UserBoth, UserReturns, UserCalls, ttyVars
<1> QED
  BY <1>5, <1>6, <1>7, <1>8, <1>9 DEF Next

(* The ring of kernel/keyboard.c, filled by keyboard_handler and emptied by *)
(* task_tty, is a queue for any KB_IN_BYTES: what it holds from p_tail on   *)
(* is what was typed and accepted and not yet read, in the order of typing. *)
THEOREM RingIsQueue == Spec => []KeysInOrder
<1>1. Spec => []Ring
  BY RingInit, RingStep, PTL DEF Spec
<1>2. Ring => KeysInOrder
  <2> SUFFICES ASSUME Ring PROVE KeysInOrder
    OBVIOUS
  <2>1. KB_IN_BYTES \in Nat /\ KB_IN_BYTES > 0
    BY TerminalAssumption
  <2>2. PICK a \in 0 .. KB_IN_BYTES - 1, n \in 0 .. KB_IN_BYTES : a = kb_in.p_tail /\ n = kb_in.count
    BY DEF Ring
  <2>3. ASSUME NEW i \in 1 .. n
        PROVE  kb_in.buf[(a + i - 1) % KB_IN_BYTES] = pending[i]
    <3>1. PICK j \in 0 .. KB_IN_BYTES - 1 : j = i - 1
      BY <2>1, <2>2
    <3>2. kb_in.buf[Place(j)] = pending[j + 1] /\ j + 1 = i
      BY <2>1, <2>2, <3>1 DEF Ring
    <3>3. Place(j) = (a + i - 1) % KB_IN_BYTES
      BY <2>1, <2>2, <3>1 DEF Place
    <3> QED
      BY <3>2, <3>3
  <2> QED
    BY <2>2, <2>3 DEF KeysInOrder, Ring
<1> QED
  BY <1>1, <1>2, PTL
=============================================================================
