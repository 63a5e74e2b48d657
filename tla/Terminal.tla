------------------------------ MODULE Terminal ------------------------------
(***************************************************************************)
(* Terminals: keyboard_handler and clock_handler, task_tty (kernel/tty.c), *)
(* the part of task_fs that forwards the calls on a terminal               *)
(* (fs/read_write.c, fs/open.c, fs/main.c), and processes that open, read  *)
(* and write terminals.                                                    *)
(*                                                                         *)
(* Abstractions: a scan code is what keyboard_read makes of it: a          *)
(* printable character, "enter", "bs", "switch" (Alt-F1 and so on) or      *)
(* "other" (the release of a key, a modifier, a key without effect on the  *)
(* input).  A sequence of codes (E0, Pause) counts as one.  F12, which is  *)
(* there to stop the machine, is left out.  What is printed, and where, is *)
(* module Console.                                                         *)
(***************************************************************************)
EXTENDS Rendezvous, Integers

CONSTANTS Users, TASK_TTY, TASK_FS,
          NR_CONSOLES, KB_IN_BYTES, TTY_IN_BYTES,
          Printable,  \* printable characters
          MaxCount,   \* bound on the count of a read
          MaxTyped    \* bound on the scan codes of a run

Console == 0 .. NR_CONSOLES - 1
Code == Printable \cup {"enter", "bs", "other"}
           \cup (IF NR_CONSOLES > 1 THEN {"switch"} ELSE {})

ASSUME TerminalAssumption ==
    /\ Proc = Users \cup {TASK_TTY, TASK_FS}
    /\ TASK_TTY # TASK_FS /\ {TASK_TTY, TASK_FS} \cap Users = {}
    /\ {ANY, INTERRUPT} \cap Proc = {} /\ ANY # INTERRUPT
    /\ Printable \cap {"enter", "bs", "other", "switch", "none"} = {}
    /\ NR_CONSOLES \in Nat \ {0}
    /\ KB_IN_BYTES \in Nat \ {0} /\ TTY_IN_BYTES \in Nat \ {0}
    /\ MaxCount \in Nat /\ MaxTyped \in Nat

Call == {"OPEN", "READ", "WRITE"}
Type == Call \cup {"DEV_OPEN", "DEV_READ", "DEV_WRITE", "SUSPEND_PROC",
                   "RESUME_PROC", "SYSCALL_RET", "HARD_INT", "none"}
Message == [type : Type, source : Proc \cup {ANY, INTERRUPT},
            DEVICE : Console, CNT : 0 .. MaxCount, PROC_NR : Proc \cup {ANY}]
ASSUME MessageAssumption == NoMessage \in Message

HardInt == [NoMessage EXCEPT !.type = "HARD_INT", !.source = INTERRUPT]

VARIABLES
    kb_in,         \* buf, p_head, p_tail, count: the ring of scan codes
    pending,       \* history: the codes that went in and did not come out
    typed,         \* how many codes were typed
    key_pressed,
    nr_current_console,
    in_buf,        \* of each tty, the decoded keys
    tty,           \* of each tty, the read it serves: caller, procnr, left, trans
    asked,         \* the arguments of each process's last call
    buf,           \* its buffer
    line,          \* history: what was typed for it and not erased
    pc,            \* the next statement of each process
    p_tty,         \* the tty of the loop in task_tty
    fs_src,        \* src and len of task_fs, in do_open and do_rdwt
    fs_len,
    halted
ttyVars == <<kb_in, pending, nr_current_console, in_buf, tty, line, buf, p_tty>>
fsVars == <<fs_src, fs_len>>
vars == <<ipcVars, ttyVars, fsVars, asked, typed, key_pressed, pc, halted>>

TypeOK ==
    /\ IpcTypeOK(Message)
    /\ kb_in \in [buf : [0 .. KB_IN_BYTES - 1 -> Code], p_head : 0 .. KB_IN_BYTES - 1,
                  p_tail : 0 .. KB_IN_BYTES - 1, count : 0 .. KB_IN_BYTES]
    /\ pending \in Seq(Code)
    /\ typed \in 0 .. MaxTyped
    /\ key_pressed \in BOOLEAN
    /\ nr_current_console \in Console
    /\ in_buf \in [Console -> Seq(Printable \cup {"enter", "bs"})]
    /\ tty \in [Console -> [caller : Proc, procnr : Proc,
                            left : 0 .. MaxCount, trans : 0 .. MaxCount]]
    /\ line \in [Users -> Seq(Printable)]
    /\ asked \in [Users -> [call : Call, count : 0 .. MaxCount]]
    /\ buf \in [Users -> [1 .. MaxCount -> Printable \cup {"none"}]]
    /\ \A u \in Users : pc[u] \in {"user", "both", "return"}
    /\ pc[TASK_TTY] \in {"read", "write", "resume", "resumed", "receive", "serve"}
    /\ pc[TASK_FS] \in {"receive", "serve", "both", "return"}
    /\ p_tty \in Console
    /\ fs_src \in Proc /\ fs_len \in 0 .. MaxCount
    /\ halted \in {"no", "deadlock", "read_write.c:50"}

Init ==
    /\ IpcInit
    /\ kb_in = [buf |-> [i \in 0 .. KB_IN_BYTES - 1 |-> "other"],
                p_head |-> 0, p_tail |-> 0, count |-> 0]
    /\ pending = <<>>
    /\ typed = 0
    /\ key_pressed = FALSE
    /\ nr_current_console = 0
    /\ in_buf = [c \in Console |-> <<>>]
    /\ tty = [c \in Console |-> [caller |-> TASK_FS, procnr |-> TASK_FS,
                                 left |-> 0, trans |-> 0]]
    /\ line = [u \in Users |-> <<>>]
    /\ asked = [u \in Users |-> [call |-> "OPEN", count |-> 0]]
    /\ buf = [u \in Users |-> [i \in 1 .. MaxCount |-> "none"]]
    /\ pc = [p \in Proc |-> CASE p = TASK_TTY -> "read"
                              [] p = TASK_FS  -> "receive"
                              [] OTHER        -> "user"]
    /\ p_tty = 0
    /\ fs_src = TASK_FS /\ fs_len = 0
    /\ halted = "no"

-----------------------------------------------------------------------------
At(p, a) == halted = "no" /\ Running(p) /\ pc[p] = a
Goto(p, b) == pc' = [pc EXCEPT ![p] = b]

(* msg_send panics instead of sending. *)
Panic(s, d) ==
    /\ deadlock(s, d)
    /\ halted' = "deadlock"
    /\ UNCHANGED <<ipcVars, pc>>

(* SEND of m by s to d, after which s is at b. *)
SendOrPanic(s, d, m, b) ==
    \/ Panic(s, d)
    \/ Send(s, d, m) /\ Goto(s, b) /\ UNCHANGED halted

-----------------------------------------------------------------------------
(* The interrupt handlers *)

(* Mutant: a pointer stays at the end of buf. *)
Advance_Stuck(i) == IF i + 1 = KB_IN_BYTES THEN i ELSE i + 1

Advance(i) == IF i + 1 = KB_IN_BYTES THEN 0 ELSE i + 1

HasRoom == kb_in.count < KB_IN_BYTES

keyboard_handler(code) ==
    /\ halted = "no"
    /\ typed < MaxTyped
    /\ typed' = typed + 1
    /\ IF HasRoom
       THEN /\ kb_in' = [buf |-> [kb_in.buf EXCEPT ![kb_in.p_head] = code],
                         p_head |-> Advance(kb_in.p_head),
                         p_tail |-> kb_in.p_tail, count |-> kb_in.count + 1]
            /\ pending' = Append(pending, code)
       ELSE UNCHANGED <<kb_in, pending>>
    /\ key_pressed' = TRUE
    /\ UNCHANGED <<ipcVars, nr_current_console, in_buf, tty, line, buf, p_tty,
                   fsVars, asked, pc, halted>>

clock_handler ==
    /\ halted = "no"
    /\ key_pressed
    /\ inform_int(TASK_TTY, HardInt)
    /\ UNCHANGED <<ttyVars, fsVars, typed, asked, key_pressed, pc, halted>>

-----------------------------------------------------------------------------
(* task_tty *)

put_key(c, key) ==
    in_buf' = IF Len(in_buf[c]) < TTY_IN_BYTES
              THEN [in_buf EXCEPT ![c] = Append(@, key)] ELSE in_buf

(* get_byte_from_kbuf, with interrupts disabled *)
TakeCode ==
    /\ kb_in' = [kb_in EXCEPT !.p_tail = Advance(@), !.count = @ - 1]
    /\ pending' = Tail(pending)

(* The codes of which keyboard_read makes a key that in_process puts into   *)
(* in_buf.                                                                  *)
IsInput(code) == code \in Printable \cup {"enter", "bs"}

(* The current console after the code. *)
Selected(code) == IF code = "switch" THEN Console ELSE {nr_current_console}

(* tty_dev_read: the current tty reads one key, and in_process acts on it. *)
tty_dev_read ==
    LET code == kb_in.buf[kb_in.p_tail]
    IN  /\ At(TASK_TTY, "read")
        /\ Goto(TASK_TTY, "write")
        /\ IF nr_current_console = p_tty /\ kb_in.count > 0
           THEN /\ TakeCode
                /\ IF IsInput(code) THEN put_key(p_tty, code) ELSE UNCHANGED in_buf
                /\ nr_current_console' \in Selected(code)
           ELSE UNCHANGED <<kb_in, pending, in_buf, nr_current_console>>
        /\ UNCHANGED <<ipcVars, tty, line, buf, p_tty, fsVars, typed, asked, key_pressed,
                       halted>>

(* The loops: the same tty while it has input, then the next, then RECEIVE. *)
NextPass ==
    CASE in_buf'[p_tty] # <<>> -> Goto(TASK_TTY, "read") /\ UNCHANGED p_tty
      [] in_buf'[p_tty] = <<>> /\ p_tty + 1 < NR_CONSOLES ->
            Goto(TASK_TTY, "read") /\ p_tty' = p_tty + 1
      [] OTHER -> Goto(TASK_TTY, "receive") /\ p_tty' = 0

(* Mutant: a backspace is not taken back from the buffer. *)
Edited_NoErase(t, ch) ==
    IF ch \in Printable THEN [t EXCEPT !.trans = @ + 1, !.left = @ - 1] ELSE t

(* The read t after the key ch. *)
Edited(t, ch) ==
    CASE ch \in Printable           -> [t EXCEPT !.trans = @ + 1, !.left = @ - 1]
      [] ch = "bs" /\ t.trans > 0   -> [t EXCEPT !.trans = @ - 1, !.left = @ + 1]
      [] OTHER                      -> t

(* The history of the line after the key ch. *)
LineAfter(l, ch) ==
    CASE ch \in Printable       -> Append(l, ch)
      [] ch = "bs" /\ l # <<>>  -> SubSeq(l, 1, Len(l) - 1)
      [] OTHER                  -> l

(* Mutant: a full buffer does not end the read. *)
Complete_EnterOnly(t, ch) == ch = "enter"

(* The read ends. *)
Complete(t, ch) == ch = "enter" \/ t.left = 0

(* tty_dev_write: one key goes to the process that reads the tty. *)
tty_dev_write ==
    LET c == p_tty
        ch == Head(in_buf[c])
        t == Edited(tty[c], ch)
    IN  /\ At(TASK_TTY, "write")
        /\ IF in_buf[c] = <<>>
           THEN UNCHANGED in_buf
           ELSE in_buf' = [in_buf EXCEPT ![c] = Tail(@)]
        /\ IF in_buf[c] = <<>> \/ tty[c].left = 0
           THEN NextPass /\ UNCHANGED <<tty, line, buf>>
           ELSE /\ tty' = [tty EXCEPT ![c] = t]
                /\ line' = [line EXCEPT ![t.procnr] = LineAfter(@, ch)]
                /\ buf' = IF ch \in Printable
                          THEN [buf EXCEPT ![t.procnr][tty[c].trans + 1] = ch]
                          ELSE buf
                /\ IF Complete(t, ch)
                   THEN Goto(TASK_TTY, "resume") /\ UNCHANGED p_tty
                   ELSE NextPass
        /\ UNCHANGED <<ipcVars, kb_in, pending, nr_current_console, fsVars, typed, asked,
                       key_pressed, halted>>

TtyResume ==
    LET t == tty[p_tty]
    IN  /\ At(TASK_TTY, "resume")
        /\ SendOrPanic(TASK_TTY, t.caller,
                       [NoMessage EXCEPT !.type = "RESUME_PROC", !.PROC_NR = t.procnr,
                                         !.CNT = t.trans], "resumed")
        /\ UNCHANGED <<ttyVars, fsVars, typed, asked, key_pressed>>

(* Mutant: the read is not ended. *)
TtyResumed_Missing ==
    /\ At(TASK_TTY, "resumed")
    /\ UNCHANGED in_buf
    /\ NextPass
    /\ UNCHANGED <<ipcVars, kb_in, pending, nr_current_console, tty, line, buf,
                   fsVars, typed, asked, key_pressed, halted>>

TtyResumed ==
    /\ At(TASK_TTY, "resumed")
    /\ tty' = [tty EXCEPT ![p_tty].left = 0]
    /\ UNCHANGED in_buf
    /\ NextPass
    /\ UNCHANGED <<ipcVars, kb_in, pending, nr_current_console, line, buf, fsVars,
                   typed, asked, key_pressed, halted>>

TtyReceive ==
    /\ At(TASK_TTY, "receive")
    /\ Receive(TASK_TTY, ANY, HardInt)
    /\ Goto(TASK_TTY, "serve")
    /\ UNCHANGED <<ttyVars, fsVars, typed, asked, key_pressed, halted>>

(* HARD_INT *)
TtyInformed ==
    /\ At(TASK_TTY, "serve")
    /\ mail[TASK_TTY].type = "HARD_INT"
    /\ key_pressed' = FALSE
    /\ Goto(TASK_TTY, "read")
    /\ UNCHANGED <<ipcVars, ttyVars, fsVars, typed, asked, halted>>

(* DEV_OPEN: reset_msg clears what the message carried. *)
TtyOpens ==
    LET m == mail[TASK_TTY]
    IN  /\ At(TASK_TTY, "serve")
        /\ m.type = "DEV_OPEN"
        /\ SendOrPanic(TASK_TTY, m.source, [NoMessage EXCEPT !.type = "SYSCALL_RET"],
                       "read")
        /\ UNCHANGED <<ttyVars, fsVars, typed, asked, key_pressed>>

(* Mutant: the answer has the count of what was read so far. *)
Suspended_NoCount(m) == [m EXCEPT !.type = "SUSPEND_PROC", !.CNT = 0]

Suspended(m) == [m EXCEPT !.type = "SUSPEND_PROC"]

(* The read that m asks for. *)
tty_do_read ==
    LET m == mail[TASK_TTY]
    IN  /\ At(TASK_TTY, "serve")
        /\ m.type = "DEV_READ"
        /\ tty' = [tty EXCEPT ![m.DEVICE] = [caller |-> m.source, procnr |-> m.PROC_NR,
                                             left |-> m.CNT, trans |-> 0]]
        /\ line' = [line EXCEPT ![m.PROC_NR] = <<>>]
        /\ SendOrPanic(TASK_TTY, m.source, Suspended(m), "read")
        /\ UNCHANGED <<kb_in, pending, nr_current_console, in_buf, buf, p_tty, fsVars,
                       typed, asked, key_pressed>>

tty_do_write ==
    LET m == mail[TASK_TTY]
    IN  /\ At(TASK_TTY, "serve")
        /\ m.type = "DEV_WRITE"
        /\ SendOrPanic(TASK_TTY, m.source, [m EXCEPT !.type = "SYSCALL_RET"], "read")
        /\ UNCHANGED <<ttyVars, fsVars, typed, asked, key_pressed>>

TaskTty == \/ tty_dev_read \/ tty_dev_write \/ TtyResume \/ TtyResumed
           \/ TtyReceive \/ TtyInformed \/ TtyOpens \/ tty_do_read \/ tty_do_write

-----------------------------------------------------------------------------
(* task_fs *)

FsReceive ==
    /\ At(TASK_FS, "receive")
    /\ Receive(TASK_FS, ANY, HardInt)
    /\ Goto(TASK_FS, "serve")
    /\ UNCHANGED <<ttyVars, fsVars, typed, asked, key_pressed, halted>>

(* The driver's request for each call. *)
DevRequest(call) == CASE call = "OPEN"  -> "DEV_OPEN"
                      [] call = "READ"  -> "DEV_READ"
                      [] call = "WRITE" -> "DEV_WRITE"

(* do_open or do_rdwt on a terminal: BOTH to task_tty. *)
FsForward ==
    LET m == mail[TASK_FS]
    IN  /\ At(TASK_FS, "serve")
        /\ m.type \in Call
        /\ fs_src' = m.source
        /\ fs_len' = m.CNT
        /\ SendOrPanic(TASK_FS, TASK_TTY,
              [m EXCEPT !.type = DevRequest(m.type), !.PROC_NR = m.source], "both")
        /\ UNCHANGED <<ttyVars, typed, asked, key_pressed>>

FsBoth ==
    /\ At(TASK_FS, "both")
    /\ Receive(TASK_FS, TASK_TTY, HardInt)
    /\ Goto(TASK_FS, "return")
    /\ UNCHANGED <<ttyVars, fsVars, typed, asked, key_pressed, halted>>

(* The answer of task_tty, and the reply to the process unless it is        *)
(* suspended.  do_open has its own message, and so nothing to compare.      *)
FsReturn ==
    LET m == mail[TASK_FS]
    IN  /\ At(TASK_FS, "return")
        /\ \/ /\ m.CNT # fs_len
              /\ halted' = "read_write.c:50"
              /\ UNCHANGED <<ipcVars, pc>>
           \/ /\ m.CNT = fs_len
              /\ m.type = "SUSPEND_PROC"
              /\ Goto(TASK_FS, "receive")
              /\ UNCHANGED <<ipcVars, halted>>
           \/ /\ m.CNT = fs_len
              /\ m.type # "SUSPEND_PROC"
              /\ SendOrPanic(TASK_FS, fs_src, [m EXCEPT !.type = "SYSCALL_RET"],
                             "receive")
        /\ fs_src' = TASK_FS /\ fs_len' = 0
        /\ UNCHANGED <<ttyVars, typed, asked, key_pressed>>

(* RESUME_PROC: the suspended process gets its answer. *)
FsResume ==
    LET m == mail[TASK_FS]
    IN  /\ At(TASK_FS, "serve")
        /\ m.type = "RESUME_PROC"
        /\ SendOrPanic(TASK_FS, m.PROC_NR, [m EXCEPT !.type = "SYSCALL_RET"], "receive")
        /\ UNCHANGED <<ttyVars, fsVars, typed, asked, key_pressed>>

TaskFs == FsReceive \/ FsForward \/ FsBoth \/ FsReturn \/ FsResume

-----------------------------------------------------------------------------
(* The library: open, read and write are BOTH to task_fs.          *)
UserCalls(u, call, c, n) ==
    /\ At(u, "user")
    /\ n \in IF call = "OPEN" THEN {0} ELSE 1 .. MaxCount
    /\ SendOrPanic(u, TASK_FS, [NoMessage EXCEPT !.type = call, !.DEVICE = c, !.CNT = n],
                   "both")
    /\ asked' = [asked EXCEPT ![u] = [call |-> call, count |-> n]]
    /\ UNCHANGED <<ttyVars, fsVars, typed, key_pressed>>

UserBoth(u) ==
    /\ At(u, "both")
    /\ Receive(u, TASK_FS, HardInt)
    /\ Goto(u, "return")
    /\ UNCHANGED <<ttyVars, fsVars, typed, asked, key_pressed, halted>>

(* The call returns; its message is gone, and the buffer is used again. *)
UserReturns(u) ==
    /\ At(u, "return")
    /\ Goto(u, "user")
    /\ mail' = [mail EXCEPT ![u] = NoMessage]
    /\ buf' = [buf EXCEPT ![u] = [i \in 1 .. MaxCount |-> "none"]]
    /\ line' = [line EXCEPT ![u] = <<>>]
    /\ UNCHANGED <<wait, q_sending, has_int_msg, kb_in, pending, nr_current_console,
                   in_buf, tty, p_tty, fsVars, typed, asked, key_pressed, halted>>

(* A panic or a failed assertion stops the machine. *)
Stopped == halted # "no" /\ UNCHANGED vars

Next ==
    \/ TaskTty \/ TaskFs
    \/ \E u \in Users :
          \/ UserBoth(u) \/ UserReturns(u)
          \/ \E call \in Call, c \in Console, n \in 0 .. MaxCount :
                UserCalls(u, call, c, n)
    \/ \E code \in Code : keyboard_handler(code)
    \/ clock_handler
    \/ Stopped

(* No process is kept from running for ever (NoStarvation of module Sched), *)
(* and the clock goes on.                                                   *)
Fairness ==
    /\ WF_vars(TaskTty) /\ WF_vars(TaskFs) /\ WF_vars(clock_handler)
    /\ \A u \in Users : WF_vars(UserBoth(u) \/ UserReturns(u))

Spec == Init /\ [][Next]_vars /\ Fairness

-----------------------------------------------------------------------------
(***************************************************************************)
(* The ring kb_in, filled by the handler and emptied by the task, is a     *)
(* queue: what it holds from p_tail on is what was typed and accepted and  *)
(* not yet read, in the order of typing, also across the end of buf.       *)
(***************************************************************************)
KeysInOrder ==
    /\ Len(pending) = kb_in.count
    /\ \A i \in 1 .. kb_in.count :
          kb_in.buf[(kb_in.p_tail + i - 1) % KB_IN_BYTES] = pending[i]

(***************************************************************************)
(* A read returns the line as the typist sees it: as many characters as    *)
(* are left after the backspaces, those characters in the buffer, and      *)
(* never more than the process asked for.                                  *)
(***************************************************************************)
ReadReturnsLine ==
    \A u \in Users :
        Running(u) /\ pc[u] = "return" /\ asked[u].call = "READ" =>
            /\ mail[u].CNT = Len(line[u])
            /\ mail[u].CNT <= asked[u].count
            /\ \A i \in 1 .. mail[u].CNT : buf[u][i] = line[u][i]

(***************************************************************************)
(* task_fs never sends to a process that is not about to receive: a second *)
(* RESUME_PROC for one read would block the file system for good.          *)
(***************************************************************************)
ReplyIsWanted ==
    \A u \in Users : wait[TASK_FS] = Sends(u) => pc[u] = "both"

(***************************************************************************)
(* Every open and every write of a terminal returns, whatever the others   *)
(* read and whatever is typed: task_tty answers each request, with the     *)
(* count that the assert at read_write.c:50 wants and not with another     *)
(* message of its own.  Excepted is the panic of NoDeadlock.               *)
(***************************************************************************)
WriteReturns ==
    \A u \in Users :
        pc[u] # "user" /\ asked[u].call # "READ" ~> pc[u] = "user" \/ halted = "deadlock"

(***************************************************************************)
(* fs/main.c:88: a suspended process is woken after the tty's resume.  The *)
(* resume can be sent: task_fs and task_tty never wait to send to each     *)
(* other, which makes msg_send panic.                                      *)
(***************************************************************************)
NoDeadlock == halted # "deadlock"

Idle(p) == wait[p] = Receives(ANY) /\ q_sending[p] = <<>>

(***************************************************************************)
(* A suspended process is not forgotten: when both tasks have nothing to   *)
(* do, a process without its answer is the reader of some tty, which still *)
(* wants keys for it.  For one reader at a time: a second read of a tty    *)
(* replaces the first (tty.c:188-192).                                     *)
(***************************************************************************)
SuspendedIsServed ==
    halted = "no" /\ Idle(TASK_FS) /\ Idle(TASK_TTY) =>
        \A u \in Users : wait[u] = Receives(TASK_FS) =>
            \E c \in Console : tty[c].procnr = u /\ tty[c].left > 0
=============================================================================
