------------------------------ MODULE Console ------------------------------
(***************************************************************************)
(* The consoles (kernel/console.c): out_char, scroll_screen and            *)
(* select_console, on NR_CONSOLES parts of one video memory.               *)
(*                                                                         *)
(* out_char runs in two contexts: in task_tty, which the clock can preempt *)
(* between any two statements, and in the system call sys_printx, which    *)
(* runs to its end.  CONSTANT Concurrent says whether processes print with *)
(* printl while task_tty is in the middle of an out_char.                  *)
(*                                                                         *)
(* Addresses are relative to original_addr, and what the cells of the      *)
(* video memory hold is left out: '\b' at the start of a row may skip any  *)
(* number of blanks of the row before.                                     *)
(***************************************************************************)
EXTENDS Integers

CONSTANTS NR_CONSOLES,
          SCREEN_WIDTH, SCREEN_SIZE, \* cells of a row and of the screen
          v_mem_limit,               \* cells of a console
          Concurrent

Console == 0 .. NR_CONSOLES - 1
Context == {"tty", "kernel"}

ASSUME ConsoleAssumption ==
    /\ NR_CONSOLES \in Nat \ {0}
    /\ SCREEN_WIDTH \in Nat \ {0}
    /\ SCREEN_SIZE \in Nat \ {0}
    /\ v_mem_limit \in Nat
    /\ SCREEN_SIZE <= v_mem_limit /\ 2 < SCREEN_SIZE
    /\ Concurrent \in BOOLEAN

VARIABLES cursor, current_start_addr, \* of each console
          nr_current_console,
          crtc,    \* what the hardware shows: the cursor and the first cell
          pc,      \* the next statement of the out_char in each context
          con      \* the console that it writes to
consoleVars == <<cursor, current_start_addr, nr_current_console, crtc, pc, con>>

ConsoleTypeOK ==
    /\ cursor \in [Console -> Nat]
    /\ current_start_addr \in [Console -> Nat]
    /\ nr_current_console \in Console
    /\ crtc \in [cursor : Nat, start : Nat]
    /\ pc \in [Context -> {"idle", "switch", "newline", "put", "scroll", "flush"}]
    /\ con \in [Context -> Console]

(* After init_screen of every console and select_console(0): console 0 goes *)
(* on where the boot messages end, the others show their number.            *)
ConsoleInit ==
    /\ cursor \in [Console -> 0 .. SCREEN_SIZE - 1]
    /\ \A c \in Console : c # 0 => cursor[c] = 2
    /\ current_start_addr = [c \in Console |-> 0]
    /\ nr_current_console = 0
    /\ crtc = [cursor |-> cursor[0], start |-> 0]
    /\ pc = [x \in Context |-> "idle"]
    /\ con = [x \in Context |-> 0]

-----------------------------------------------------------------------------
Row(a) == a \div SCREEN_WIDTH

(* A system call runs alone, and it starts inside task_tty's out_char only  *)
(* if Concurrent.                                                           *)
Runs(x) == x = "kernel" \/ pc["kernel"] = "idle"

MayStart(x) ==
    /\ pc[x] = "idle" /\ Runs(x)
    /\ Concurrent \/ pc["tty"] = "idle"

At(x, a) == pc[x] = a /\ Runs(x)
Goto(x, b) == pc' = [pc EXCEPT ![x] = b] /\ UNCHANGED con

OutChar(x, c) ==
    /\ MayStart(x)
    /\ pc' = [pc EXCEPT ![x] = "switch"]
    /\ con' = [con EXCEPT ![x] = c]
    /\ UNCHANGED <<cursor, current_start_addr, nr_current_console, crtc>>

(* Mutant: the check lets the cursor reach the end. *)
HasRoom_Off(c, n) == cursor[c] + n <= v_mem_limit

(* There are n more cells behind the cursor. *)
HasRoom(c, n) == cursor[c] + n < v_mem_limit

(* The conditions of '\n' and of an ordinary character. *)
NewlineCheck(x) ==
    /\ At(x, "switch")
    /\ Goto(x, IF HasRoom(con[x], SCREEN_WIDTH) THEN "newline" ELSE "scroll")
    /\ UNCHANGED <<cursor, current_start_addr, nr_current_console, crtc>>

PutCheck(x) ==
    /\ At(x, "switch")
    /\ Goto(x, IF HasRoom(con[x], 1) THEN "put" ELSE "scroll")
    /\ UNCHANGED <<cursor, current_start_addr, nr_current_console, crtc>>

Newline(x) ==
    /\ At(x, "newline")
    /\ cursor' = [cursor EXCEPT ![con[x]] = SCREEN_WIDTH * (Row(@) + 1)]
    /\ Goto(x, "scroll")
    /\ UNCHANGED <<current_start_addr, nr_current_console, crtc>>

Put(x) ==
    /\ At(x, "put")
    /\ cursor' = [cursor EXCEPT ![con[x]] = @ + 1]
    /\ Goto(x, "scroll")
    /\ UNCHANGED <<current_start_addr, nr_current_console, crtc>>

(* '\b': one cell back; into the row before, past the blanks at its end. *)
Backspaced(a) ==
    IF a = 0 THEN {0}
    ELSE IF Row(a - 1) = Row(a) THEN {a - 1}
    ELSE {b \in 0 .. a - 1 : Row(b) = Row(a - 1)}

Backspace(x) ==
    /\ At(x, "switch")
    /\ \E a \in Backspaced(cursor[con[x]]) : cursor' = [cursor EXCEPT ![con[x]] = a]
    /\ Goto(x, "scroll")
    /\ UNCHANGED <<current_start_addr, nr_current_console, crtc>>

BelowScreen(c) == cursor[c] >= current_start_addr[c] + SCREEN_SIZE

(* Mutant: scrolling never stops. *)
CanScroll_Always(c) == TRUE

(* Mutant: scrolling stops a row earlier. *)
CanScroll_Early(c) == current_start_addr[c] + SCREEN_SIZE + SCREEN_WIDTH < v_mem_limit

CanScroll(c) == current_start_addr[c] + SCREEN_SIZE < v_mem_limit

(* scroll_screen: the console's start, a row down or up if it can go there. *)
Down(c) == IF CanScroll(c) THEN current_start_addr[c] + SCREEN_WIDTH
                           ELSE current_start_addr[c]

Up(c) == IF current_start_addr[c] > 0 THEN current_start_addr[c] - SCREEN_WIDTH
                                      ELSE current_start_addr[c]

(* flush with start s: only the current console is on the screen. *)
flush(c, s) ==
    crtc' = IF c = nr_current_console THEN [cursor |-> cursor[c], start |-> s]
                                      ELSE crtc

(* The loop of out_char; scroll_screen flushes. *)
ScrollLoop(x) ==
    LET c == con[x]
    IN  /\ At(x, "scroll")
        /\ BelowScreen(c)
        /\ current_start_addr' = [current_start_addr EXCEPT ![c] = Down(c)]
        /\ flush(c, Down(c))
        /\ UNCHANGED <<cursor, nr_current_console, pc, con>>

ScrollDone(x) ==
    /\ At(x, "scroll")
    /\ ~BelowScreen(con[x])
    /\ Goto(x, "flush")
    /\ UNCHANGED <<cursor, current_start_addr, nr_current_console, crtc>>

OutCharFlush(x) ==
    /\ At(x, "flush")
    /\ flush(con[x], current_start_addr[con[x]])
    /\ Goto(x, "idle")
    /\ UNCHANGED <<cursor, current_start_addr, nr_current_console>>

(* task_tty, from in_process: Shift-Up and Shift-Down on the current console. *)
ScrollKey ==
    LET c == nr_current_console
    IN  /\ pc = [x \in Context |-> "idle"]
        /\ \E s \in {Down(c), Up(c)} :
              /\ current_start_addr' = [current_start_addr EXCEPT ![c] = s]
              /\ flush(c, s)
        /\ UNCHANGED <<cursor, nr_current_console, pc, con>>

(* Mutant: the screen is not updated. *)
select_console_NoFlush(c) ==
    /\ pc = [x \in Context |-> "idle"]
    /\ nr_current_console' = c
    /\ UNCHANGED <<cursor, current_start_addr, crtc, pc, con>>

(* task_tty, from in_process: Alt-F1 and so on. *)
select_console(c) ==
    /\ pc = [x \in Context |-> "idle"]
    /\ nr_current_console' = c
    /\ crtc' = [cursor |-> cursor[c], start |-> current_start_addr[c]]
    /\ UNCHANGED <<cursor, current_start_addr, pc, con>>

OutCharStep(x) ==
    \/ NewlineCheck(x) \/ PutCheck(x) \/ Backspace(x)
    \/ Newline(x) \/ Put(x)
    \/ ScrollLoop(x) \/ ScrollDone(x) \/ OutCharFlush(x)

ConsoleNext ==
    \/ \E x \in Context : OutCharStep(x) \/ \E c \in Console : OutChar(x, c)
    \/ ScrollKey
    \/ \E c \in Console : select_console(c)

(* A system call runs on; task_tty is not kept from running for ever        *)
(* (NoStarvation of module Sched).                                          *)
ConsoleFairness == \A x \in Context : WF_consoleVars(OutCharStep(x))

ConsoleSpec == ConsoleInit /\ [][ConsoleNext]_consoleVars /\ ConsoleFairness

-----------------------------------------------------------------------------
(***************************************************************************)
(* The cursor of a console never leaves the console's part of the video    *)
(* memory, so out_char writes into no other console.                       *)
(***************************************************************************)
CursorInConsole == \A c \in Console : cursor[c] < v_mem_limit

(***************************************************************************)
(* Whenever the loop of out_char has to scroll it can (the comment at      *)
(* console.c:87: when the screen is full it goes on to a new line); a      *)
(* loop that cannot would never end.                                       *)
(***************************************************************************)
ScrollPossible ==
    \A x \in Context :
        pc[x] = "scroll" /\ BelowScreen(con[x]) => CanScroll(con[x])

(* Every out_char returns: none of them loops for ever at console.c:88. *)
OutCharReturns == \A x \in Context : pc[x] # "idle" ~> pc[x] = "idle"

(***************************************************************************)
(* Between two calls the hardware shows the current console as it is: its  *)
(* cursor and its first visible cell, whoever printed, scrolled or         *)
(* switched last.                                                          *)
(***************************************************************************)
ScreenShowsCurrent ==
    pc = [x \in Context |-> "idle"] =>
        crtc = [cursor |-> cursor[nr_current_console],
                start  |-> current_start_addr[nr_current_console]]

(* The screen starts at a row, and never more than a row past the last      *)
(* position that fills it from this console's memory.                       *)
WindowInConsole ==
    \A c \in Console :
        /\ current_start_addr[c] % SCREEN_WIDTH = 0
        /\ current_start_addr[c] + SCREEN_SIZE < v_mem_limit + SCREEN_WIDTH
=============================================================================
