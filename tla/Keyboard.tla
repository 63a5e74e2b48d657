------------------------------ MODULE Keyboard ------------------------------
(***************************************************************************)
(* The keyboard: keyboard_handler, keyboard_read and set_leds              *)
(* (kernel/keyboard.c, include/sys/keymap.h).  Keys are pressed and        *)
(* released at any moment; task_tty takes the codes out of the ring one by *)
(* one, spins for the rest of a sequence, and sets the lamps by commands   *)
(* to the keyboard whose answers go through the same port and the same     *)
(* interrupt as the codes.                                                 *)
(*                                                                         *)
(* Abstractions: the ring is a queue with room for KB_IN_BYTES (its        *)
(* pointers are in module Terminal); of the table of keys there is one of  *)
(* every kind.  External: a keyboard that ends the sequence it is sending  *)
(* before it acknowledges a command, sends no code between LED_CODE and    *)
(* the byte that follows it, and no artificial shifts around the grey keys.*)
(***************************************************************************)
EXTENDS Naturals, Sequences, TLC

CONSTANTS Keys,         \* the keys there are
          KB_IN_BYTES,
          MaxTyped      \* bound on the presses and releases

E0 == 224
E1 == 225
KB_ACK == 250
FLAG_BREAK == 128

(* What each key sends when it is pressed and when it is released. *)
Plain(c) == [make |-> <<c>>, break |-> <<c + FLAG_BREAK>>]
Extended(c) == [make |-> <<E0, c>>, break |-> <<E0, c + FLAG_BREAK>>]
PauseCodes == <<E1, 29, 69, E1, 157, 197>>
KeyCodes ==
    "A" :> Plain(30) @@ "1" :> Plain(2) @@ "Enter" :> Plain(28) @@
    "LeftShift" :> Plain(42) @@ "RightShift" :> Plain(54) @@
    "LeftCtrl" :> Plain(29) @@ "RightCtrl" :> Extended(29) @@
    "LeftAlt" :> Plain(56) @@ "RightAlt" :> Extended(56) @@
    "CapsLock" :> Plain(58) @@ "NumLock" :> Plain(69) @@ "ScrollLock" :> Plain(70) @@
    "Keypad7" :> Plain(71) @@ "Home" :> Extended(71) @@ "KeypadEnter" :> Extended(28) @@
    "PrintScreen" :> [make |-> <<E0, 42, E0, 55>>, break |-> <<E0, 183, E0, 170>>] @@
    "Pause" :> [make |-> PauseCodes, break |-> <<>>]

ASSUME KeyboardAssumption ==
    /\ Keys \subseteq DOMAIN KeyCodes
    /\ KB_IN_BYTES \in Nat \ {0} /\ MaxTyped \in Nat

(* The key of a code without shift, with it, and after E0. *)
keymap(code) ==
    CASE code = 30 -> <<"a", "A", "none">>
      [] code = 2  -> <<"1", "!", "none">>
      [] code = 28 -> <<"ENTER", "ENTER", "PAD_ENTER">>
      [] code = 42 -> <<"SHIFT_L", "SHIFT_L", "none">>
      [] code = 54 -> <<"SHIFT_R", "SHIFT_R", "none">>
      [] code = 29 -> <<"CTRL_L", "CTRL_L", "CTRL_R">>
      [] code = 56 -> <<"ALT_L", "ALT_L", "ALT_R">>
      [] code = 55 -> <<"*", "*", "none">>
      [] code = 58 -> <<"CAPS_LOCK", "CAPS_LOCK", "none">>
      [] code = 69 -> <<"NUM_LOCK", "NUM_LOCK", "none">>
      [] code = 70 -> <<"SCROLL_LOCK", "SCROLL_LOCK", "none">>
      [] code = 71 -> <<"PAD_7", "7", "HOME">>
      [] OTHER     -> <<"none", "none", "none">>

Modifiers == {"SHIFT_L", "SHIFT_R", "CTRL_L", "CTRL_R", "ALT_L", "ALT_R"}
Locks == {"CAPS_LOCK", "NUM_LOCK", "SCROLL_LOCK"}

VARIABLES
    kb_in,      \* the ring of codes
    scan,       \* the codes that this keyboard_read has taken
    flags,      \* shift_l, ..., alt_r and the locks: those that are on
    key,        \* the key it has found, and whether it is on the keypad
    pc,         \* the next step of keyboard_read
    wire,       \* the codes of a key that the keyboard still has to send
    acked,      \* the byte in the port is KB_ACK
    acks,       \* the acknowledgements that the keyboard owes
    expecting,  \* it has been sent LED_CODE and not yet the lamps
    lamps,
    typed,      \* how many presses and releases there were
    held,       \* history: the keys that are held down
    on,         \* history: the locks, as the presses of their keys leave them
    due,        \* history: the keys typed and not yet passed to in_process,
                \* as long as no code was lost
    extra,      \* history: keys passed to in_process that were not the next due
    lost        \* history: a code did not go into the ring
taskVars == <<scan, flags, key, pc>>
deviceVars == <<wire, acks, expecting, lamps>>
histVars == <<held, on, due, extra>>
vars == <<kb_in, taskVars, deviceVars, histVars, acked, typed, lost>>

NoKey == [key |-> "none", flags |-> {}, pad |-> FALSE]

TypeOK ==
    /\ kb_in \in Seq(0 .. 255) /\ Len(kb_in) <= KB_IN_BYTES
    /\ scan \in Seq(0 .. 255) /\ Len(scan) <= 6
    /\ flags \subseteq Modifiers \cup Locks
    /\ pc \in {"idle", "get", "decode", "leds", "ack", "ack_leds", "in_process"}
    /\ wire \in Seq(0 .. 255)
    /\ acked \in BOOLEAN /\ expecting \in BOOLEAN /\ lost \in BOOLEAN
    /\ acks \in Nat
    /\ lamps \subseteq Locks /\ on \subseteq Locks
    /\ typed \in 0 .. MaxTyped /\ held \subseteq Keys

Init ==
    /\ kb_in = <<>> /\ scan = <<>> /\ pc = "idle" /\ key = NoKey
    /\ flags = {"NUM_LOCK"}
    /\ wire = <<>> /\ acked = TRUE /\ acks = 0 /\ expecting = FALSE
    /\ lamps = {"NUM_LOCK"}
    /\ typed = 0 /\ held = {} /\ on = {"NUM_LOCK"} /\ due = <<>> /\ extra = {} /\ lost = FALSE

(***************************************************************************)
(* The keys, and what pressing one means.                                  *)
(***************************************************************************)
ModifierOf ==
    "LeftShift" :> "SHIFT_L" @@ "RightShift" :> "SHIFT_R" @@ "LeftCtrl" :> "CTRL_L" @@
    "RightCtrl" :> "CTRL_R" @@ "LeftAlt" :> "ALT_L" @@ "RightAlt" :> "ALT_R"
LockOf ==
    "CapsLock" :> "CAPS_LOCK" @@ "NumLock" :> "NUM_LOCK" @@ "ScrollLock" :> "SCROLL_LOCK"

HeldFlags(keys) == {ModifierOf[k] : k \in keys \cap DOMAIN ModifierOf}

(* The key that a press of k means while the keys in h are held and the    *)
(* locks in l are on, and whether it is one of the keypad.                 *)
Means(k, h, l) ==
    LET shift == h \cap {"LeftShift", "RightShift"} # {}
        n == "NUM_LOCK" \in l
    IN  CASE k = "A"           -> <<IF shift # ("CAPS_LOCK" \in l) THEN "A" ELSE "a", FALSE>>
          [] k = "1"           -> <<IF shift THEN "!" ELSE "1", FALSE>>
          [] k = "Enter"       -> <<"ENTER", FALSE>>
          [] k = "KeypadEnter" -> <<"ENTER", TRUE>>
          [] k = "Home"        -> <<"HOME", FALSE>>
          [] k = "Keypad7"     -> <<IF shift \/ n THEN "7" ELSE "HOME", ~ shift>>
          [] k \in DOMAIN ModifierOf -> <<ModifierOf[k], FALSE>>
          [] k \in DOMAIN LockOf     -> <<LockOf[k], FALSE>>

Silent == {"PrintScreen", "Pause"}

Quiet == wire = <<>> /\ acks = 0 /\ ~ expecting

Typing == Quiet /\ typed < MaxTyped /\ typed' = typed + 1

(* A press, or the repetition of a key that stays pressed. *)
Press(k) ==
    /\ Typing
    /\ held' = IF KeyCodes[k].break = <<>> THEN held ELSE held \cup {k}
    /\ wire' = KeyCodes[k].make
    /\ on' = IF k \notin DOMAIN LockOf THEN on
             ELSE IF LockOf[k] \in on THEN on \ {LockOf[k]} ELSE on \cup {LockOf[k]}
    /\ due' = IF k \in Silent \/ lost THEN due
              ELSE LET m == Means(k, held', on')
                   IN  Append(due, [key |-> m[1], flags |-> HeldFlags(held'), pad |-> m[2]])
    /\ UNCHANGED <<kb_in, taskVars, acks, expecting, lamps, extra, acked, lost>>

Release(k) ==
    /\ Typing /\ k \in held
    /\ held' = held \ {k}
    /\ wire' = KeyCodes[k].break
    /\ UNCHANGED <<kb_in, taskVars, acks, expecting, lamps, on, due, extra, acked, lost>>

(***************************************************************************)
(* The interrupt.                                                          *)
(***************************************************************************)
keyboard_handler(code) ==
    kb_in' = IF Len(kb_in) < KB_IN_BYTES THEN Append(kb_in, code) ELSE kb_in

CodeComes ==
    /\ wire # <<>>
    /\ keyboard_handler(Head(wire))
    /\ wire' = Tail(wire)
    /\ acked' = FALSE
    /\ lost' = (lost \/ kb_in' = kb_in)
    /\ due' = IF lost' THEN <<>> ELSE due
    /\ UNCHANGED <<taskVars, acks, expecting, lamps, held, on, extra, typed>>

AckComes ==
    /\ acks > 0 /\ wire = <<>>
    /\ keyboard_handler(KB_ACK)
    /\ acks' = acks - 1
    /\ acked' = TRUE
    /\ UNCHANGED <<taskVars, wire, expecting, lamps, histVars, typed, lost>>

(***************************************************************************)
(* keyboard_read                                                           *)
(***************************************************************************)
IsPrefixOf(s, t) == Len(s) <= Len(t) /\ s = SubSeq(t, 1, Len(s))

(* Mutant: a third code is taken after every E0. *)
Taken_Long(s) ==
    CASE s[1] = E1 -> s = PauseCodes \/ ~ IsPrefixOf(s, PauseCodes)
      [] s[1] = E0 -> Len(s) > 2 /\ (s[3] = E0 => Len(s) > 3)
      [] OTHER     -> TRUE

(* keyboard_read takes no further code after these. *)
Taken(s) ==
    CASE s[1] = E1 -> s = PauseCodes \/ ~ IsPrefixOf(s, PauseCodes)
      [] s[1] = E0 -> /\ Len(s) > 1
                      /\ s[2] \in {42, 183} => Len(s) > 2 /\ (s[3] = E0 => Len(s) > 3)
      [] OTHER     -> TRUE

(* get_byte_from_kbuf: it spins while the ring is empty, except for the    *)
(* first code of a keyboard_read.                                          *)
get_byte_from_kbuf ==
    /\ pc \in {"idle", "get"} /\ kb_in # <<>>
    /\ scan' = Append(scan, Head(kb_in))
    /\ kb_in' = Tail(kb_in)
    /\ pc' = IF Taken(scan') THEN "decode" ELSE "get"
    /\ UNCHANGED <<flags, key, deviceVars, histVars, acked, typed, lost>>

IsPausePrint(s) == s \in {PauseCodes, <<E0, 42, E0, 55>>, <<E0, 183, E0, 170>>}

(* scan_code after the sequences, and the key in its row. *)
scan_code == IF scan[1] = E0 THEN scan[2] ELSE scan[1]
make == scan_code < FLAG_BREAK
keyrow == keymap(scan_code % FLAG_BREAK)

(* Mutant: the lock of the letters is not looked at. *)
Caps_ShiftOnly == flags \cap {"SHIFT_L", "SHIFT_R"} # {}

(* The second column: shift, which the lock turns round for a letter. *)
Caps == LET shift == flags \cap {"SHIFT_L", "SHIFT_R"} # {}
        IN  IF "CAPS_LOCK" \in flags /\ keyrow[1] = "a" THEN ~ shift ELSE shift
column == IF scan[1] = E0 THEN 3 ELSE IF Caps THEN 2 ELSE 1

(* Mutant: a modifier stays on when its key is released. *)
FlagsAfter_NoRelease(k) ==
    CASE k \in Modifiers     -> IF make THEN flags \cup {k} ELSE flags
      [] k \in Locks /\ make -> IF k \in flags THEN flags \ {k} ELSE flags \cup {k}
      [] OTHER               -> flags

(* The modifiers follow their keys, a lock is turned by each press. *)
FlagsAfter(k) ==
    CASE k \in Modifiers     -> IF make THEN flags \cup {k} ELSE flags \ {k}
      [] k \in Locks /\ make -> IF k \in flags THEN flags \ {k} ELSE flags \cup {k}
      [] OTHER               -> flags

Pad == {"PAD_7", "PAD_ENTER"}
PadKey(k, f) ==
    CASE k = "PAD_ENTER" -> "ENTER"
      [] k = "PAD_7"     -> IF "NUM_LOCK" \in f THEN "7" ELSE "HOME"
      [] OTHER           -> k

Decode ==
    LET k == keyrow[column]
        f == FlagsAfter(k)
    IN  /\ pc = "decode"
        /\ IF IsPausePrint(scan) \/ ~ make
           THEN pc' = "idle" /\ key' = NoKey
           ELSE /\ pc' = IF k \in Locks THEN "leds" ELSE "in_process"
                /\ key' = [key |-> PadKey(k, f), flags |-> f \cap Modifiers, pad |-> k \in Pad]
        /\ flags' = IF IsPausePrint(scan) THEN flags ELSE f
        /\ scan' = <<>>
        /\ UNCHANGED <<kb_in, deviceVars, histVars, acked, typed, lost>>

(* set_leds: LED_CODE and the lamps, each after kb_wait and before kb_ack, *)
(* which reads the port until the byte in it is KB_ACK.                    *)
LedCode ==
    /\ pc = "leds"
    /\ expecting' = TRUE /\ acks' = acks + 1
    /\ pc' = "ack"
    /\ UNCHANGED <<kb_in, scan, flags, key, wire, lamps, histVars, acked, typed, lost>>

kb_ack ==
    /\ pc = "ack" /\ acked
    /\ lamps' = flags \cap Locks /\ expecting' = FALSE /\ acks' = acks + 1
    /\ pc' = "ack_leds"
    /\ UNCHANGED <<kb_in, scan, flags, key, wire, histVars, acked, typed, lost>>

kb_ack_leds ==
    /\ pc = "ack_leds" /\ acked
    /\ pc' = "in_process"
    /\ UNCHANGED <<kb_in, scan, flags, key, deviceVars, histVars, acked, typed, lost>>

in_process ==
    /\ pc = "in_process"
    /\ IF lost
       THEN UNCHANGED <<due, extra>>
       ELSE IF due # <<>> /\ key = Head(due)
       THEN due' = Tail(due) /\ UNCHANGED extra
       ELSE extra' = extra \cup {key} /\ UNCHANGED due
    /\ key' = NoKey
    /\ pc' = "idle"
    /\ UNCHANGED <<kb_in, scan, flags, deviceVars, held, on, acked, typed, lost>>

keyboard_read == get_byte_from_kbuf \/ Decode \/ LedCode \/ kb_ack \/ kb_ack_leds \/ in_process

Next == \/ \E k \in Keys : Press(k) \/ Release(k)
        \/ CodeComes \/ AckComes
        \/ keyboard_read

(* The keyboard sends the codes it has and the answers it owes; task_tty,  *)
(* which is ready all through keyboard_read, gets the processor again      *)
(* (module Sched).                                                         *)
Spec == /\ Init /\ [][Next]_vars
        /\ WF_vars(CodeComes) /\ WF_vars(AckComes)
        /\ WF_vars(pc # "idle" /\ keyboard_read)

-----------------------------------------------------------------------------
Drained == Quiet /\ kb_in = <<>> /\ pc = "idle"

(* As long as the ring was never full, what reaches in_process is exactly  *)
(* what was typed: each press once, in order, with the character, the      *)
(* modifiers and the lock states of the moment it was pressed, however the *)
(* bytes of sequences, releases and acknowledgements are interleaved with  *)
(* the reading (keyboard.c:70-268).                                        *)
DecodedAsTyped ==
    lost \/ (extra = {} /\ (Drained => due = <<>>))

(* When all codes have been read, the driver's modifiers are the keys that *)
(* are held and its locks and the lamps are as they were typed: no shift   *)
(* is left on by the order of releases or by Print Screen, whose codes     *)
(* begin with that of a shift.                                             *)
FlagsMatchKeys ==
    lost \/ (Drained => /\ flags = HeldFlags(held) \cup on
                        /\ lamps = on)

(* kb_ack waits for an acknowledgement that was overwritten in the port    *)
(* before it looked: no other will come.                                   *)
AckMissed == pc \in {"ack", "ack_leds"} /\ ~ acked /\ acks = 0

(* A keyboard_read that has taken a code returns: the rest of the sequence *)
(* comes, and so do the answers to the commands for the lamps, unless a    *)
(* code was lost at a full ring or an acknowledgement was missed.          *)
ReadReturns == pc # "idle" ~> (pc = "idle" \/ lost \/ AckMissed)
=============================================================================
