# Verification of dlos

dlos is a small operating system for one x86 processor: a kernel with message
passing, a set of tasks (terminal, disk, file system, memory manager, system) and
user processes, written after a textbook. This directory holds TLA+ models of
its parts, the TLC runs that check them on small instances, and proofs that
TLAPS checks for every size.

## 1. The system

| Component | State | Operations | Talks to |
|---|---|---|---|
| message passing, `kernel/proc.c` | per process `p_flags`, `p_msg`, `p_recvfrom`, `p_sendto`, `has_int_msg`, list `q_sending` | `send_recv` (SEND, RECEIVE, BOTH), `inform_int` from handlers | every task; the scheduler through `block` |
| scheduler and clock, `kernel/proc.c`, `kernel/clock.c` | `ticks`, `priority`, `p_proc_ready`, `k_reenter`, `key_pressed` | `schedule`, `clock_handler` | blocks and wakes of message passing |
| interrupt entry, `kernel/kernel.asm` | `k_reenter`, the mask of the controller | `save`, `sys_call`, `restart` | handlers, `schedule` |
| consoles, `kernel/console.c` | cursor, window and memory of each console, the registers of the screen | `out_char`, `scroll_screen`, `select_console`, `flush` | called by task_tty and by `printl` in any process |
| terminals, `kernel/tty.c` | per tty the keys read and the pending read | loop of `task_tty`: poll the keyboard, serve keys, receive | task_fs (requests, RESUME), clock (HARD_INT) |
| keyboard, `kernel/keyboard.c`, `keymap.h` | ring `kb_in`, modifiers, locks, lamps | `keyboard_handler`, `keyboard_read`, `set_leds` | task_tty polls; the keyboard's port |
| hard disk driver, `kernel/hd.c` | partitions, `open_cnt`, the controller | `task_hd`: open, read, write, ioctl | task_fs (requests), `hd_handler` (HARD_INT) |
| files, `fs/open.c`, `fs/link.c`, `fs/misc.c`, `fs/main.c` | `filp`, `f_desc_table`, `inode_table`, on the disk the inodes, two bit maps, the root directory | open, create, close, unlink, fork, reads and writes of the root directory | task_hd for sectors |
| reading and writing, `fs/read_write.c` | `fd_pos`, `i_size`, sectors | `do_rdwt` | task_hd, or task_tty for a terminal |
| memory manager, `mm/` | process table, memory images | `do_fork` | task_fs (FORK), the child |
| system task, `kernel/systask.c` | none | GET_TICKS, GET_PID | every process |
| disk log, `fs/disklog.c` | position in the log sectors | `disklog`, `dump_fd_graph` | task_hd |

What is hard about it:

* Interrupts are enabled inside system calls (`sti` in `sys_call`), and the
  handlers change the very fields that the calls work on. A call is never
  preempted by another process (`clock_handler` returns when `k_reenter # 0`).
* All tasks wait for each other with blocking sends. A circle is answered with a
  panic; a sender and a receiver that miss each other sleep for good.
* task_tty is a server that also sends on its own account (RESUME_PROC), to a
  task that is its client.
* Fork is several steps of two tasks on a process that is in the middle of a call,
  and task_mm can be preempted between any two of them. Everything else in task_fs is sequential, and
  there the difficulty is in long sequences of legal calls, in the borders of
  sectors and in counts.
* `keyboard_read` spins: for the rest of a sequence, and for the answers to its
  commands, which come through the port and the interrupt that scan codes use.
* Nothing is recovered after a crash: `mkfs` makes a new file system at each
  boot, so crashes are not modelled.

The list of places where this bites, with the property aimed at each, is under
`hazards` in PROJECT.json.

## 2. The modules

`X.tla` is a component, `MCX.tla` its instances, the `.cfg` files the runs, and
`XProofs.tla` its theorems; those of Sched and Console are together in
`KernelProofs.tla`, those of IpcRefinement in `IpcProofs.tla`. Mutated forms of definitions are kept next to the
originals (comment "Mutant:"); PROJECT.json says which property must notice
which one.

**Ipc** (`kernel/proc.c`). One action per stretch of `msg_send`, `msg_receive`
and `block` between two points where an interrupt makes a difference; `pc` names
the line. `HdHandler`, `ClockHandler` and `KeyboardHandler` may come between any
two of them. Asserts are modelled as the code has them: one that fails stops
the machine (`halted`). The linked list of senders is a sequence, a message is
its source and a body, and the programs are the set `Calls` of calls they may
make. `schedule` may choose any ready process here.

**Messages** and **IpcRefinement**. What the message passing promises: a process
runs, offers, asks or sleeps; an offer ends in the step that hands the message
over; offers wait in a queue. The two allowances the code needs (a sleep that does
not look at a pending interrupt, an offer lost to one) are actions of their own.
The refinement mapping reads `to` and `from` off the flags of a process, or off `pc`
while its call is under way; a message counts as handed over when the receiver
can run with it.

**Sched** (`schedule`, `clock_handler`). Ticks, refills and the choice of the
process; blocking and waking are arbitrary. A clock tick in user mode may
reschedule, one inside a call only charges. `schedule` is one step.

**Rendezvous**. SEND, RECEIVE, the deadlock test and `inform_int` as single
steps, for the modules of the tasks. It is the behaviour of Ipc when no
interrupt falls into the middle of a call.

**Terminal** (`tty.c`, `keyboard.c`, the terminal part of `task_fs`, the library's
`open`, `read`, `write`). Three kinds of processes with a program counter
each, two interrupt handlers. Scan codes are represented by what
`keyboard_read` makes of them (module Keyboard has how). `line` and `pending` are history variables.

**Console** (`console.c`). An `out_char` is a check, an assignment, a loop of
scrolls and a flush, each a step of the context that runs it: task_tty or a
system call of a process (`printl`). With `Concurrent = FALSE` one `out_char`
at a time. Its `Init`, `Next`, `Spec` and `TypeOK` carry the module's name, since
KernelProofs extends Sched as well.

**Keyboard** (`keyboard.c`, `keymap.h`). Keys are pressed and released, their bytes
come through the interrupt one by one, and `keyboard_read` is a step per byte
taken, one for the decoding and one per command to the lamps. One key of every
kind of the table: a letter, a digit, Enter, both of each modifier, the locks, a
keypad key, extended keys, Print Screen and Pause. What a press means (`Means`) is
stated from the keys that are held, not from scan codes; the keyboard is external.

**Fork** (`mm/`, `systask.c`, the library's `getpid`, `get_ticks`), over Rendezvous.
`do_fork` is a step for each of: the entry, the memory, the descriptors, the
message to task_fs, the child, the parent. A process's memory is represented by
the call of `sendrec` on its stack, its registers by whether it is inside one:
what has to fit when a copy of it runs. `forked` is a history variable: the child that
the fork under way has made for its caller, 0 for the child until it has returned.
`torn` records that the parent or the child
ran before the child had a memory of its own.

**Files** (`open.c`, `link.c`, `misc.c`, `main.c`, `disklog.c`, `do_fork`). A handler is
one step since task_fs serves one message at a time. The sector map is kept as the
bits that `alloc_smap_bit`, `do_unlink` and `disklog` set and clear, with their
different ideas of which sector a bit is. After every unlink task_fs dumps its
tables into the log, which reserves its sectors at the first time. A fork is two
steps, `ForkCopies` of task_mm and `FsFork` of task_fs, and the other processes call
in between. The root directory can be opened (open.c:101), and `do_rdwt` takes it for a
file (read_write.c:55): `ReadDirectory` and `WriteDirectory` are what a process does to
it in this way. `writes` counts them, and `cut` records that `do_unlink` made the
directory shorter than its entries.

**Rdwt** (`do_rdwt` on a regular file). A turn of the loop is one step. What
bytes are decides nothing, so a byte is named by the place it had when the call
began, which shows every byte that is skipped, doubled or misplaced.

**Hd** (`hd.c`). task_hd, `hd_handler`, and the controller as the driver uses it
(external): it interrupts when a sector can be read and when one has been
written. Lengths are in sectors. `hd_open` walks over the partition tables of a
disk, sector by sector through the same protocol; the layout of the disk is chosen
at the start. In `interrupt_wait` the statements of `msg_receive` are kept that an
interrupt can come between: the test of `has_int_msg` (`interrupt_wait`), the marking as
RECEIVING, `block` and the asserts behind it (`FallAsleep`).

## 3. The runs

| Run | Instance | Shows |
|---|---|---|
| `ipc` | task_tty, task_hd, task_fs, a user, one process that never calls | lists of senders exact, no circle, no missed rendezvous, asserts hold, answers come from the peer; implements Messages |
| `ipc_lost_interrupt` | the same | **violated**: the assert at proc.c:342 |
| `sched` | priorities 3, 3, 1, 1 | bounded waiting, no starvation |
| `console` | 2 consoles of 14 cells, rows of 3, screen of 6 | cursor and window stay, loop ends, screen is current |
| `terminal_line` | 1 user, 2 terminals, 3 codes, ring of 2 | order of keys, edited line, one answer per read, reader not forgotten |
| `terminal_share` | 2 users, 1 terminal, 1 code | opens and writes return, with the right answer |
| `terminal_deadlock` | 2 users, 1 terminal | **violated**: task_tty and task_fs send to each other |
| `files` | 3 processes (1 at the start), 3 names, forks, a device of 9 sectors, one write into the directory | counts of shared descriptors, open files stay, maps, inodes and entries agree |
| `rdwt` | 2 descriptors, 3 sectors of 3 bytes, buffer of 2 sectors | transfers exact, length saved, calls return |
| `hd` | 1, 2 and 256 sectors, 25 layouts of a disk | data there when taken, nothing left over, partitions found, right sectors, answered or stopped |
| `fork` | 1 process, 2 free entries, memory for 0 to 2 | the stack is that of the call made, right answers, calls return |
| `keyboard` | 17 keys, ring of 3, 3 presses and releases | decoded as typed, modifiers and lamps right, reading returns |

A run marked violated is a disagreement of the code with a comment or assert of
its own; `findings` in PROJECT.json quotes it. Further ones that the models
contain, with no run of their own:

* `msg_send` (proc.c:180-187) loses its message when an interrupt wakes the
  receiver, task_tty or task_hd, between the test and the copy; `MessageArrives`
  has the exception.
* The same window in front of the sleep (proc.c:245-342): in Hd the disk's interrupt may
  come in it, and an assert of `block` or of `msg_receive` stops the machine (`FallAsleep`);
  `RequestAnswered` says so. In `ipc` the asserts at 131, 181, 255, 338 and 342 all are
  reached by an interrupt of this kind, and `KernelAssertsHold` is about the others.
* A read of a terminal replaces another process's pending read (tty.c:188-192);
  `SuspendedIsServed` is for one reader.
* Two scan codes taken by one wake-up: task_tty clears `key_pressed` and sleeps with
  one code unread until the next key (tty.c:38-65).
* With `Concurrent = TRUE`, `printl` between the check and the increment of an
  `out_char` brings the cursor to where no scrolling reaches (console.c:55-91).
* A refused unlink keeps its reference to the inode (link.c:41-50): `UnlinkRefused`.
* Three files created, the first removed, then the last: `do_unlink` sets the
  directory's size to the used entries before the last one (link.c:110-138), and the
  file in between is behind it. `search_file` looks one entry further and finds
  it, `do_unlink` does not, and `assert(flg)` (link.c:134) fails. A file created
  meanwhile takes the place of its entry. `Unlink` has it, `cut` records it, and the last
  part of `EntriesMeanFiles` is about the time before.
* The root directory can be opened like a file (open.c:101), read and written
  (read_write.c:55). A read past its end makes it longer. A write can make an entry that
  leads to a free inode, on which `do_open` stops (open.c:105), or two entries of one inode,
  of which `do_unlink` removes the first by number: then link.c:134 fails too.
  `EntriesMeanFiles` is about the time before the first write; open files, cache and maps
  survive it.
* A write that reaches the end of the file's sectors goes on in the first sector of
  the next file: `rw_sect_max` (read_write.c:66) is the sector behind the last one,
  and the bytes of line 75 are not limited by `pos_end`. `Transfer` has it.
* The log's bits (disklog.c:39-42) are counted from the start of the device, those
  of files from the first data sector: the bits reserved are not those of the
  sectors written. When files got to these bits first, `assert` at disklog.c:52 fails at
  the first unlink. When the space before the log's bits is no multiple of a file's, the file
  that meets them fails the assert at open.c:211 (`AllocFails`; in the run's device it is a
  multiple). The map is longer than the device.
* `do_fork` copies entry, memory and descriptors one after the other while parent
  and child may run (forkexit.c:35-67). A parent that is still ready (its SEND was
  answered by task_mm's receive before it went on to its RECEIVE) changes its stack
  between the copies; the child, which is ready as well, would use the parent's.
  The parent or the child then returns from another call than it made, or never.
  The properties of Fork say `torn` for it; without, `ForkReturns` fails.
* `kb_ack` polls the data port (keyboard.c:302-309). A scan code that follows the
  acknowledgement at once replaces it, and task_tty spins for good: `AckMissed`.
* An artificial shift before a grey key (E0 2A E0 47 for Home with NumLock on) is
  taken for the beginning of Print Screen (keyboard.c:99-106): the key is lost and a
  key 0 passed on. The keyboard of the model does not send it.
* `va2la(src, fsbuf)` in do_rdwt (read_write.c:80, 83) takes task_fs's buffer in the
  segment of the caller, which is right only where that starts at 0: not in a child.
* A disk whose second primary partition is not extended leaves the base of the root
  device at 0 (hd.c:116).
* A read of more than the file holds returns what lies behind its end, and
  lengthens the file (read_write.c:60-97); `WholeRequest` is about the others.
* More than 256 sectors do not fit into the driver's u8 count (hd.c:122); `do_rdwt`
  may ask for 2048.

Bounds. In `ipc` every role occurs once, and one process besides can be
scheduled at any time; a further user would queue at task_fs like the others.
`console` has a last row that is incomplete, as with the real sizes
(80 x 25 cells in 5461). `rdwt` has requests longer than the buffer and positions
on, before and behind every border. `terminal_*` is bounded by the number of
scan codes; the ring is smaller than that, so that it wraps and is full. In
`files` three processes are needed: while one forks, a second, which shares its
descriptors, closes, opens and unlinks, and the third is the child. `MaxLoad` bounds the sum
of processes and files (and 2 for a directory that a process has written, and for one
that a read made longer) to 4: three processes and a file, two and two, one and three,
the number of names. The map is then full and its end is met (open.c:225),
the log is in the way (disklog.c:52), entries are lost behind `i_size` and overwritten,
and the asserts of the list above other than open.c:211 are reached; sectors of the map
have 3 bits, so that a file crosses their border. `MaxCnt` keeps the
leak of `i_cnt` finite, and of leaked references the run has `MaxLeaks`, one, at a time.
`MaxWrites` bounds the writes into the directory, and `Scribbles` is one entry, the tty's,
that is given the number of a file. `hd` has one, several and the largest number of sectors that is right, and extended
partitions with none, some, all and more logical partitions than there is room for.
`fork` has a fork of a child and one that finds the table full. `keyboard`
has a sequence longer than its ring, and with three presses a modifier, a lock or a
sequence before, between and after others.

Deadlock is checked except where the machine may stop: Files and Hd (a panic ends
the behaviour), Fork (all wait after a torn fork), Keyboard (typing ends) and the passing runs of Terminal (all keys of the bound are typed
and all processes read).

Fairness. Sched: the code of a call runs to its end (weak fairness), and the
clock does not always strike inside a call (strong fairness of `ClockUser`; 100
ticks a second, calls of some hundred instructions). Console and Terminal: each
task keeps running, which `NoStarvation` of Sched provides; the clock ticks.
Users are not made to call, and nobody is made to type. Rdwt: task_fs and the
driver go on. Hd: the driver, the handler and the controller go on. Fork: the
tasks and the calls in progress go on. Keyboard: the bytes of a key and the
acknowledgements come, and a `keyboard_read` that has begun goes on.

Each module has a `TypeOK` (`ConsoleTypeOK`), which holds in its runs; those of Ipc,
Console, Sched, Rdwt, Hd and Files are proved, and part of the invariants of their
proofs. The proofs of Terminal and Fork have it without the queues of senders.

## 4. The proofs

**IpcProofs**, for every set of processes and calls. The properties are
inductive only together, with what a call in progress has established:
`IInv` is `TypeOK` with (1) the fields of a process agree with its flags except
where the call at `pc` is just changing them, (2) what the call has tested still
holds, or an interrupt has come to the process it tested, (3) a message that waits
is stamped with its sender, (4) the lists of senders are exact, (5) no circle, (6)
no missed rendezvous and (7) no assert of the covered ones has failed. No circle
is the interesting one: a set that is closed under "waits to send to" and holds a
new sender would contain the destination, and the test of `deadlock` has shown a
set with the destination and without the sender. From `IInv` follow
`TypeCorrect`, `QueueCorrect`, `SendersAcyclic`, `RendezvousNotMissed`,
`AssertsHold`, `DeliveryIntact`, and the two action properties `SendersWait` and
`AnswersFromPeer`.

The same module: Ipc implements Messages (`Refinement`). Besides `IInv` the mapping needs that a receiver woken in the middle of a SEND has the
interrupt's message or, in the last place where that can happen, the sender's
(`Interrupted`), and that the buffer of a RECEIVE holds no message before one is copied
(`Asking`). Each action of Ipc is then one step of Messages or none: a call that begins
is `Offer` or `Ask`, `SendEnqueue` is `Enqueue`, `SendWake` is `Deliver`, or `Lose` when
an interrupt has woken the receiver before (or a stutter when the interrupt, between the copy
and the wake, already counted as the delivery), `RecvTake` is `Take`, `RecvSleep` is `Sleep`, a
handler is `Interrupt`; tests, asserts, copies and `block` are stutters.

**SetFacts**: what the other proofs need about sets. The sum of the library
(`MapThenSumSet`) is a recursive function with a `CHOOSE` in it; the module proves that
the function exists, that the sum does not depend on the order of the elements
(`SumRemove`), is monotone and additive, and that sums of the sizes of fibres count
(`SumOfFibres`). Each induction is an argument about a smallest counterexample: the
strict subsets of a finite set are well-founded.

**KernelProofs**, about Sched, for any number of processes and any priorities. `RunningIsReady` is not
inductive: a system call gives the processor back to its caller, so the caller has to be
ready too until it blocks itself (`CallerIsReady`). `BoundedWait` follows from
`RoundsLeft`: the ticks a ready process has waited and the ticks the others still have
are together at most one round (the sum of the others' priorities) if it has no ticks
itself, and at most two if it has. A tick moves one from the second to the first, and a
refill adds a round but also gives ticks to the process.

About Console, for every width, screen and memory size that the assumption of
Console allows. `ConsoleIInv` is `ConsoleTypeOK`, the window's position, and without
concurrency: one `out_char` at a time, room left after the check (the check has
left at least a row), the cursor in the console, and the screen at most the
current call behind. It gives `WindowStays`, `CursorStays`, `ScrollGoesOn` and
`ScreenCurrent`.

**RdwtProofs**, for any sector size, file, buffer, position and length. `IInv` follows the
loop of `do_rdwt`: the next turn starts where the bytes done so far end (`Place`), these and
no others were copied, each to its place (`Moved`), a turn takes at least one sector and the
last one is where the request ends (`Sects`), the disk has the length (`Saved`), and
`WholeRequest` itself. It gives `CallTransfers`, `CallIsWhole` and `LengthIsSaved`.

**HdProofs**, for any disk whose partition tables lie in different sectors, any number of
partitions and any requests. `IInv` says what the driver is doing for whom (`Stage`), that
its loop has a sector to go (`Commanded`), and which entries of `hd_info` the tables read so
far have filled (`Tables`): the walk over an extended partition has entered its first
`walk.i` logical ones. From it follow `AllPartitionsFound` and `SectorIsRight`. The
protocol of driver, interrupts and controller (`Protocol`: as many sectors to go on both
sides, and exactly one interrupt per sector on its way, in the controller or noted) is
proved under `CountFits`, that no request has more sectors than the u8 count of the
command can say, since without it the code is wrong (section 3); it gives `DataIsReady` and
`QuietWhenIdle`.

**FilesProofs**, for any number of processes, files, descriptors, slots, inodes and any
device. `IInv` has four parts, which are inductive only together.

* Descriptors: `fd_cnt` is exact, and during a fork the child has its parent's files
  (`Forking`), so that every descriptor in a `filp` is in use although the copies are not
  counted yet.
* Cache: `i_cnt` of a slot is at least the sum of the counts of the descriptors that use
  it (the leak of a refused unlink makes it larger), a slot in use holds the inode its
  descriptors were opened for, what is cached is allocated and as on the disk, and nothing
  is cached twice. So a slot with users is never recycled, and `do_unlink`, which
  requires a count of 1 after its own `get_inode`, removes only files nobody has open.
  fs_fork adds to each slot the number of the child's files on it, which has to be the sum
  over the slot's descriptors of the child's uses of each: `SumOfFibres`.
* Directory: entries are allocated inodes, each once, and unless it was cut each allocated
  inode has one, all of it up to the first write of a process. That the new entry of a full
  directory without holes stays inside it is a counting argument: its entries would be as
  many different allocated inodes as there are inodes, and one was free.
* Disk: the map of the inodes, and files, directory and log own disjoint sets of bits
  whose union is the sector map.

It gives `FdCountsExact`, `OpenFilesStay`, `CacheIsCoherent`, `EntriesAreFiles`,
`MapsDoAgree`, and `AssertsHold`: the assert of `put_inode` (main.c:350) and those of
`do_unlink` on the two maps (link.c:58) never fail, that of `do_open` (open.c:105) only after a
process has written into the directory, and that of `do_unlink` on the entry (link.c:134) only
after that or after a cut. Everything but the entries is proved for any writes.

**TerminalProofs**, for any number of processes, terminals, keys and sizes of the
buffers. None of the properties is inductive: who may be answered depends on where the
request or the answer is on its way between three processes. `Protocol` follows it:

* `UsersWait`, `TtyWaits`, `FsWaits`: what each process can be waiting for at each
  statement.
* `FsMail`, `TtyMail`: the message a task has received or offers is the call of a
  process, task_fs's request for it, the answer to that, or the RESUME_PROC of the tty's
  reader; and who waits for the answer meanwhile.
* `Readers`: a tty with an unanswered read (`Live`) reads for a process that waits, that
  task_fs does not work for, and that no other tty reads for; what was transferred is
  the line typed for it. Exactly one of the tasks thus has the duty to answer, which
  hands over from task_fs to the tty with SUSPEND_PROC and back with RESUME_PROC.
* `Owed`: whom task_fs works for waits. From these follow `RepliesAreWanted` and
  `ReadsReturnLines`, for any number of readers.
* `Served`: the converse, a process that waits has one of the two. It is false for two
  readers of one tty (section 3), so `SuspendedAreServed` has the hypothesis that there is
  one process. It may still open, read and write all terminals.

`RingIsQueue` has an invariant of its own (`Ring`): the head is the tail plus the count,
modulo the size, and the codes in between are those that went in and did not come out.

**ForkProofs**, for any number of entries, any memory and any processes that call. As in
Terminal the invariant says what each process waits for and for whom each task works
(`UsersWait`, `MmWaits`, `MmServes`, `FsServes`, `SysServes`): in particular the parent and
the child of the fork under way are inside `sendrec` and without an answer from the copy
of the entry to their own reply, so that nobody else's reply can reach them. `Regions`
has what the copies rest on: every process uses its own region except the child between the
copies of `do_fork`, the child's registers are those of the parent, and after `phys_copy`
the child's region is as its registers need. `Answered` and `Stacks` are the two properties
themselves. All of it is up to `torn`, which once true stays so: then the code is wrong
(section 3), and the theorems `StacksMatchCalls` and `AnswersAreRight` say what the
properties say, that it goes wrong in no other way. `RightAnswers` compares a fork's answer
with `forked`, so a parent that was itself forked does not pass with 0.

Both assume that the numbers of the tasks, of the processes, ANY and INTERRUPT differ, as
in `const.h`, and that `NoMessage`, the content of a buffer before its first use, is a
message. The queues of senders are left out of their types: a RECEIVE takes the message of
a process that waits to send it, whatever its place in the queue, and that `SelectSeq`, which takes a sender out of it, gives a sequence
again would need an induction over sequences. In Ipc, where the queue matters, it is proved.

Only model-checked:

* Everything under fairness (`NoStarvation`, `OutCharReturns`, `WriteReturns`,
  `CallReturns`, `RequestAnswered`, `ForkReturns`, `ReadReturns`), which this prover does not
  reach.
* `DecodedAsTyped` and `FlagsMatchKeys` of Keyboard. They compare the driver with the
  keys that were typed, so an invariant has to say what the codes that are in the ring and
  on the wire will be decoded to: a recursion over a sequence of any length, with
  acknowledgements anywhere between the codes of a key.

## 5. Not modelled

* `fs_exit`: nobody sends EXIT (`mm/main.c` has it commented out); DEV_CLOSE and
  DISK_LOG, which nobody sends either (task_fs would assert on the last).
* F12, which stops the machine on purpose.
* A tick inside the scan of `schedule`; two increments of one cursor that become
  one (Console treats an increment as atomic); a tick inside the copy of a table
  entry (`*p = proc_table[pid]`), which Fork treats as one step.
* Addresses and sizes in `do_fork` (a process with the kernel's 4 GB segment has
  size 0 in an int, forkexit.c:45), process names, and `fork` in the library
  (declared, not in the repository).
* A full inode map (the sectors run out first); names of 12 characters, whose
  terminating 0 goes into the next entry (open.c:281).
* In `do_rdwt` the assertion on the flags of the descriptor and the -1 for one without
  O_RDWR (read_write.c:21-26), which change no state; what a write into the directory
  consists of below an entry (Files writes whole entries, with numbers of existing inodes,
  one at a time), and a directory that a process makes longer than its sectors.
* The text of the disk log and its position, which only grows (disklog.c:88), and the
  256 pairs of its graph (disklog.c:138).
* `ticks` that starts again at 0 (after 248 days) during a wait (hd.c:340); lengths that
  are no whole sectors (hd.c:148), which nobody asks for; `do_close` of a file that is
  not open (open.c:118).
* What the codes behind a byte mean that was lost at a full ring.
* Boot, loader and protected mode: they run once, alone, on the processor's own
  tables. Formatting and the test programs, which keep no state.

## 6. Plan

Done: Ipc, Messages with its refinement, Sched, Files with the disk log, Console,
Rendezvous with Terminal, Rdwt, Hd with the partition tables, Fork, Keyboard; proofs of
Ipc, of its refinement, and of Console, Sched, Rdwt, Hd, Files, Terminal and Fork. Left:

1. Keyboard: `FlagsMatchKeys` and `DecodedAsTyped` for every sequence of keys.
2. That Rendezvous is what Ipc does when no interrupt falls into a call, which is now
   an argument about the code and not a theorem.
