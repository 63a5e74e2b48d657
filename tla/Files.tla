------------------------------- MODULE Files -------------------------------
(***************************************************************************)
(* The tables of the file system task (fs/): the descriptors of the        *)
(* processes (filp), the shared descriptors (f_desc_table), the cached     *)
(* inodes (inode_table), and on the disk the inodes, the inode map, the    *)
(* sector map and the root directory; and fork, with which two processes   *)
(* come to share descriptors.                                              *)
(*                                                                         *)
(* task_fs serves one message at a time, so a handler is one step.  fork   *)
(* is not one step: task_mm copies filp, and only later task_fs counts the *)
(* copies; it may serve others in between.                                 *)
(*                                                                         *)
(* After every UNLINK, also one that fails, task_fs dumps its tables into  *)
(* the disk log (fs/disklog.c); the first time that reserves sectors for   *)
(* the log.  Of the text of the log nothing is kept.                       *)
(*                                                                         *)
(* Abstractions: a map of bits is the set of its 1 bits; the directory is  *)
(* an array of entries and its i_size a number of entries.  A call that    *)
(* fails before it changes anything is a stutter and has no action.        *)
(* Reading and writing a file (do_rdwt) change none of this state and are  *)
(* left out.  The root directory can be opened, read and written like a    *)
(* file: a read may lengthen it, and a write puts what the process likes   *)
(* into its entries, here whole entries with the numbers of inodes.        *)
(***************************************************************************)
EXTENDS Naturals, FiniteSets, FiniteSetsExt

CONSTANTS NR_PROCS, NR_NATIVE_PROCS, \* entries for user processes, used at boot
          NR_FILES, NR_FILE_DESC, NR_INODE, \* sizes of the tables
          NR_REGULAR, \* inodes for regular files, enough for Names
          NR_DEFAULT_FILE_SECTS, \* sectors of a file, of the directory, of the log
          nr_sects,   \* size of the root device, in sectors
          n_1st_sect, \* its first sector for data
          SECTOR_BITS,\* bits in a sector of the sector map
          Names,      \* file names that the programs use
          NR_ENTRIES, \* entries in the sectors of the directory
          Scribbles,  \* what processes write into the directory themselves
          MaxCnt,     \* bound: a failing unlink raises no i_cnt beyond it
          MaxWrites   \* bound: the writes of processes to the directory

Proc == 1 .. NR_PROCS
Fd   == 1 .. NR_FILES
Desc == 1 .. NR_FILE_DESC
Slot == 1 .. NR_INODE

(* Inode 1 is the root directory, inode 2 a tty; nothing has inode 0. *)
ROOT_INODE == 1
TTY_INODE  == 2
Inode == 1 .. NR_REGULAR + 2
Entry == 1 .. NR_ENTRIES

(* The bits of the sector map fill whole sectors. *)
Bit == 0 .. (nr_sects \div SECTOR_BITS + 1) * SECTOR_BITS - 1
Start == n_1st_sect .. n_1st_sect + (nr_sects \div SECTOR_BITS + 1) * SECTOR_BITS

Path == Names \cup {"/", ".", "dev_tty0"}

ASSUME FilesAssumption ==
    /\ NR_PROCS \in Nat /\ NR_NATIVE_PROCS \in 0 .. NR_PROCS
    /\ NR_FILES \in Nat \ {0} /\ NR_FILE_DESC \in Nat \ {0}
    /\ NR_INODE \in Nat \ {0} /\ NR_REGULAR \in Nat /\ MaxCnt \in Nat
    /\ NR_ENTRIES \in Nat /\ NR_ENTRIES >= NR_REGULAR + 2 /\ MaxWrites \in Nat
    /\ NR_DEFAULT_FILE_SECTS \in Nat \ {0} /\ n_1st_sect \in Nat \ {0}
    /\ SECTOR_BITS \in Nat \ {0}
    /\ nr_sects \in Nat /\ nr_sects > n_1st_sect + 2 * NR_DEFAULT_FILE_SECTS
    /\ {"/", ".", "dev_tty0", ""} \cap Names = {}
    /\ Scribbles \subseteq [at : Entry, inode_nr : Inode \cup {0}, name : Path \cup {""}]

VARIABLES
    alive,       \* the processes that can call the file system
    fork,        \* <<parent, child>> while do_fork waits for the file system
    filp,        \* filp[p][f]: the descriptor of file f, or 0
    f_desc_table,\* fd_inode: a slot, or 0 if the descriptor is free; fd_cnt
    opened,      \* history: the inode number a descriptor was opened for
    inode_table, \* the cached inodes; i_cnt = 0 if the slot is free
    dinode,      \* the inodes on the disk
    imap, smap,  \* the 1 bits of the inode map and of the sector map
    logged,      \* disklog has its sectors (its pos is not 0)
    dir, i_size, \* entries of the root directory, and how many it says it has
    writes,      \* how many entries processes have written themselves
    cut,         \* history: do_unlink made i_size too small for an entry in use
    halted       \* "no", or the place of the panic or assert that stopped it

dirVars == <<dir, i_size, writes, cut>>
diskVars == <<dinode, imap, smap, logged, dirVars>>
vars == <<alive, fork, filp, f_desc_table, opened, inode_table, diskVars, halted>>

TypeOK ==
    /\ alive \subseteq Proc
    /\ fork = <<>> \/ fork \in Proc \X Proc
    /\ filp \in [Proc -> [Fd -> Desc \cup {0}]]
    /\ f_desc_table \in [Desc -> [fd_inode : Slot \cup {0}, fd_cnt : Nat]]
    /\ opened \in [Desc -> Inode \cup {0}]
    /\ inode_table \in [Slot -> [i_num : Inode \cup {0}, i_cnt : Nat,
                                 i_mode : {"none", "dir", "char", "regular"},
                                 i_start : Start \cup {0}]]
    /\ dinode \in [Inode -> [i_mode : {"none", "dir", "char", "regular"},
                             i_start : Start \cup {0}]]
    /\ imap \subseteq Inode
    /\ smap \subseteq Bit
    /\ logged \in BOOLEAN
    /\ dir \in [Entry -> [inode_nr : Inode \cup {0}, name : Path \cup {""}]]
    /\ i_size \in 0 .. NR_ENTRIES
    /\ writes \in 0 .. MaxWrites /\ cut \in BOOLEAN
    /\ halted \in {"no", "open.c:44", "open.c:52", "open.c:105", "open.c:211", "open.c:225",
                   "main.c:322", "main.c:350", "link.c:58", "link.c:134", "disklog.c:52"}

NoEntry == [inode_nr |-> 0, name |-> ""]
NoInode == [i_mode |-> "none", i_start |-> 0]

(* mkfs, and the root directory that init_fs keeps in the cache. *)
Init ==
    /\ alive = 1 .. NR_NATIVE_PROCS
    /\ fork = <<>>
    /\ filp = [p \in Proc |-> [f \in Fd |-> 0]]
    /\ f_desc_table = [d \in Desc |-> [fd_inode |-> 0, fd_cnt |-> 0]]
    /\ opened = [d \in Desc |-> 0]
    /\ inode_table =
         [s \in Slot |-> IF s = 1
            THEN [i_num |-> ROOT_INODE, i_cnt |-> 1, i_mode |-> "dir", i_start |-> n_1st_sect]
            ELSE [i_num |-> 0, i_cnt |-> 0, i_mode |-> "none", i_start |-> 0]]
    /\ dinode = [n \in Inode |->
                   CASE n = ROOT_INODE -> [i_mode |-> "dir", i_start |-> n_1st_sect]
                     [] n = TTY_INODE  -> [i_mode |-> "char", i_start |-> 0]
                     [] OTHER          -> NoInode]
    /\ imap = {ROOT_INODE, TTY_INODE}
    /\ smap = 0 .. NR_DEFAULT_FILE_SECTS
    /\ logged = FALSE
    /\ dir = [i \in Entry |->
                CASE i = 1 -> [inode_nr |-> ROOT_INODE, name |-> "."]
                  [] i = 2 -> [inode_nr |-> TTY_INODE, name |-> "dev_tty0"]
                  [] OTHER -> NoEntry]
    /\ i_size = 2
    /\ writes = 0 /\ cut = FALSE
    /\ halted = "no"

-----------------------------------------------------------------------------
(* The panics and the failed asserts: print, and stop the machine. *)
Halt(place) == halted' = place

Calling(p) ==
    /\ halted = "no"
    /\ p \in alive
    /\ ~(fork # <<>> /\ p = fork[1])

(* The inode of a path, or 0.  The scan looks one entry past the last. *)
search_file(path) ==
    LET hits == {i \in Entry : i <= i_size + 1 /\ dir[i].name = path}
    IN  CASE path = "/"  -> ROOT_INODE
          [] hits # {} /\ path # "/" -> dir[Min(hits)].inode_nr
          [] OTHER       -> 0

Cached(n) == {s \in Slot : inode_table[s].i_cnt > 0 /\ inode_table[s].i_num = n}
FreeSlots == {s \in Slot : inode_table[s].i_cnt = 0}

(* The slot that get_inode(n) returns, or 0 if it panics. *)
SlotOf(n) ==
    CASE Cached(n) # {}                    -> Min(Cached(n))
      [] Cached(n) = {} /\ FreeSlots # {}  -> Min(FreeSlots)
      [] OTHER                             -> 0

(* inode_table after get_inode(n) *)
get_inode(n) ==
    LET s == SlotOf(n)
        inode == inode_table[s]
    IN  [inode_table EXCEPT ![s] =
            IF inode.i_cnt > 0
            THEN [inode EXCEPT !.i_cnt = inode.i_cnt + 1]
            ELSE [i_num |-> n, i_cnt |-> 1,
                  i_mode |-> dinode[n].i_mode, i_start |-> dinode[n].i_start]]

FreeFds(p) == {f \in Fd : filp[p][f] = 0}
FreeDescs == {d \in Desc : f_desc_table[d].fd_inode = 0}

(* do_open without a free filp entry or a free descriptor. *)
OpenPanics(p) ==
    /\ Calling(p)
    /\ \/ FreeFds(p) = {} /\ Halt("open.c:44")
       \/ FreeFds(p) # {} /\ FreeDescs = {} /\ Halt("open.c:52")
    /\ UNCHANGED <<alive, fork, filp, f_desc_table, opened, inode_table, diskVars>>

(* The end of do_open: a descriptor for the inode n in slot s. *)
OpenDesc(p, s, n) ==
    LET d == Min(FreeDescs)
    IN  /\ filp' = [filp EXCEPT ![p][Min(FreeFds(p))] = d]
        /\ f_desc_table' = [f_desc_table EXCEPT ![d] = [fd_inode |-> s, fd_cnt |-> 1]]
        /\ opened' = [opened EXCEPT ![d] = n]

(* do_open of an existing file, without O_CREAT.  An entry that a process  *)
(* wrote may lead to an inode that is not in use.                          *)
Open(p, path) ==
    LET n == search_file(path)
    IN  /\ Calling(p)
        /\ FreeFds(p) # {} /\ FreeDescs # {}
        /\ n # 0
        /\ \/ /\ SlotOf(n) = 0
              /\ Halt("main.c:322")
              /\ UNCHANGED <<filp, f_desc_table, opened, inode_table>>
           \/ /\ SlotOf(n) # 0
              /\ inode_table' = get_inode(n)
              /\ OpenDesc(p, SlotOf(n), n)
              /\ IF get_inode(n)[SlotOf(n)].i_mode = "none" THEN Halt("open.c:105")
                                                            ELSE UNCHANGED halted
        /\ UNCHANGED <<alive, fork, diskVars>>

alloc_imap_bit == Min(Inode \ imap)

(* The bits that alloc_smap_bit sets: from the first 0 bit on. *)
AllocBits ==
    LET first == Min(Bit \ smap) IN first .. first + NR_DEFAULT_FILE_SECTS - 1

(* Where alloc_smap_bit stops the machine: a bit behind the first 0 bit is  *)
(* 1 already, or the map ends too early.                                    *)
AllocFails ==
    CASE Bit \subseteq smap                            -> "open.c:225"
      [] ~(Bit \subseteq smap) /\ AllocBits \cap smap # {} -> "open.c:211"
      [] ~(Bit \subseteq smap) /\ AllocBits \cap smap = {} ->
            IF AllocBits \subseteq Bit THEN "no" ELSE "open.c:225"

(* The sector that stands for a bit, and the bits of a file's sectors. *)
alloc_smap_bit == Min(AllocBits) - 1 + n_1st_sect
BitsOf(start) == start - n_1st_sect + 1 .. start - n_1st_sect + NR_DEFAULT_FILE_SECTS

(* Mutant: new_inode without sync_inode. *)
SyncNew_Missing(n, inode) == UNCHANGED dinode

SyncNew(n, inode) == dinode' = [dinode EXCEPT ![n] = inode]

(* Slot s of the table t holds the new file n. *)
new_inode(t, s, n, inode) ==
    /\ inode_table' = [t EXCEPT ![s] = [i_num |-> n, i_cnt |-> 1,
                          i_mode |-> inode.i_mode, i_start |-> inode.i_start]]
    /\ SyncNew(n, inode)

Holes == {i \in Entry : i <= i_size /\ dir[i].inode_nr = 0}

(* The first empty entry, or a new one at the end. *)
new_dir_entry(n, path) ==
    LET i == IF Holes = {} THEN i_size + 1 ELSE Min(Holes)
    IN  /\ dir' = [dir EXCEPT ![i] = [inode_nr |-> n, name |-> path]]
        /\ i_size' = IF Holes = {} THEN i_size + 1 ELSE i_size
        /\ UNCHANGED <<writes, cut>>

(* do_open with O_CREAT of a file that does not exist: create_file.  Both  *)
(* maps are on the disk before the cache turns out to be full.  Bound: no  *)
(* directory that processes have filled to its last sector.                *)
Create(p, path) ==
    LET n == alloc_imap_bit
        inode == [i_mode |-> "regular", i_start |-> alloc_smap_bit]
    IN  /\ Calling(p)
        /\ FreeFds(p) # {} /\ FreeDescs # {}
        /\ path \in Names
        /\ search_file(path) = 0
        /\ Inode \ imap # {}
        /\ writes > 0 => Holes # {} \/ i_size < NR_ENTRIES
        /\ imap' = imap \cup {n}
        /\ \/ /\ AllocFails # "no"
              /\ Halt(AllocFails)
              /\ UNCHANGED <<filp, f_desc_table, opened, inode_table, smap, dinode, dirVars>>
           \/ /\ AllocFails = "no"
              /\ smap' = smap \cup AllocBits
              /\ \/ /\ SlotOf(n) = 0
                    /\ Halt("main.c:322")
                    /\ UNCHANGED <<filp, f_desc_table, opened, inode_table, dinode, dirVars>>
                 \/ /\ SlotOf(n) # 0
                    /\ new_inode(get_inode(n), SlotOf(n), n, inode)
                    /\ new_dir_entry(n, path)
                    /\ OpenDesc(p, SlotOf(n), n)
                    /\ UNCHANGED halted
        /\ UNCHANGED <<alive, fork, logged>>

(* f_desc_table without one use of d. *)
DropDesc(d) ==
    [f_desc_table EXCEPT ![d] =
        [fd_inode |-> IF @.fd_cnt = 1 THEN 0 ELSE @.fd_inode, fd_cnt |-> @.fd_cnt - 1]]

(* do_close of an open file. *)
Close(p, f) ==
    LET d == filp[p][f]
        s == f_desc_table[d].fd_inode
    IN  /\ Calling(p)
        /\ d # 0
        /\ \/ /\ inode_table[s].i_cnt = 0
              /\ Halt("main.c:350")
              /\ UNCHANGED <<filp, f_desc_table, opened, inode_table>>
           \/ /\ inode_table[s].i_cnt > 0
              /\ inode_table' = [inode_table EXCEPT ![s].i_cnt = @ - 1]
              /\ f_desc_table' = DropDesc(d)
              /\ opened' = [opened EXCEPT ![d] = IF f_desc_table[d].fd_cnt = 1 THEN 0 ELSE @]
              /\ filp' = [filp EXCEPT ![p][f] = 0]
              /\ UNCHANGED halted
        /\ UNCHANGED <<alive, fork, diskVars>>

(***************************************************************************)
(* disklog: when it is called first, it marks the log's sectors in the     *)
(* sector map, which do_unlink has left as map.                            *)
(***************************************************************************)
disklog(map) ==
    LET bits == nr_sects - NR_DEFAULT_FILE_SECTS .. nr_sects - 1
    IN  IF ~logged /\ bits \cap map # {}
        THEN /\ Halt("disklog.c:52")
             /\ smap' = map
             /\ UNCHANGED logged
        ELSE /\ smap' = IF logged THEN map ELSE map \cup bits
             /\ logged' = TRUE
             /\ UNCHANGED halted

(* dump_fd_graph, which task_fs calls after an UNLINK: the tables as text,  *)
(* a call of disklog for each line.                                         *)
dump_fd_graph(map) == disklog(map)

MayRemove(inode) == inode.i_mode = "regular" /\ inode.i_cnt <= 1

(* do_unlink of the root, or of a file that is not there. *)
UnlinkNothing(p, path) ==
    /\ Calling(p)
    /\ path = "/" \/ search_file(path) = 0
    /\ dump_fd_graph(smap)
    /\ UNCHANGED <<alive, fork, filp, f_desc_table, opened, inode_table, dinode, imap, dirVars>>

(* do_unlink of a device, a directory or a file in use.  It returns        *)
(* without put_inode: the count that get_inode raised stays.               *)
UnlinkRefused(p, path) ==
    LET n == search_file(path)
        s == SlotOf(n)
    IN  /\ Calling(p)
        /\ path # "/" /\ n # 0
        /\ \/ /\ s = 0
              /\ Halt("main.c:322")
              /\ UNCHANGED <<inode_table, smap, logged>>
           \/ /\ s # 0
              /\ ~MayRemove(get_inode(n)[s])
              /\ get_inode(n)[s].i_cnt <= MaxCnt
              /\ inode_table' = get_inode(n)
              /\ dump_fd_graph(smap)
        /\ UNCHANGED <<alive, fork, filp, f_desc_table, opened, dinode, imap, dirVars>>

(* The entry of an inode, as do_unlink looks for it. *)
EntriesOf(n) == {i \in Entry : i <= i_size /\ dir[i].inode_nr = n}

(* Mutant: the entry stays. *)
DropEntry_Kept(m) == UNCHANGED dirVars

(* The entry m is cleared.  If it was the last one, i_size becomes the      *)
(* number of used entries before it.                                        *)
DropEntry(m) ==
    /\ dir' = [dir EXCEPT ![m] = NoEntry]
    /\ i_size' = IF m = i_size
                 THEN Cardinality({i \in Entry : i < m /\ dir[i].inode_nr # 0})
                 ELSE i_size
    /\ cut' = (cut \/ \E i \in Entry : i > i_size' /\ dir'[i].inode_nr # 0)
    /\ UNCHANGED writes

(* Mutant: the sectors are not released. *)
FreeExtent_Leak(inode) == smap

(* The sector map without the sectors of the file. *)
FreeExtent(inode) == smap \ BitsOf(inode.i_start)

(* do_unlink of a file that nobody uses: both maps, the inode, the entry. *)
Unlink(p, path) ==
    LET n == search_file(path)
        s == SlotOf(n)
        pin == get_inode(n)[s]
    IN  /\ Calling(p)
        /\ path # "/" /\ n # 0 /\ s # 0
        /\ MayRemove(pin)
        /\ IF ~(n \in imap /\ BitsOf(pin.i_start) \subseteq smap)
           THEN /\ Halt("link.c:58")
                /\ inode_table' = get_inode(n)
                /\ UNCHANGED diskVars
           ELSE /\ imap' = imap \ {n}
                /\ dinode' = [dinode EXCEPT ![n] = NoInode]
                /\ inode_table' = [get_inode(n) EXCEPT ![s] =
                      [i_num |-> n, i_cnt |-> pin.i_cnt - 1, i_mode |-> "none", i_start |-> 0]]
                /\ \/ /\ EntriesOf(n) = {}
                      /\ Halt("link.c:134")
                      /\ smap' = FreeExtent(pin)
                      /\ UNCHANGED <<dirVars, logged>>
                   \/ /\ EntriesOf(n) # {}
                      /\ DropEntry(Min(EntriesOf(n)))
                      /\ dump_fd_graph(FreeExtent(pin))
        /\ UNCHANGED <<alive, fork, filp, f_desc_table, opened>>

(* do_rdwt of the root directory. *)
IsDirectory(p, f) ==
    /\ filp[p][f] # 0
    /\ inode_table[f_desc_table[filp[p][f]].fd_inode].i_mode = "dir"

(* A read that passes the end moves the end. *)
ReadDirectory(p, f) ==
    /\ Calling(p) /\ IsDirectory(p, f)
    /\ i_size' \in i_size + 1 .. NR_ENTRIES
    /\ UNCHANGED <<alive, fork, filp, f_desc_table, opened, inode_table, dinode, imap, smap,
                   logged, dir, writes, cut, halted>>

WriteDirectory(p, f) ==
    /\ Calling(p) /\ IsDirectory(p, f)
    /\ writes < MaxWrites
    /\ writes' = writes + 1
    /\ \E w \in Scribbles :
          /\ dir' = [dir EXCEPT ![w.at] = [inode_nr |-> w.inode_nr, name |-> w.name]]
          /\ i_size' = IF w.at > i_size THEN w.at ELSE i_size
    /\ UNCHANGED <<alive, fork, filp, f_desc_table, opened, inode_table, dinode, imap, smap,
                   logged, cut, halted>>

-----------------------------------------------------------------------------
(* do_fork in task_mm: the first free entry becomes a copy of the caller's. *)
ForkCopies(p) ==
    LET free == Proc \ alive
    IN  /\ Calling(p)
        /\ fork = <<>>
        /\ free # {}
        /\ fork' = <<p, Min(free)>>
        /\ filp' = [filp EXCEPT ![Min(free)] = filp[p]]
        /\ UNCHANGED <<alive, f_desc_table, opened, inode_table, diskVars, halted>>

Uses(p, d) == Cardinality({f \in Fd : filp[p][f] = d})
UsesOfSlot(p, s) ==
    Cardinality({f \in Fd : filp[p][f] # 0 /\ f_desc_table[filp[p][f]].fd_inode = s})

(* Mutant: the descriptors are not counted. *)
ShareDescs_Missing(c) == f_desc_table

ShareDescs(c) ==
    [d \in Desc |-> [f_desc_table[d] EXCEPT !.fd_cnt = @ + Uses(c, d)]]

(* Mutant: the inodes are not counted. *)
ShareInodes_Missing(c) == inode_table

ShareInodes(c) ==
    [s \in Slot |-> [inode_table[s] EXCEPT !.i_cnt = @ + UsesOfSlot(c, s)]]

(* fs_fork, after which task_mm wakes child and parent. *)
FsFork ==
    /\ halted = "no"
    /\ fork # <<>>
    /\ f_desc_table' = ShareDescs(fork[2])
    /\ inode_table' = ShareInodes(fork[2])
    /\ alive' = alive \cup {fork[2]}
    /\ fork' = <<>>
    /\ UNCHANGED <<filp, opened, diskVars, halted>>

Next ==
    \/ FsFork
    \/ \E p \in Proc :
          \/ OpenPanics(p) \/ ForkCopies(p)
          \/ \E f \in Fd : Close(p, f) \/ ReadDirectory(p, f) \/ WriteDirectory(p, f)
          \/ \E path \in Path :
                Open(p, path) \/ Create(p, path)
                \/ UnlinkNothing(p, path) \/ UnlinkRefused(p, path) \/ Unlink(p, path)

Spec == Init /\ [][Next]_vars

-----------------------------------------------------------------------------
Users(d) == {u \in alive \X Fd : filp[u[1]][u[2]] = d}
Live(d) == f_desc_table[d].fd_inode # 0
DescsOf(s) == {d \in Desc : f_desc_table[d].fd_inode = s}
Total(cnt, S) == MapThenSumSet(LAMBDA d : cnt[d], S)
UsersOf(s) == Total([d \in Desc |-> f_desc_table[d].fd_cnt], DescsOf(s))

(***************************************************************************)
(* fd_cnt is the number of processes' files that use a descriptor (the     *)
(* comment at fs.h:63), through every order of fork, open and close, so    *)
(* close frees a descriptor exactly when the last user is gone.  A process *)
(* that fork has copied but task_fs has not yet counted does not run.      *)
(***************************************************************************)
FdCountExact ==
    \A d \in Desc : /\ f_desc_table[d].fd_cnt = Cardinality(Users(d))
                    /\ Live(d) <=> f_desc_table[d].fd_cnt > 0

(***************************************************************************)
(* What a process has open stays: every descriptor in a filp, also in one  *)
(* that fork has just copied, is in use, its slot still holds the inode it *)
(* was opened for, that inode is allocated, and its i_cnt covers all users *)
(* (so do_unlink refuses it and get_inode does not recycle the slot),      *)
(* whatever processes write into the directory.                            *)
(***************************************************************************)
OpenFileStays ==
    halted = "no" =>
    /\ \A p \in Proc, f \in Fd : filp[p][f] # 0 => Live(filp[p][f])
    /\ \A d \in Desc : Live(d) =>
          LET inode == inode_table[f_desc_table[d].fd_inode]
          IN  /\ inode.i_num = opened[d]
              /\ inode.i_mode # "none"
              /\ inode.i_num \in imap
              /\ inode.i_cnt >= UsersOf(f_desc_table[d].fd_inode)

(***************************************************************************)
(* No inode is cached twice, and what is cached is what the disk has:      *)
(* otherwise two openers of a file would see two sizes and two extents.    *)
(***************************************************************************)
CacheCoherent ==
    halted = "no" =>
    \A s \in Slot : inode_table[s].i_cnt > 0 =>
        LET inode == inode_table[s]
        IN  /\ Cached(inode.i_num) = {s}
            /\ dinode[inode.i_num] = [i_mode |-> inode.i_mode, i_start |-> inode.i_start]

Regular == {n \in Inode : dinode[n].i_mode = "regular"}

(***************************************************************************)
(* The two maps say what the inodes say: an inode number is allocated iff  *)
(* the inode is in use; a bit of the sector map is 1 iff it belongs to the *)
(* root directory, to the log or to a file, and to one of them only,       *)
(* whatever was created, removed and logged before.                        *)
(***************************************************************************)
MapsAgree ==
    halted = "no" =>
    LET log == IF logged THEN nr_sects - NR_DEFAULT_FILE_SECTS .. nr_sects - 1 ELSE {}
        files == {BitsOf(dinode[n].i_start) : n \in Regular}
    IN  /\ imap = {n \in Inode : dinode[n].i_mode # "none"}
        /\ smap = (0 .. NR_DEFAULT_FILE_SECTS) \cup log \cup UNION files
        /\ Cardinality(smap) = 1 + NR_DEFAULT_FILE_SECTS *
                (1 + Cardinality(Regular) + (IF logged THEN 1 ELSE 0))

(***************************************************************************)
(* As long as no process writes into the directory itself: no entry        *)
(* dangles, and no inode has two entries, so that a name never comes to    *)
(* mean a file that was created later under another name; and until        *)
(* do_unlink takes i_size from the used entries before the last one        *)
(* although there are holes (link.c:128-137), every file, the tty and the  *)
(* directory have an entry below i_size, where do_unlink finds it.         *)
(***************************************************************************)
EntriesMeanFiles ==
    halted = "no" /\ writes = 0 =>
    /\ \A i \in Entry : dir[i].inode_nr # 0 =>
          /\ dir[i].inode_nr \in imap
          /\ \A j \in Entry : dir[j].inode_nr = dir[i].inode_nr => i = j
    /\ ~ cut => imap \subseteq {dir[i].inode_nr : i \in 1 .. i_size}
=============================================================================
