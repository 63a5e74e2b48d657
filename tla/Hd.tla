--------------------------------- MODULE Hd ---------------------------------
(***************************************************************************)
(* The hard disk driver, kernel/hd.c: task_hd serves the requests of       *)
(* task_fs with commands to the controller, and waits in interrupt_wait    *)
(* for the interrupt of each sector; hd_handler passes the interrupts on   *)
(* with inform_int, which remembers one that comes too early.  Of          *)
(* msg_receive the statements are kept that an interrupt can come between: *)
(* the test of has_int_msg, the marking of the process as RECEIVING, and   *)
(* the assertions behind block.                                            *)
(*                                                                         *)
(* The controller is external: a disk in PIO mode, as the driver uses it.  *)
(* It interrupts when a sector can be read and when one has been written.  *)
(* Of what the sectors hold only the partition tables are kept.  A disk is *)
(* external too: its layout, and the tables that describe the layout.      *)
(***************************************************************************)
EXTENDS Integers, Sequences, FiniteSetsExt

CONSTANTS Sectors,    \* lengths, in sectors, of the reads and writes of task_fs
          Positions,  \* their positions in the root device, in sectors
          Layouts,    \* the layouts of disks
          DiskSize,   \* what the controller tells of the disk
          NR_PART_PER_DRIVE, NR_SUB_PER_PART,
          U8          \* numbers in a u8: 256

NR_SUB_PER_DRIVE == NR_PART_PER_DRIVE * NR_SUB_PER_PART
MAX_PRIM == 2 * (NR_PART_PER_DRIVE + 1) - 1
MINOR_hd1a == 16

(* MINOR(ROOT_DEV), the only device that task_fs keeps files on: hd2a. *)
RootMinor == MINOR_hd1a + NR_SUB_PER_PART

NO_PART == [sys_id |-> "NO_PART", start |-> 0, size |-> 0]
NoPartition == [base |-> 0, size |-> 0]

(* A primary partition; an extended one has logical partitions, each with   *)
(* the place of its table, and of itself behind the table.                  *)
Primary == [sys_id : {"NO_PART", "ORANGES_PART", "EXT_PART"}, start : Nat,
            size : Nat, subs : Seq([ebr : Nat, start : Nat, size : Nat])]

(* The sector of the i-th table in the extended partition p of a layout. *)
TableAt(l, p, i) == l[p].start + l[p].subs[i].ebr

ASSUME HdAssumption ==
    /\ Sectors \subseteq Nat \ {0} /\ Positions \subseteq Nat
    /\ NR_PART_PER_DRIVE \in Nat \ {0, 1} /\ NR_SUB_PER_PART \in Nat \ {0}
    /\ Layouts \subseteq [1 .. NR_PART_PER_DRIVE -> Primary]
    /\ \A l \in Layouts : \A p \in DOMAIN l :
          l[p].sys_id = "EXT_PART" => l[p].subs # <<>> /\ l[p].subs[1].ebr = 0
    /\ \A l \in Layouts : \A p, q \in DOMAIN l : \* no two tables in one sector
          l[p].sys_id = "EXT_PART" /\ l[q].sys_id = "EXT_PART" =>
              \A i \in DOMAIN l[p].subs, j \in DOMAIN l[q].subs :
                  TableAt(l, p, i) = TableAt(l, q, j) => p = q /\ i = j
    /\ MAX_PRIM <= MINOR_hd1a \* the minor numbers of const.h do not overlap
    /\ DiskSize \in Nat /\ U8 \in Nat \ {0}

VARIABLES
    layout,       \* of the disk in the machine
    req,          \* the request that task_fs waits for, or NoRequest
    pc,           \* the next statement of task_hd
    job,          \* the command that the driver makes
    walk,         \* partition(): the extended partitions to walk, and s, i in it
    bytes_left,   \* of the command, in sectors
    open_cnt, primary, logical,  \* hd_info
    geo,          \* what DIOCTL_GET_GEO has told task_fs
    has_int_msg,  \* an interrupt came while task_hd did not wait for one
    irq,          \* the controller's interrupt line
    device,       \* the controller: its command, sectors to go, and status
    halted
info == <<open_cnt, primary, logical>>
vars == <<layout, req, pc, job, walk, bytes_left, info, geo, has_int_msg, irq,
          device, halted>>

NoRequest == [type |-> "none", pos |-> 0, sects |-> 0]
Request == {[type |-> t, pos |-> 0, sects |-> 0] : t \in {"DEV_OPEN", "DEV_IOCTL"}}
           \cup [type : {"DEV_READ", "DEV_WRITE"}, pos : Positions, sects : Sectors]

PartInfo == [base : Nat, size : Nat]

Points == {"receive", "done", "command", "sector", "written", "sleeping",
           "receiving", "woken", "asleep", "data", "spin", "answer"}

(* The ways to stop the machine: panic, and the assertions that can fail. *)
Halts == {"hd error", "hd writing error", "no partition",
          "proc.c:131", "proc.c:338", "proc.c:342"}

TypeOK ==
    /\ layout \in Layouts
    /\ req \in Request \cup {NoRequest}
    /\ pc \in Points
    /\ job \in [for : {"identify", "primary", "extended", "rdwt"},
                cmd : {"READ", "WRITE"}, lba : Nat, sects : Sectors \cup {1}]
    /\ walk \in [exts : SUBSET (1 .. NR_PART_PER_DRIVE), s : Nat, i : Nat]
    /\ bytes_left \in Nat
    /\ open_cnt \in Nat
    /\ primary \in [0 .. NR_PART_PER_DRIVE -> PartInfo]
    /\ logical \in [0 .. NR_SUB_PER_DRIVE - 1 -> PartInfo]
    /\ geo \in PartInfo
    /\ has_int_msg \in BOOLEAN /\ irq \in BOOLEAN
    /\ device \in [cmd : {"READ", "WRITE"}, lba : Nat, todo : Nat,
                   status : {"idle", "prepare", "busy", "drq"}]
    /\ halted \in Halts \cup {"no"}

Init ==
    /\ layout \in Layouts
    /\ req = NoRequest
    /\ pc = "receive"
    /\ job = [for |-> "rdwt", cmd |-> "READ", lba |-> 0, sects |-> 1]
    /\ walk = [exts |-> {}, s |-> 0, i |-> 0]
    /\ bytes_left = 0
    /\ open_cnt = 0
    /\ primary = [p \in 0 .. NR_PART_PER_DRIVE |-> NoPartition]
    /\ logical = [l \in 0 .. NR_SUB_PER_DRIVE - 1 |-> NoPartition]
    /\ geo = NoPartition
    /\ has_int_msg = FALSE /\ irq = FALSE
    /\ device = [cmd |-> "READ", lba |-> 0, todo |-> 0, status |-> "idle"]
    /\ halted = "no"

-----------------------------------------------------------------------------
(* The tables on the disk *)

(* The entries of the table in sector 0. *)
BootTable(p) == layout[p]

(* The two entries of a table in an extended partition: the logical         *)
(* partition, from the table on, and the next table, from the start of the  *)
(* extended partition on.  Elsewhere on the disk there is no table.         *)
Described(p, i) ==
    LET subs == layout[p].subs
    IN  <<[sys_id |-> "ORANGES_PART", start |-> subs[i].start, size |-> subs[i].size],
          IF i = Len(subs) THEN NO_PART
          ELSE [sys_id |-> "EXT_PART", start |-> subs[i + 1].ebr,
                size |-> subs[i + 1].size]>>

ExtendedTable(lba) ==
    LET tables == UNION {{<<p, i>> : i \in DOMAIN layout[p].subs} :
                         p \in {p \in DOMAIN layout : layout[p].sys_id = "EXT_PART"}}
        here == {t \in tables : TableAt(layout, t[1], t[2]) = lba}
    IN  IF here = {} THEN <<NO_PART, NO_PART>>
        ELSE LET t == CHOOSE t \in here : TRUE IN Described(t[1], t[2])

-----------------------------------------------------------------------------
(* task_fs, BOTH to the driver: init_fs opens the disk, mkfs asks for its   *)
(* size, rw_sector reads and writes.  Nobody sends DEV_CLOSE.               *)
FsRequest(r) ==
    /\ halted = "no"
    /\ req = NoRequest
    /\ r.type = "DEV_OPEN" <=> open_cnt = 0
    /\ req' = r
    /\ UNCHANGED <<layout, pc, job, walk, bytes_left, info, geo, has_int_msg, irq,
                   device, halted>>

At(a) == halted = "no" /\ pc = a

Command(for, cmd, lba, sects) ==
    /\ job' = [for |-> for, cmd |-> cmd, lba |-> lba, sects |-> sects]
    /\ pc' = "command"

(* The controller sends what it is asked for as one sector. *)
hd_identify == Command("identify", "READ", 0, 1)
get_part_table(for, lba) == Command(for, "READ", lba, 1)

(* Mutant: the index of a logical partition is not brought into the table. *)
PartOf_NoOffset(dev) ==
    IF dev < MAX_PRIM THEN primary[dev] ELSE logical[(dev - MINOR_hd1a) % NR_SUB_PER_PART]

(* The partition of a minor device number. *)
PartOf(dev) ==
    IF dev < MAX_PRIM THEN primary[dev] ELSE logical[(dev - MINOR_hd1a) % NR_SUB_PER_DRIVE]

(* What task_hd does first for the request. *)
Serve ==
    \/ /\ req.type = "DEV_OPEN"
       /\ hd_identify
       /\ UNCHANGED geo
    \/ /\ req.type = "DEV_IOCTL"
       /\ geo' = PartOf(RootMinor)
       /\ pc' = "answer"
       /\ UNCHANGED job
    \/ /\ req.type \in {"DEV_READ", "DEV_WRITE"}
       /\ Command("rdwt", IF req.type = "DEV_READ" THEN "READ" ELSE "WRITE",
                  req.pos + PartOf(RootMinor).base, req.sects)
       /\ UNCHANGED geo

(* RECEIVE from ANY.  An interrupt is not a request: the driver spins. *)
HdReceive ==
    /\ At("receive")
    /\ IF has_int_msg THEN pc' = "spin" /\ UNCHANGED <<job, geo>> ELSE Serve
    /\ has_int_msg' = FALSE
    /\ UNCHANGED <<layout, req, walk, bytes_left, info, irq, device, halted>>

(* What hd_identify and hd_open do with the answer of the controller. *)
HdIdentified ==
    /\ At("done")
    /\ job.for = "identify"
    /\ primary' = [primary EXCEPT ![0] = [base |-> 0, size |-> DiskSize]]
    /\ open_cnt' = open_cnt + 1
    /\ IF open_cnt = 0 THEN get_part_table("primary", 0)
                       ELSE pc' = "answer" /\ UNCHANGED job
    /\ UNCHANGED <<layout, req, walk, bytes_left, logical, geo, has_int_msg, irq,
                   device, halted>>

(* Go on with the extended partitions, the first one first. *)
WalkExtended(exts) ==
    IF exts = {}
    THEN /\ pc' = "answer"
         /\ walk' = [exts |-> {}, s |-> 0, i |-> 0]
         /\ UNCHANGED job
    ELSE /\ walk' = [exts |-> exts, s |-> primary'[Min(exts)].base, i |-> 0]
         /\ get_part_table("extended", primary'[Min(exts)].base)

(***************************************************************************)
(* partition(device, P_PRIMARY).  The walk of an extended partition comes  *)
(* between two turns of its loop, and reads nothing of the later turns.    *)
(***************************************************************************)
HdPrimaryRead ==
    LET used == {p \in 1 .. NR_PART_PER_DRIVE : BootTable(p).sys_id # "NO_PART"}
    IN  /\ At("done")
        /\ job.for = "primary"
        /\ primary' = [p \in DOMAIN primary |->
              IF p \notin used THEN primary[p]
              ELSE [base |-> BootTable(p).start, size |-> BootTable(p).size]]
        /\ IF used = {}
           THEN halted' = "no partition" /\ UNCHANGED <<pc, job, walk>>
           ELSE /\ WalkExtended({p \in used : BootTable(p).sys_id = "EXT_PART"})
                /\ UNCHANGED halted
        /\ UNCHANGED <<layout, req, bytes_left, open_cnt, logical, geo, has_int_msg,
                       irq, device>>

(* Mutant: the next table is looked for behind this one. *)
NextTable_Relative(start, s, entry) == s + entry.start

(* Where the entry of a table says that the next table is. *)
NextTable(start, s, entry) == start + entry.start

(* A turn of partition(device, P_EXTENDED). *)
HdExtendedRead ==
    LET j == Min(walk.exts)
        part_tbl == ExtendedTable(walk.s)
        s == NextTable(primary[j].base, walk.s, part_tbl[2])
    IN  /\ At("done")
        /\ job.for = "extended"
        /\ logical' = [logical EXCEPT ![(j - 1) * NR_SUB_PER_PART + walk.i] =
              [base |-> walk.s + part_tbl[1].start, size |-> part_tbl[1].size]]
        /\ UNCHANGED primary
        /\ IF part_tbl[2].sys_id = "NO_PART" \/ walk.i + 1 = NR_SUB_PER_PART
           THEN WalkExtended(walk.exts \ {j})
           ELSE /\ walk' = [exts |-> walk.exts, s |-> s, i |-> walk.i + 1]
                /\ get_part_table("extended", s)
        /\ UNCHANGED <<layout, req, bytes_left, open_cnt, geo, has_int_msg, irq,
                       device, halted>>

HdTransferred ==
    /\ At("done")
    /\ job.for = "rdwt"
    /\ pc' = "answer"
    /\ UNCHANGED <<layout, req, job, walk, bytes_left, info, geo, has_int_msg, irq,
                   device, halted>>

HdAnswer ==
    /\ At("answer")
    /\ req' = NoRequest
    /\ pc' = "receive"
    /\ UNCHANGED <<layout, job, walk, bytes_left, info, geo, has_int_msg, irq, device,
                   halted>>

(* Mutant: one sector less. *)
count_Less(n) == (n - 1) % U8

(* cmd.count is a u8. *)
count(n) == n % U8

(* What the controller makes of the count: 0 stands for all of U8. *)
CountOf(c) == IF c = 0 THEN U8 ELSE c

Busy == device.status \in {"prepare", "busy"}

(* hd_cmd_out *)
HdCommand ==
    /\ At("command")
    /\ ~Busy
    /\ device' = [cmd |-> job.cmd, lba |-> job.lba, todo |-> CountOf(count(job.sects)),
                  status |-> IF job.cmd = "READ" THEN "busy" ELSE "prepare"]
    /\ bytes_left' = job.sects
    /\ pc' = "sector"
    /\ UNCHANGED <<layout, req, job, walk, info, geo, has_int_msg, irq, halted>>

(* interrupt_wait: the interrupt may be there already.  One that comes      *)
(* later is not looked for again.                                           *)
interrupt_wait ==
    /\ pc' = IF has_int_msg THEN "data" ELSE "sleeping"
    /\ has_int_msg' = FALSE

(* Mutant: a sector is read without waiting. *)
HdReadWait_Missing ==
    /\ At("sector")
    /\ device.cmd = "READ"
    /\ pc' = "data"
    /\ UNCHANGED <<layout, req, job, walk, bytes_left, info, geo, has_int_msg, irq, device, halted>>

HdReadWait ==
    /\ At("sector")
    /\ device.cmd = "READ"
    /\ interrupt_wait
    /\ UNCHANGED <<layout, req, job, walk, bytes_left, info, geo, irq, device, halted>>

(***************************************************************************)
(* The rest of msg_receive: task_hd is marked as RECEIVING from INTERRUPT  *)
(* and calls block.  If it is woken before the assertion of block or the   *)
(* ones behind block, these stop the machine, and so does the last one if  *)
(* an interrupt has left a mark.                                           *)
(***************************************************************************)
FallAsleep ==
    /\ \/ At("sleeping") /\ pc' = "receiving" /\ UNCHANGED halted
       \/ At("receiving") /\ ~has_int_msg /\ pc' = "asleep" /\ UNCHANGED halted
       \/ At("receiving") /\ has_int_msg /\ halted' = "proc.c:342" /\ UNCHANGED pc
       \/ At("woken") /\ halted' \in {"proc.c:131", "proc.c:338"} /\ UNCHANGED pc
    /\ UNCHANGED <<layout, req, job, walk, bytes_left, info, geo, has_int_msg, irq, device>>

Less(n) == n - 1

(* The end of a turn of the loop. *)
Turn ==
    /\ bytes_left' = Less(bytes_left)
    /\ pc' = IF bytes_left' = 0 THEN "done" ELSE "sector"

(* The controller has done a sector; the next one, if any, is in status s. *)
SectorDone(s) ==
    [cmd |-> device.cmd, lba |-> device.lba, todo |-> device.todo - 1,
     status |-> IF device.todo = 1 THEN "idle" ELSE s]

(* port_read takes the sector; the controller goes on to the next one. *)
HdPortRead ==
    /\ At("data")
    /\ device.cmd = "READ"
    /\ device' = IF device.status # "drq" THEN device ELSE SectorDone("busy")
    /\ Turn
    /\ UNCHANGED <<layout, req, job, walk, info, geo, has_int_msg, irq, halted>>

(* waitfor(STATUS_DRQ), port_write *)
HdPortWrite ==
    /\ At("sector")
    /\ device.cmd = "WRITE"
    /\ device.status = "drq"
    /\ device' = [device EXCEPT !.status = "busy"]
    /\ pc' = "written"
    /\ UNCHANGED <<layout, req, job, walk, bytes_left, info, geo, has_int_msg, irq, halted>>

(* Mutant: the driver goes on before the sector is written. *)
HdWriteWait_Missing ==
    /\ At("written")
    /\ pc' = "data"
    /\ UNCHANGED <<layout, req, job, walk, bytes_left, info, geo, has_int_msg, irq, device, halted>>

HdWriteWait ==
    /\ At("written")
    /\ interrupt_wait
    /\ UNCHANGED <<layout, req, job, walk, bytes_left, info, geo, irq, device, halted>>

HdWritten ==
    /\ At("data")
    /\ device.cmd = "WRITE"
    /\ Turn
    /\ UNCHANGED <<layout, req, job, walk, info, geo, has_int_msg, irq, device, halted>>

(* waitfor gives up after HD_TIMEOUT, and the driver panics. *)
HdTimeout ==
    /\ \/ At("command") /\ Busy /\ halted' = "hd error"
       \/ /\ At("sector") /\ device.cmd = "WRITE" /\ device.status # "drq"
          /\ halted' = "hd writing error"
    /\ UNCHANGED <<layout, req, pc, job, walk, bytes_left, info, geo, has_int_msg, irq, device>>

(* hd_handler reads the status, which ends the interrupt, and inform_int    *)
(* wakes the driver or leaves a mark.                                       *)
hd_handler ==
    /\ halted = "no"
    /\ irq
    /\ irq' = FALSE
    /\ has_int_msg' = (pc \notin {"receiving", "asleep"})
    /\ pc' = CASE pc = "asleep" -> "data" [] pc = "receiving" -> "woken" [] OTHER -> pc
    /\ UNCHANGED <<layout, req, job, walk, bytes_left, info, geo, device, halted>>

-----------------------------------------------------------------------------
(* The controller *)

(* The first sector of a write can be sent: no interrupt. *)
DevicePrepared ==
    /\ device.status = "prepare"
    /\ device' = [device EXCEPT !.status = "drq"]
    /\ UNCHANGED <<layout, req, pc, job, walk, bytes_left, info, geo, has_int_msg, irq, halted>>

(* A sector can be read, or has been written: an interrupt. *)
DeviceDone ==
    /\ device.status = "busy"
    /\ irq' = TRUE
    /\ device' =
         IF device.cmd = "READ" THEN [device EXCEPT !.status = "drq"] ELSE SectorDone("drq")
    /\ UNCHANGED <<layout, req, pc, job, walk, bytes_left, info, geo, has_int_msg, halted>>

TaskHd == \/ HdReceive \/ HdIdentified \/ HdPrimaryRead
          \/ HdExtendedRead \/ HdTransferred \/ HdAnswer \/ HdCommand
          \/ HdReadWait \/ HdPortRead \/ HdPortWrite \/ HdWriteWait
          \/ FallAsleep \/ HdWritten

Next ==
    \/ \E r \in Request : FsRequest(r)
    \/ TaskHd
    \/ HdTimeout
    \/ hd_handler
    \/ DevicePrepared \/ DeviceDone

(* task_hd runs, interrupts are taken, and the controller works. *)
Fairness ==
    /\ WF_vars(TaskHd)
    /\ WF_vars(hd_handler)
    /\ WF_vars(DevicePrepared \/ DeviceDone)

Spec == Init /\ [][Next]_vars /\ Fairness

-----------------------------------------------------------------------------
(***************************************************************************)
(* When the driver moves the data of a sector out of the controller, the   *)
(* controller has it: no interrupt of an earlier sector or command is      *)
(* taken for the one of this sector.                                       *)
(***************************************************************************)
DataReady == pc = "data" /\ device.cmd = "READ" => device.status = "drq"

(***************************************************************************)
(* A request leaves nothing behind: when the driver waits for the next one *)
(* the controller is idle and no interrupt is pending, which task_hd would *)
(* take for an unknown message and spin.                                   *)
(***************************************************************************)
IdleIsQuiet ==
    /\ pc = "receive" => device.status = "idle" /\ ~irq /\ ~has_int_msg
    /\ pc # "spin"

(***************************************************************************)
(* A read or write of the root device begins at its position in the first  *)
(* logical partition of the second primary one, and mkfs is told the size  *)
(* of that partition: device numbers, tables and commands agree.           *)
(***************************************************************************)
RightSector ==
    LET root == [base |-> layout[2].start + layout[2].subs[1].start,
                 size |-> layout[2].subs[1].size]
    IN  layout[2].sys_id = "EXT_PART" =>
          /\ pc = "answer" /\ req.type = "DEV_IOCTL" => geo = root
          /\ pc = "sector" /\ req.type \in {"DEV_READ", "DEV_WRITE"} =>
                device.lba = root.base + req.pos

(***************************************************************************)
(* After the disk is opened, hd_info has every logical partition up to the *)
(* NR_SUB_PER_PART it has room for, each where it is on the disk, and      *)
(* nothing in the places of the others.                                    *)
(***************************************************************************)
PartitionsFound ==
    open_cnt > 0 /\ pc = "receive" =>
        \A p \in 1 .. NR_PART_PER_DRIVE : \A i \in 1 .. NR_SUB_PER_PART :
            logical[(p - 1) * NR_SUB_PER_PART + i - 1] =
                IF layout[p].sys_id = "EXT_PART" /\ i \in DOMAIN layout[p].subs
                THEN [base |-> layout[p].start + layout[p].subs[i].ebr
                                 + layout[p].subs[i].start,
                      size |-> layout[p].subs[i].size]
                ELSE NoPartition

(***************************************************************************)
(* Driver and controller agree on the number of interrupts: every request  *)
(* is answered, unless the machine stops, because the controller was not   *)
(* ready in time, the disk has no partition, or an interrupt came after    *)
(* msg_receive had looked for it and before task_hd was asleep.            *)
(***************************************************************************)
RequestAnswered == req # NoRequest ~> req = NoRequest \/ halted # "no"
=============================================================================
