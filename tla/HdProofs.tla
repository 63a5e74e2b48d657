------------------------------ MODULE HdProofs ------------------------------
(***************************************************************************)
(* Proofs about Hd, for any disk, any positions and any tables of the      *)
(* driver: the partitions that hd_open finds, the sectors that it reads    *)
(* and writes, and, for requests whose number of sectors fits the          *)
(* controller's count, the protocol of driver, interrupts and controller.  *)
(***************************************************************************)
EXTENDS Hd, SetFacts, TLAPS

(* A request has no more sectors than the controller can count.  rw_sector  *)
(* keeps to it for its single sectors; do_rdwt does as long as it is asked  *)
(* for less.                                                                *)
CountFits == Sectors \subseteq 1 .. U8

-----------------------------------------------------------------------------
(***************************************************************************)
(* The protocol.  Between two commands controller and interrupts are       *)
(* quiet.  During a command the controller has as many sectors to go as    *)
(* the driver.  A read sector is announced by one interrupt, which is      *)
(* either at the handler or noted for the driver; a written one is the     *)
(* driver's turn again only after its interrupt.                           *)
(***************************************************************************)
NoInterrupt == ~irq /\ ~has_int_msg

Between == pc \in {"receive", "done", "command", "answer"}

(* After a sector was written: on to the next one, or the end.              *)
SectorWritten ==
    /\ device.todo = bytes_left - 1
    /\ device.status = IF device.todo = 0 THEN "idle" ELSE "drq"

(* The driver waits for the interrupt of its sector, or begins to.          *)
Waiting == pc \in {"sleeping", "receiving", "asleep"}

(* The interrupt of a sector is at the handler or noted; a driver that is   *)
(* asleep has seen that none was noted.                                     *)
OneInterrupt == (irq <=> ~has_int_msg) /\ (pc = "asleep" => irq)

(* A driver that was woken too early has had its interrupt as well; it goes *)
(* no further.                                                              *)
ReadTurn ==
    /\ bytes_left > 0 /\ device.todo = bytes_left
    /\ pc = "sector" \/ Waiting => \/ device.status = "busy" /\ NoInterrupt
                                   \/ device.status = "drq" /\ OneInterrupt
    /\ pc \in {"woken", "data"} => device.status = "drq" /\ NoInterrupt
    /\ pc # "written"

WriteTurn ==
    /\ bytes_left > 0
    /\ pc = "sector" => /\ device.status \in {"prepare", "drq"} /\ NoInterrupt
                        /\ device.todo = bytes_left
    /\ pc = "written" \/ Waiting =>
          \/ device.status = "busy" /\ NoInterrupt /\ device.todo = bytes_left
          \/ OneInterrupt /\ SectorWritten
    /\ pc \in {"woken", "data"} => NoInterrupt /\ SectorWritten

Protocol ==
    /\ pc # "spin"
    /\ Between => device.status = "idle" /\ NoInterrupt
    /\ ~Between => IF device.cmd = "READ" THEN ReadTurn ELSE WriteTurn

-----------------------------------------------------------------------------
(* What hd_open has found so far *)

Parts == 1 .. NR_PART_PER_DRIVE
Exts == {p \in Parts : layout[p].sys_id = "EXT_PART"}

(* The place in hd_info of the i-th logical partition of p.                 *)
Index(p, i) == (p - 1) * NR_SUB_PER_PART + i - 1

Found(p, i) == [base |-> layout[p].start + layout[p].subs[i].ebr + layout[p].subs[i].start,
                size |-> layout[p].subs[i].size]

(* hd_info has the first n logical partitions of p, and nothing else of p.  *)
Entries(p, n) ==
    \A i \in 1 .. NR_SUB_PER_PART :
        logical[Index(p, i)] = IF i <= n /\ p \in Exts /\ i \in DOMAIN layout[p].subs
                               THEN Found(p, i) ELSE NoPartition

(* task_hd is busy with the command in job.                                 *)
Working == pc \notin {"receive", "spin", "answer"}

(* partition(device, P_EXTENDED) is about to read, or has read, the table   *)
(* of the next logical partition of the first extended one that is left.    *)
WalkState ==
    LET j == Min(walk.exts)
    IN  /\ walk.exts # {} /\ walk.exts \subseteq Exts
        /\ \A p \in walk.exts : primary[p].base = layout[p].start
        /\ walk.i < NR_SUB_PER_PART /\ walk.i + 1 \in DOMAIN layout[j].subs
        /\ walk.s = TableAt(layout, j, walk.i + 1)
        /\ Entries(j, walk.i)
        /\ \A p \in walk.exts \ {j} : Entries(p, 0)
        /\ \A p \in Parts \ walk.exts : Entries(p, NR_SUB_PER_PART)

Tables ==
    /\ open_cnt = 0 \/ (Working /\ job.for = "primary") => \A p \in Parts : Entries(p, 0)
    /\ Working /\ job.for = "extended" => WalkState
    /\ open_cnt > 0 /\ (Working => job.for = "rdwt") =>
          \A p \in Parts : Entries(p, NR_SUB_PER_PART)

(* The request that the driver serves, and what it has made of it.          *)
Stage ==
    /\ pc = "receive" => req = NoRequest \/ (req.type = "DEV_OPEN" <=> open_cnt = 0)
    /\ Working /\ job.for = "identify" => req.type = "DEV_OPEN" /\ open_cnt = 0
    /\ Working /\ job.for \in {"primary", "extended"} => req.type = "DEV_OPEN" /\ open_cnt > 0
    /\ Working /\ job.for = "rdwt" =>
          /\ req.type \in {"DEV_READ", "DEV_WRITE"} /\ open_cnt > 0
          /\ job.lba = req.pos + logical[NR_SUB_PER_PART].base
    /\ pc = "answer" =>
          /\ req # NoRequest /\ open_cnt > 0
          /\ req.type = "DEV_IOCTL" => geo = logical[NR_SUB_PER_PART]

(* The loop of hd_rdwt has a sector to go, and the controller the command.  *)
Commanded ==
    /\ Working /\ pc \notin {"command", "done"} => bytes_left > 0 /\ device.lba = job.lba
    /\ device.status # "idle" => device.todo > 0

IInv == TypeOK /\ Stage /\ Commanded /\ Tables

-----------------------------------------------------------------------------
(* Places in hd_info, and tables on the disk *)

(* Every logical partition has a place of its own in hd_info.               *)
LEMMA IndexFacts ==
    ASSUME NEW p \in Parts, NEW i \in 1 .. NR_SUB_PER_PART
    PROVE  /\ Index(p, i) \in 0 .. NR_SUB_PER_DRIVE - 1
           /\ \A q \in Parts, k \in 1 .. NR_SUB_PER_PART :
                 Index(p, i) = Index(q, k) => p = q /\ i = k
<1> DEFINE n == NR_SUB_PER_PART
<1>1. n \in Nat \ {0} /\ NR_PART_PER_DRIVE \in Nat /\ p \in Nat
  BY HdAssumption DEF Parts
<1>2. \A a, b \in Int : a <= b => a * n <= b * n
  BY <1>1
<1>3. \A a, b \in Int : (a + b) * n = a * n + b * n
  BY <1>1
<1>4. (p - 1) * n \in Int /\ (p - 1) * n >= 0
      /\ (p - 1) * n + n <= NR_PART_PER_DRIVE * n /\ NR_PART_PER_DRIVE * n \in Int
  <2>1. 0 * n = 0 /\ 1 * n = n /\ (p - 1) * n \in Int /\ NR_PART_PER_DRIVE * n \in Int
    BY <1>1
  <2>2. (p - 1 + 1) * n = (p - 1) * n + 1 * n
    BY <1>1, <1>3
  <2>3. (p - 1 + 1) * n <= NR_PART_PER_DRIVE * n
    BY <1>1, <1>2 DEF Parts
  <2>4. 0 * n <= (p - 1) * n
    BY <1>1, <1>2 DEF Parts
  <2> QED
    BY <2>1, <2>2, <2>3, <2>4
<1>5. Index(p, i) \in 0 .. NR_SUB_PER_DRIVE - 1
  BY <1>1, <1>4 DEF Index, NR_SUB_PER_DRIVE
<1>6. ASSUME NEW q \in Parts, NEW k \in 1 .. n, Index(p, i) = Index(q, k)
      PROVE  p = q /\ i = k
  <2>1. q \in Nat /\ (q - 1) * n \in Int /\ (p - 1) * n \in Int
    BY <1>1 DEF Parts
  <2>2. CASE p < q
    <3>1. (p - 1 + 1) * n = (p - 1) * n + 1 * n /\ 1 * n = n
      BY <1>1, <1>3
    <3>2. (p - 1 + 1) * n <= (q - 1) * n
      BY <1>1, <1>2, <2>1, <2>2
    <3> QED
      BY <1>1, <1>6, <2>1, <3>1, <3>2 DEF Index
  <2>3. CASE q < p
    <3>1. (q - 1 + 1) * n = (q - 1) * n + 1 * n /\ 1 * n = n
      BY <1>1, <1>3, <2>1
    <3>2. (q - 1 + 1) * n <= (p - 1) * n
      BY <1>1, <1>2, <2>1, <2>3
    <3> QED
      BY <1>1, <1>6, <2>1, <3>1, <3>2 DEF Index
  <2>4. CASE p = q
    BY <1>1, <1>6, <2>1, <2>4 DEF Index
  <2> QED
    BY <1>1, <2>1, <2>2, <2>3, <2>4
<1> QED
  BY <1>5, <1>6

(* The minor number of the root device leads to the first logical partition *)
(* of the second primary one.                                               *)
LEMMA RootPart ==
    /\ PartOf(RootMinor) = logical[NR_SUB_PER_PART]
    /\ Index(2, 1) = NR_SUB_PER_PART
    /\ NR_SUB_PER_PART \in 0 .. NR_SUB_PER_DRIVE - 1
<1> DEFINE n == NR_SUB_PER_PART
<1>1. n \in Nat \ {0} /\ NR_PART_PER_DRIVE \in Nat /\ NR_PART_PER_DRIVE >= 2
      /\ MAX_PRIM \in Int /\ MAX_PRIM <= MINOR_hd1a /\ MINOR_hd1a = 16
  BY HdAssumption DEF MAX_PRIM, MINOR_hd1a
<1>2. NR_SUB_PER_DRIVE \in Nat /\ n < NR_SUB_PER_DRIVE
  <2>1. NR_PART_PER_DRIVE * n >= 2 * n /\ NR_PART_PER_DRIVE * n \in Nat
    BY <1>1
  <2> QED
    BY <1>1, <2>1 DEF NR_SUB_PER_DRIVE
<1>3. RootMinor - MINOR_hd1a = n /\ ~(RootMinor < MAX_PRIM)
  BY <1>1 DEF RootMinor
<1>4. n % NR_SUB_PER_DRIVE = n
  BY <1>1, <1>2
<1>5. PartOf(RootMinor) = logical[n]
  BY <1>3, <1>4 DEF PartOf
<1>6. Index(2, 1) = n
  BY <1>1 DEF Index
<1> QED
  BY <1>1, <1>2, <1>5, <1>6

(* The fields of a layout.                                                  *)
LEMMA LayoutType ==
    ASSUME TypeOK
    PROVE  /\ DOMAIN layout = Parts
           /\ \A p \in Parts :
                 /\ layout[p].sys_id \in {"NO_PART", "ORANGES_PART", "EXT_PART"}
                 /\ layout[p].start \in Nat /\ layout[p].size \in Nat
                 /\ DOMAIN layout[p].subs = 1 .. Len(layout[p].subs)
                 /\ Len(layout[p].subs) \in Nat
                 /\ \A i \in DOMAIN layout[p].subs :
                       /\ layout[p].subs[i].ebr \in Nat
                       /\ layout[p].subs[i].start \in Nat
                       /\ layout[p].subs[i].size \in Nat
<1>1. layout \in [Parts -> Primary]
  BY HdAssumption DEF TypeOK, Parts
<1>2. ASSUME NEW p \in Parts
      PROVE  /\ layout[p].sys_id \in {"NO_PART", "ORANGES_PART", "EXT_PART"}
             /\ layout[p].start \in Nat /\ layout[p].size \in Nat
             /\ layout[p].subs \in Seq([ebr : Nat, start : Nat, size : Nat])
  BY <1>1 DEF Primary
<1>3. ASSUME NEW s \in Seq([ebr : Nat, start : Nat, size : Nat])
      PROVE  /\ DOMAIN s = 1 .. Len(s) /\ Len(s) \in Nat
             /\ \A i \in DOMAIN s : s[i].ebr \in Nat /\ s[i].start \in Nat /\ s[i].size \in Nat
  <2>1. DOMAIN s = 1 .. Len(s) /\ Len(s) \in Nat
    OBVIOUS
  <2>2. ASSUME NEW i \in DOMAIN s
        PROVE  s[i].ebr \in Nat /\ s[i].start \in Nat /\ s[i].size \in Nat
    <3>0. ASSUME NEW S, NEW z \in Seq(S), NEW k \in 1 .. Len(z) PROVE z[k] \in S
      OBVIOUS
    <3>1. s[i] \in [ebr : Nat, start : Nat, size : Nat]
      BY <2>1, <3>0, Zenon
    <3> QED
      BY <3>1
  <2> QED
    BY <2>1, <2>2
<1> QED
  BY <1>1, <1>2, <1>3

(* The first table of an extended partition is at its start.                *)
LEMMA FirstTable ==
    ASSUME TypeOK, NEW p \in Exts
    PROVE  1 \in DOMAIN layout[p].subs /\ TableAt(layout, p, 1) = layout[p].start
<1>1. layout \in Layouts /\ p \in Parts /\ layout[p].sys_id = "EXT_PART"
  BY DEF TypeOK, Exts
<1>2. layout[p].subs # <<>> /\ layout[p].subs[1].ebr = 0
  BY <1>1, LayoutType, HdAssumption
<1>3. layout[p].subs \in Seq([ebr : Nat, start : Nat, size : Nat])
  <2>1. layout \in [Parts -> Primary]
    BY <1>1, HdAssumption DEF Parts
  <2> QED
    BY <1>1, <2>1 DEF Primary
<1>4. 1 \in DOMAIN layout[p].subs
  BY <1>2, <1>3
<1> QED
  BY <1>1, <1>2, <1>4, LayoutType DEF TableAt

(* The driver finds the table it looks for, and no other one.               *)
LEMMA TableRead ==
    ASSUME TypeOK, NEW p \in Exts, NEW i \in DOMAIN layout[p].subs
    PROVE  ExtendedTable(TableAt(layout, p, i)) = Described(p, i)
<1> DEFINE tables == UNION {{<<q, k>> : k \in DOMAIN layout[q].subs} :
                              q \in {q \in DOMAIN layout : layout[q].sys_id = "EXT_PART"}}
           here == {t \in tables : TableAt(layout, t[1], t[2]) = TableAt(layout, p, i)}
<1>1. p \in DOMAIN layout /\ layout[p].sys_id = "EXT_PART" /\ layout \in Layouts
  BY LayoutType DEF Exts, TypeOK
<1>2. <<p, i>> \in here
  BY <1>1
<1>3. ASSUME NEW t \in here PROVE t = <<p, i>>
  <2>0. PICK q \in DOMAIN layout :
            layout[q].sys_id = "EXT_PART" /\ \E k \in DOMAIN layout[q].subs : t = <<q, k>>
    OBVIOUS
  <2>1. PICK k \in DOMAIN layout[q].subs : t = <<q, k>>
    BY <2>0
  <2>2. TableAt(layout, q, k) = TableAt(layout, p, i)
    BY <1>3, <2>1
  <2>3. q = p /\ k = i
    BY <1>1, <2>0, <2>2, HdAssumption
  <2> QED
    BY <2>1, <2>3
<1> DEFINE t0 == CHOOSE t \in here : TRUE
<1>4. here # {} /\ t0 = <<p, i>>
  <2> HIDE DEF here
  <2> QED
    BY <1>2, <1>3
<1>5. ExtendedTable(TableAt(layout, p, i))
        = IF here = {} THEN <<NO_PART, NO_PART>> ELSE Described(t0[1], t0[2])
  BY DEF ExtendedTable
<1> HIDE DEF here, t0
<1>6. t0[1] = p /\ t0[2] = i
  BY <1>4
<1> QED
  BY <1>4, <1>5, <1>6, Zenon

-----------------------------------------------------------------------------
(* The invariant, step by step *)

LEMMA IInvInit == Init => IInv
<1> SUFFICES ASSUME Init PROVE IInv
  OBVIOUS
<1>1. TypeOK
  BY HdAssumption DEF Init, TypeOK, PartInfo, NoPartition, Points
<1>2. Stage /\ Commanded
  BY DEF Init, Stage, Commanded, Working, NoRequest
<1>3. Tables
  BY IndexFacts DEF Init, Tables, Entries, Working
<1> QED
  BY <1>1, <1>2, <1>3 DEF IInv

(* A step of the transfer changes nothing of the request and of hd_info.    *)
LEMMA TransferKeeps ==
    ASSUME Stage, Tables,
           UNCHANGED <<layout, req, job, walk, open_cnt, primary, logical, geo>>,
           pc' = pc \/ (Working /\ Working')
    PROVE  Stage' /\ Tables'
<1>1. Stage'
  BY DEF Stage, Working, NoRequest
<1>2. \A p, n : Entries(p, n)' <=> Entries(p, n)
  BY DEF Entries, Exts, Found
<1>3. WalkState' <=> WalkState
  BY <1>2 DEF WalkState, Exts
<1>4. Working' <=> Working
  BY DEF Working
<1>5. Tables'
  BY <1>2, <1>3, <1>4 DEF Tables
<1> QED
  BY <1>1, <1>5

(* The controller counts at least one sector.                               *)
LEMMA CountType ==
    ASSUME NEW n \in Nat
    PROVE  CountOf(count(n)) \in Nat \ {0}
BY HdAssumption DEF CountOf, count

(* The command as hd_rdwt, hd_identify and get_part_table make it.          *)
LEMMA JobType ==
    ASSUME TypeOK
    PROVE  /\ job.for \in {"identify", "primary", "extended", "rdwt"}
           /\ job.cmd \in {"READ", "WRITE"} /\ job.lba \in Nat
           /\ job.sects \in Sectors \cup {1} /\ job.sects \in Nat \ {0}
<1>1. job \in [for : {"identify", "primary", "extended", "rdwt"},
               cmd : {"READ", "WRITE"}, lba : Nat, sects : Sectors \cup {1}]
  BY DEF TypeOK
<1>2. /\ job.for \in {"identify", "primary", "extended", "rdwt"}
      /\ job.cmd \in {"READ", "WRITE"} /\ job.lba \in Nat
      /\ job.sects \in Sectors \cup {1}
  BY <1>1
<1>3. \A n \in Sectors \cup {1} : n \in Nat \ {0}
  BY HdAssumption
<1> QED
  BY <1>2, <1>3

(* The parts of TypeOK that most steps change.                              *)
ServiceTypes ==
    /\ req \in Request \cup {NoRequest}
    /\ pc \in Points
    /\ job \in [for : {"identify", "primary", "extended", "rdwt"},
                cmd : {"READ", "WRITE"}, lba : Nat, sects : Sectors \cup {1}]
    /\ bytes_left \in Nat /\ geo \in PartInfo
    /\ has_int_msg \in BOOLEAN /\ irq \in BOOLEAN
    /\ device \in [cmd : {"READ", "WRITE"}, lba : Nat, todo : Nat,
                   status : {"idle", "prepare", "busy", "drq"}]
    /\ halted \in Halts \cup {"no"}

LEMMA TypeParts == TypeOK => ServiceTypes
BY DEF TypeOK, ServiceTypes

(* A new request, or none.                                                  *)
LEMMA TypesKept ==
    ASSUME ServiceTypes, req' \in Request \cup {NoRequest},
           pc' = pc, job' = job, bytes_left' = bytes_left, geo' = geo,
           has_int_msg' = has_int_msg, irq' = irq, device' = device, halted' = halted
    PROVE  ServiceTypes'
<1>1. (pc \in Points)'
  BY DEF ServiceTypes
<1>2. (job \in [for : {"identify", "primary", "extended", "rdwt"},
                cmd : {"READ", "WRITE"}, lba : Nat, sects : Sectors \cup {1}])'
  BY DEF ServiceTypes
<1>3. (bytes_left \in Nat /\ geo \in PartInfo)'
  BY DEF ServiceTypes
<1>4. (has_int_msg \in BOOLEAN /\ irq \in BOOLEAN)'
  BY DEF ServiceTypes
<1>5. (device \in [cmd : {"READ", "WRITE"}, lba : Nat, todo : Nat,
                   status : {"idle", "prepare", "busy", "drq"}])'
  BY DEF ServiceTypes
<1>6. (halted \in Halts \cup {"no"})'
  BY DEF ServiceTypes
<1> QED
  BY <1>1, <1>2, <1>3, <1>4, <1>5, <1>6 DEF ServiceTypes

(* A step that leaves the disk, the walk and hd_info alone.                 *)
LEMMA TypeStep ==
    ASSUME TypeOK, ServiceTypes', layout' = layout, walk' = walk, open_cnt' = open_cnt,
           primary' = primary, logical' = logical
    PROVE  TypeOK'
<1>1. (layout \in Layouts /\ open_cnt \in Nat)'
  BY DEF TypeOK
<1>2. (walk \in [exts : SUBSET (1 .. NR_PART_PER_DRIVE), s : Nat, i : Nat])'
  BY DEF TypeOK
<1>3. (primary \in [0 .. NR_PART_PER_DRIVE -> PartInfo])'
  BY DEF TypeOK
<1>4. (logical \in [0 .. NR_SUB_PER_DRIVE - 1 -> PartInfo])'
  BY DEF TypeOK
<1> QED
  BY <1>1, <1>2, <1>3, <1>4 DEF TypeOK, ServiceTypes

LEMMA CommandStep == IInv /\ HdCommand => IInv'
<1> SUFFICES ASSUME IInv, HdCommand PROVE IInv'
  OBVIOUS
<1>1. job.sects \in Nat \ {0} /\ job.lba \in Nat /\ job.cmd \in {"READ", "WRITE"}
  BY JobType DEF IInv
<1>2. CountOf(count(job.sects)) \in Nat \ {0}
  BY <1>1, CountType
<1>3. /\ device' \in [cmd : {"READ", "WRITE"}, lba : Nat, todo : Nat,
                      status : {"idle", "prepare", "busy", "drq"}]
      /\ device'.lba = job.lba /\ device'.todo > 0
      /\ bytes_left' = job.sects /\ pc' = "sector"
      /\ UNCHANGED <<layout, req, job, walk, info, geo, has_int_msg, irq, halted>>
  BY <1>1, <1>2 DEF HdCommand
<1>5. bytes_left' \in Nat /\ bytes_left' > 0
  BY <1>1, <1>3
<1>6. TypeOK' /\ Commanded'
  <2>1. TypeOK /\ ServiceTypes
    BY TypeParts DEF IInv
  <2>2. ServiceTypes'
    BY <1>3, <1>5, <2>1 DEF ServiceTypes, Points
  <2>3. TypeOK'
    BY <1>3, <2>1, <2>2, TypeStep DEF info
  <2>4. Commanded'
    BY <1>3, <1>5 DEF Commanded, Working
  <2> QED
    BY <2>3, <2>4
<1>4. Stage' /\ Tables'
  BY TransferKeeps DEF IInv, HdCommand, At, Working, info
<1> QED
  BY <1>4, <1>6 DEF IInv

(* The steps of the loop of hd_rdwt.                                        *)
LEMMA LoopStep ==
    ASSUME IInv, \/ HdReadWait \/ HdPortRead \/ HdPortWrite \/ HdWriteWait
                 \/ FallAsleep \/ HdWritten
    PROVE  IInv'
<1>0. /\ TypeOK /\ bytes_left \in Nat /\ has_int_msg \in BOOLEAN
      /\ device \in [cmd : {"READ", "WRITE"}, lba : Nat, todo : Nat,
                     status : {"idle", "prepare", "busy", "drq"}]
  BY DEF IInv, TypeOK
<1>1. /\ pc \in {"sector", "written", "sleeping", "receiving", "woken", "data"}
      /\ pc' \in {pc, "written", "sleeping", "receiving", "asleep", "data", "sector", "done"}
      /\ UNCHANGED <<layout, req, job, walk, info, geo, irq>>
      /\ halted' \in {halted, "proc.c:131", "proc.c:338", "proc.c:342"}
  BY DEF HdReadWait, HdPortRead, HdPortWrite, HdWriteWait, FallAsleep, HdWritten, At,
         interrupt_wait, Turn
<1>2. bytes_left > 0 /\ device.lba = job.lba
  BY <1>1 DEF IInv, Commanded, Working
<1>3. /\ bytes_left' \in Nat /\ has_int_msg' \in BOOLEAN
      /\ pc' # "done" => bytes_left' > 0
  <2>1. CASE HdReadWait \/ HdPortWrite \/ HdWriteWait \/ FallAsleep
    BY <1>0, <1>2, <2>1 DEF HdReadWait, HdPortWrite, HdWriteWait, FallAsleep, interrupt_wait
  <2>2. CASE HdPortRead \/ HdWritten
    BY <1>0, <1>2, <2>2 DEF HdPortRead, HdWritten, Turn, Less
  <2> QED
    BY <2>1, <2>2
<1>4. /\ device' \in [cmd : {"READ", "WRITE"}, lba : Nat, todo : Nat,
                      status : {"idle", "prepare", "busy", "drq"}]
      /\ device'.lba = device.lba
      /\ device'.status # "idle" => device'.todo > 0
  <2>1. CASE HdReadWait \/ HdWriteWait \/ FallAsleep \/ HdWritten
    BY <1>0, <2>1 DEF IInv, Commanded, HdReadWait, HdWriteWait, FallAsleep, HdWritten
  <2>2. CASE HdPortWrite
    BY <1>0, <2>2 DEF IInv, Commanded, HdPortWrite
  <2>3. CASE HdPortRead
    <3>1. device.status = "drq" => device.todo > 0
      BY DEF IInv, Commanded
    <3> QED
      BY <1>0, <2>3, <3>1 DEF IInv, Commanded, HdPortRead, SectorDone
  <2> QED
    BY <2>1, <2>2, <2>3
<1>5. TypeOK'
  <2>1. pc' \in Points /\ halted' \in Halts \cup {"no"}
    BY <1>0, <1>1 DEF TypeOK, Points, Halts
  <2>2. ServiceTypes'
    BY <1>0, <1>1, <1>3, <1>4, <2>1, TypeParts DEF ServiceTypes
  <2>3. layout' = layout /\ walk' = walk /\ open_cnt' = open_cnt
       /\ primary' = primary /\ logical' = logical
    BY <1>1 DEF info
  <2> QED
    BY <1>0, <2>2, <2>3, TypeStep
<1>6. Working /\ Working'
  BY <1>1 DEF Working
<1>7. Commanded'
  BY <1>1, <1>2, <1>3, <1>4 DEF Commanded
<1>8. Stage' /\ Tables'
  BY <1>1, <1>6, TransferKeeps DEF IInv, info
<1> QED
  BY <1>5, <1>7, <1>8 DEF IInv

(* The interrupt handler, the controller and a timeout.                     *)
LEMMA DeviceStep ==
    IInv /\ (HdTimeout \/ hd_handler \/ DevicePrepared \/ DeviceDone) => IInv'
<1> SUFFICES ASSUME IInv, HdTimeout \/ hd_handler \/ DevicePrepared \/ DeviceDone PROVE IInv'
  OBVIOUS
<1>0. /\ TypeOK /\ irq \in BOOLEAN /\ has_int_msg \in BOOLEAN
      /\ device \in [cmd : {"READ", "WRITE"}, lba : Nat, todo : Nat,
                     status : {"idle", "prepare", "busy", "drq"}]
  BY DEF IInv, TypeOK
<1>1. /\ \/ pc' = pc
         \/ pc = "asleep" /\ pc' = "data"
         \/ pc = "receiving" /\ pc' = "woken"
      /\ UNCHANGED <<layout, req, job, walk, info, geo, bytes_left>>
  BY DEF HdTimeout, hd_handler, DevicePrepared, DeviceDone
<1>2. /\ irq' \in BOOLEAN /\ has_int_msg' \in BOOLEAN
      /\ halted' \in {halted, "hd error", "hd writing error"}
  BY <1>0 DEF HdTimeout, hd_handler, DevicePrepared, DeviceDone
<1>3. /\ device' \in [cmd : {"READ", "WRITE"}, lba : Nat, todo : Nat,
                      status : {"idle", "prepare", "busy", "drq"}]
      /\ device'.lba = device.lba
      /\ device'.status # "idle" => device'.todo > 0
  <2>1. device.status # "idle" => device.todo > 0
    BY DEF IInv, Commanded, Working
  <2>2. CASE HdTimeout \/ hd_handler
    BY <1>0, <2>1, <2>2 DEF HdTimeout, hd_handler
  <2>3. CASE DevicePrepared
    BY <1>0, <2>1, <2>3 DEF DevicePrepared
  <2>4. CASE DeviceDone
    BY <1>0, <2>1, <2>4 DEF DeviceDone, SectorDone
  <2> QED
    BY <2>2, <2>3, <2>4
<1>4. TypeOK'
  <2>1. ServiceTypes'
    <3>1. pc' \in Points /\ halted' \in Halts \cup {"no"}
      BY <1>0, <1>1, <1>2 DEF TypeOK, Points, Halts
    <3> QED
      BY <1>0, <1>1, <1>2, <1>3, <3>1, TypeParts, ZenonT(60) DEF ServiceTypes
  <2>2. layout' = layout /\ walk' = walk /\ open_cnt' = open_cnt
       /\ primary' = primary /\ logical' = logical
    BY <1>1 DEF info
  <2> QED
    BY <1>0, <2>1, <2>2, TypeStep
<1>6. Commanded'
  BY <1>1, <1>3 DEF IInv, Commanded, Working
<1>5. Stage' /\ Tables'
  BY <1>1, TransferKeeps DEF IInv, Working, info
<1> QED
  BY <1>4, <1>5, <1>6 DEF IInv

LEMMA FsRequestStep ==
    ASSUME IInv, NEW r \in Request, FsRequest(r)
    PROVE  IInv'
<1>1. /\ req = NoRequest /\ req' = r /\ (r.type = "DEV_OPEN" <=> open_cnt = 0)
      /\ UNCHANGED <<layout, pc, job, walk, bytes_left, info, geo, has_int_msg, irq, device,
                     halted>>
  BY DEF FsRequest
<1>2. TypeOK' /\ Commanded'
  <2>1. req' \in Request \cup {NoRequest}
    BY <1>1
  <2>2. TypeOK'
    <3>1. /\ TypeOK /\ pc' = pc
          /\ UNCHANGED <<layout, job, walk, bytes_left, open_cnt, primary, logical, geo,
                         has_int_msg, irq, device, halted>>
      BY <1>1 DEF IInv, info
    <3> QED
      <4>1. ServiceTypes'
        BY <2>1, <3>1, TypeParts, TypesKept
      <4>2. layout' = layout /\ walk' = walk /\ open_cnt' = open_cnt
           /\ primary' = primary /\ logical' = logical
        BY <2>1, <3>1
      <4> QED
        BY <3>1, <4>1, <4>2, TypeStep
  <2>3. Commanded'
    BY <1>1 DEF IInv, Commanded, Working
  <2> QED
    BY <2>2, <2>3
<1>3. ~Working /\ pc # "answer"
  <2>1. job.for \in {"identify", "primary", "extended", "rdwt"}
    BY DEF IInv, TypeOK
  <2> QED
    BY <1>1, <2>1 DEF IInv, Stage, NoRequest
<1>4. Stage'
  BY <1>1, <1>3 DEF IInv, Stage, Working, info
<1>5. Tables'
  <2>1. \A p, n : Entries(p, n)' <=> Entries(p, n)
    BY <1>1 DEF Entries, Exts, Found, info
  <2>2. WalkState' <=> WalkState
    BY <1>1, <2>1 DEF WalkState, Exts, Working, info
  <2> QED
    BY <1>1, <2>1, <2>2 DEF IInv, Tables, Working, info
<1> QED
  BY <1>2, <1>4, <1>5 DEF IInv

LEMMA ReceiveStep == IInv /\ HdReceive => IInv'
<1> SUFFICES ASSUME IInv, HdReceive PROVE IInv'
  OBVIOUS
<1>0. /\ TypeOK /\ pc = "receive" /\ ~Working
      /\ UNCHANGED <<layout, req, walk, bytes_left, info, irq, device, halted>>
      /\ has_int_msg' = FALSE
  BY DEF IInv, HdReceive, At, Working
<1>1. \A p, n : Entries(p, n)' <=> Entries(p, n)
  BY <1>0 DEF Entries, Exts, Found, info
<1>2. logical[NR_SUB_PER_PART] \in PartInfo /\ logical[NR_SUB_PER_PART].base \in Nat
  BY <1>0, RootPart DEF TypeOK, PartInfo
<1>7. req.type # "none" /\ req.type # "DEV_OPEN" => open_cnt > 0 /\ req # NoRequest
  <2>1. open_cnt \in Nat
    BY <1>0 DEF TypeOK
  <2> QED
    BY <1>0, <2>1 DEF IInv, Stage, NoRequest
<1>8. req.type \in {"DEV_READ", "DEV_WRITE"} => req.pos \in Nat /\ req.sects \in Sectors
  <2>1. req \in Request \cup {NoRequest}
    BY <1>0 DEF TypeOK
  <2>2. req.type \in {"DEV_READ", "DEV_WRITE"} =>
            req \in [type : {"DEV_READ", "DEV_WRITE"}, pos : Positions, sects : Sectors]
    BY <2>1 DEF Request, NoRequest
  <2>3. req.type \in {"DEV_READ", "DEV_WRITE"} => req.pos \in Positions /\ req.sects \in Sectors
    BY <2>2
  <2> QED
    BY <2>3, HdAssumption
<1>3. CASE has_int_msg
  <2>1. pc' = "spin" /\ UNCHANGED <<job, geo>>
    BY <1>3 DEF HdReceive
  <2>5. TypeOK'
    <3>1. ServiceTypes'
      BY <1>0, <2>1, TypeParts, ZenonT(60) DEF info, ServiceTypes, Points
    <3>2. layout' = layout /\ walk' = walk /\ open_cnt' = open_cnt
         /\ primary' = primary /\ logical' = logical
      BY <1>0, <2>1 DEF info
    <3> QED
      BY <1>0, <3>1, <3>2, TypeStep
  <2>2. TypeOK' /\ Commanded'
    BY <1>0, <2>1, <2>5 DEF IInv, Commanded, Working
  <2>4. Stage'
    BY <1>0, <2>1 DEF Stage, Working
  <2>3. Tables'
    BY <1>0, <1>1, <2>1 DEF IInv, Tables, Working, info
  <2> QED
    BY <2>2, <2>3, <2>4 DEF IInv
<1>4. CASE ~has_int_msg /\ req.type = "DEV_OPEN"
  <2>1. /\ pc' = "command" /\ UNCHANGED geo
        /\ job' = [for |-> "identify", cmd |-> "READ", lba |-> 0, sects |-> 1]
    BY <1>4 DEF HdReceive, Serve, hd_identify, Command
  <2>2. TypeOK' /\ Commanded'
    BY <1>0, <2>1 DEF IInv, TypeOK, Commanded, Working, info, Points
  <2>3. Stage' /\ Tables'
    BY <1>0, <1>1, <1>4, <2>1 DEF IInv, Stage, Tables, Working, NoRequest, info
  <2> QED
    BY <2>2, <2>3 DEF IInv
<1>5. CASE ~has_int_msg /\ req.type = "DEV_IOCTL"
  <2>1. pc' = "answer" /\ geo' = logical[NR_SUB_PER_PART] /\ UNCHANGED job
    BY <1>5, RootPart DEF HdReceive, Serve
  <2>5. TypeOK'
    <3>1. ServiceTypes'
      BY <1>0, <1>2, <2>1, TypeParts, ZenonT(60) DEF info, ServiceTypes, Points
    <3>2. layout' = layout /\ walk' = walk /\ open_cnt' = open_cnt
         /\ primary' = primary /\ logical' = logical
      BY <1>0, <1>2, <2>1 DEF info
    <3> QED
      BY <1>0, <3>1, <3>2, TypeStep
  <2>2. TypeOK' /\ Commanded'
    BY <1>0, <2>1, <2>5 DEF IInv, Commanded, Working
  <2>3. open_cnt > 0 /\ req # NoRequest
    BY <1>5, <1>7
  <2>4. Stage' /\ Tables'
    BY <1>0, <1>1, <2>1, <2>3 DEF IInv, Stage, Tables, Working, info
  <2> QED
    BY <2>2, <2>4 DEF IInv
<1>6. CASE ~has_int_msg /\ req.type \in {"DEV_READ", "DEV_WRITE"}
  <2>1. /\ pc' = "command" /\ UNCHANGED geo
        /\ job' = [for |-> "rdwt", cmd |-> IF req.type = "DEV_READ" THEN "READ" ELSE "WRITE",
                   lba |-> req.pos + logical[NR_SUB_PER_PART].base, sects |-> req.sects]
    BY <1>6, RootPart DEF HdReceive, Serve, Command
  <2>2. req.pos \in Nat /\ req.sects \in Sectors
    BY <1>6, <1>8
  <2>6. req.pos + logical[NR_SUB_PER_PART].base \in Nat
    BY <1>2, <2>2
  <2>7. job' \in [for : {"identify", "primary", "extended", "rdwt"},
                  cmd : {"READ", "WRITE"}, lba : Nat, sects : Sectors \cup {1}]
    BY <2>1, <2>2, <2>6
  <2>8. TypeOK'
    BY <1>0, <2>1, <2>7 DEF TypeOK, info, Points
  <2>3. TypeOK' /\ Commanded'
    BY <1>0, <2>1, <2>8 DEF IInv, Commanded, Working
  <2>4. open_cnt > 0
    BY <1>6, <1>7
  <2>5. Stage' /\ Tables'
    BY <1>0, <1>1, <1>6, <2>1, <2>4 DEF IInv, Stage, Tables, Working, info
  <2> QED
    BY <2>3, <2>5 DEF IInv
<1> QED
  BY <1>3, <1>4, <1>5, <1>6 DEF HdReceive, Serve

LEMMA AnswerStep == IInv /\ (HdTransferred \/ HdAnswer) => IInv'
<1> SUFFICES ASSUME IInv, HdTransferred \/ HdAnswer PROVE IInv'
  OBVIOUS
<1>0. /\ TypeOK
      /\ UNCHANGED <<layout, job, walk, bytes_left, open_cnt, primary, logical, geo,
                     has_int_msg, irq, device, halted>>
      /\ \/ pc = "done" /\ job.for = "rdwt" /\ pc' = "answer" /\ req' = req
         \/ pc = "answer" /\ pc' = "receive" /\ req' = NoRequest
  BY DEF IInv, HdTransferred, HdAnswer, At, info
<1>1. TypeOK'
  <2>1. ServiceTypes'
    BY <1>0, TypeParts, ZenonT(60) DEF ServiceTypes, Points
  <2>2. layout' = layout /\ walk' = walk /\ open_cnt' = open_cnt
       /\ primary' = primary /\ logical' = logical
    BY <1>0
  <2> QED
    BY <1>0, <2>1, <2>2, TypeStep
<1>2. Commanded'
  BY <1>0 DEF IInv, Commanded, Working
<1>3. Stage'
  BY <1>0 DEF IInv, Stage, Working, NoRequest
<1>4. \A p, n : Entries(p, n)' <=> Entries(p, n)
  BY <1>0 DEF Entries, Exts, Found
<1>5. Tables'
  BY <1>0, <1>4 DEF IInv, Tables, Stage, Working
<1> QED
  BY <1>1, <1>2, <1>3, <1>5 DEF IInv

LEMMA IdentifiedStep == IInv /\ HdIdentified => IInv'
<1> SUFFICES ASSUME IInv, HdIdentified PROVE IInv'
  OBVIOUS
<1>0. /\ TypeOK /\ pc = "done" /\ job.for = "identify"
      /\ primary' = [primary EXCEPT ![0] = [base |-> 0, size |-> DiskSize]]
      /\ open_cnt' = open_cnt + 1
      /\ UNCHANGED <<layout, req, walk, bytes_left, logical, geo, has_int_msg, irq, device,
                     halted>>
  BY DEF IInv, HdIdentified, At
<1>1. open_cnt = 0 /\ req.type = "DEV_OPEN"
  BY <1>0 DEF IInv, Stage, Working
<1>2. /\ pc' = "command"
      /\ job' = [for |-> "primary", cmd |-> "READ", lba |-> 0, sects |-> 1]
  BY <1>1 DEF HdIdentified, get_part_table, Command
<1>3. TypeOK'
  <2>1. primary' \in [0 .. NR_PART_PER_DRIVE -> PartInfo]
    BY <1>0, HdAssumption DEF TypeOK, PartInfo
  <2>2. open_cnt' \in Nat
    BY <1>0, <1>1
  <2>3. job' \in [for : {"identify", "primary", "extended", "rdwt"},
                  cmd : {"READ", "WRITE"}, lba : Nat, sects : Sectors \cup {1}]
    BY <1>2
  <2>4. (/\ layout \in Layouts /\ req \in Request \cup {NoRequest}
         /\ walk \in [exts : SUBSET (1 .. NR_PART_PER_DRIVE), s : Nat, i : Nat])'
    BY <1>0 DEF TypeOK
  <2>5. (logical \in [0 .. NR_SUB_PER_DRIVE - 1 -> PartInfo] /\ geo \in PartInfo)'
    BY <1>0 DEF TypeOK
  <2>6. (/\ bytes_left \in Nat /\ has_int_msg \in BOOLEAN /\ irq \in BOOLEAN
         /\ halted \in Halts \cup {"no"})'
    BY <1>0 DEF TypeOK
  <2>7. (device \in [cmd : {"READ", "WRITE"}, lba : Nat, todo : Nat,
                     status : {"idle", "prepare", "busy", "drq"}])'
    BY <1>0 DEF TypeOK
  <2> QED
    BY <1>2, <2>1, <2>2, <2>3, <2>4, <2>5, <2>6, <2>7 DEF TypeOK, Points
<1>4. Commanded'
  BY <1>0, <1>2 DEF IInv, Commanded, Working
<1>5. Stage'
  BY <1>0, <1>1, <1>2 DEF Stage, Working
<1>6. \A p, n : Entries(p, n)' <=> Entries(p, n)
  BY <1>0 DEF Entries, Exts, Found
<1>7. Tables'
  BY <1>0, <1>1, <1>2, <1>6 DEF IInv, Tables, Working
<1> QED
  BY <1>3, <1>4, <1>5, <1>7 DEF IInv

(* WalkExtended turns to the first of the extended partitions that are left *)
(* and to its first table, or ends when none is left.                       *)
LEMMA WalkStep ==
    ASSUME TypeOK, UNCHANGED layout, NEW exts \in SUBSET Exts, WalkExtended(exts),
           primary' \in [0 .. NR_PART_PER_DRIVE -> PartInfo],
           \A p \in exts : primary'[p].base = layout[p].start,
           \A p \in exts : Entries(p, 0)',
           \A p \in Parts \ exts : Entries(p, NR_SUB_PER_PART)'
    PROVE  /\ walk' \in [exts : SUBSET (1 .. NR_PART_PER_DRIVE), s : Nat, i : Nat]
           /\ job' \in [for : {"identify", "primary", "extended", "rdwt"},
                        cmd : {"READ", "WRITE"}, lba : Nat, sects : Sectors \cup {1}]
           /\ \/ pc' = "command" /\ job'.for = "extended" /\ WalkState'
              \/ pc' = "answer" /\ \A p \in Parts : Entries(p, NR_SUB_PER_PART)'
<1>0. Exts \subseteq Parts /\ Exts' = Exts
  BY DEF Exts
<1>1. CASE exts = {}
  <2>1. pc' = "answer" /\ walk' = [exts |-> {}, s |-> 0, i |-> 0] /\ job' = job
    BY <1>1 DEF WalkExtended
  <2>2. walk' \in [exts : SUBSET (1 .. NR_PART_PER_DRIVE), s : Nat, i : Nat]
    BY <2>1
  <2> QED
    BY <1>1, <2>1, <2>2 DEF TypeOK
<1>2. CASE exts # {}
  <2> DEFINE j == Min(exts)
             s0 == primary'[j].base
  <2>1. j \in exts /\ j \in Parts
    <3>1. exts \subseteq Nat /\ exts \subseteq Parts
      BY <1>0, HdAssumption DEF Parts
    <3> QED
      BY <1>2, <3>1, MinIsLeast
  <2>2. /\ pc' = "command" /\ walk' = [exts |-> exts, s |-> s0, i |-> 0]
        /\ job' = [for |-> "extended", cmd |-> "READ", lba |-> s0, sects |-> 1]
    BY <1>2 DEF WalkExtended, get_part_table, Command
  <2>3. s0 = layout[j].start /\ s0 \in Nat
    BY <2>1, LayoutType
  <2>4. 1 \in DOMAIN layout[j].subs /\ TableAt(layout, j, 1) = layout[j].start
    BY <2>1, FirstTable
  <2>5. /\ walk' \in [exts : SUBSET (1 .. NR_PART_PER_DRIVE), s : Nat, i : Nat]
        /\ walk'.exts = exts /\ walk'.s = s0 /\ walk'.i = 0
    BY <2>2, <2>3, <1>0 DEF Parts
  <2>6. /\ job' \in [for : {"identify", "primary", "extended", "rdwt"},
                     cmd : {"READ", "WRITE"}, lba : Nat, sects : Sectors \cup {1}]
        /\ job'.for = "extended"
    BY <2>2, <2>3
  <2>7. WalkState'
    <3> HIDE DEF s0
    <3>1. Min(walk'.exts) = j
      BY <2>5
    <3> HIDE DEF j
    <3>2. walk'.exts # {} /\ walk'.exts \subseteq Exts'
      BY <1>0, <1>2, <2>5
    <3>3. walk'.i < NR_SUB_PER_PART /\ walk'.i + 1 \in DOMAIN layout'[j].subs
      BY <2>4, <2>5, HdAssumption
    <3>4. walk'.s = TableAt(layout', j, walk'.i + 1)
      BY <2>3, <2>4, <2>5
    <3>5. Entries(j, walk.i)'
      BY <2>1, <2>5 DEF Entries
    <3> QED
      BY <2>5, <3>1, <3>2, <3>3, <3>4, <3>5 DEF WalkState
  <2> QED
    BY <2>2, <2>5, <2>6, <2>7
<1> QED
  BY <1>1, <1>2

(* The type invariant after a step of partition().                          *)
LEMMA TypeOfPartition ==
    ASSUME TypeOK,
           UNCHANGED <<layout, req, bytes_left, open_cnt, geo, has_int_msg, irq, device>>,
           pc' \in {"done", "command", "answer"}, halted' \in {halted, "no partition"},
           walk' \in [exts : SUBSET (1 .. NR_PART_PER_DRIVE), s : Nat, i : Nat],
           job' \in [for : {"identify", "primary", "extended", "rdwt"},
                    cmd : {"READ", "WRITE"}, lba : Nat, sects : Sectors \cup {1}],
           primary' \in [0 .. NR_PART_PER_DRIVE -> PartInfo],
           logical' \in [0 .. NR_SUB_PER_DRIVE - 1 -> PartInfo]
    PROVE  TypeOK'
<1>1. (layout \in Layouts /\ req \in Request \cup {NoRequest})'
  BY DEF TypeOK
<1>2. (bytes_left \in Nat /\ open_cnt \in Nat /\ geo \in PartInfo)'
  BY DEF TypeOK
<1>3. (/\ has_int_msg \in BOOLEAN /\ irq \in BOOLEAN
       /\ halted \in Halts \cup {"no"})'
  BY DEF TypeOK, Halts
<1>4. (device \in [cmd : {"READ", "WRITE"}, lba : Nat, todo : Nat,
                   status : {"idle", "prepare", "busy", "drq"}])'
  BY DEF TypeOK
<1>5. (pc \in Points)'
  BY DEF Points
<1> QED
  BY <1>1, <1>2, <1>3, <1>4, <1>5 DEF TypeOK

LEMMA PrimaryReadStep == IInv /\ HdPrimaryRead => IInv'
<1> SUFFICES ASSUME IInv, HdPrimaryRead PROVE IInv'
  OBVIOUS
<1> DEFINE used == {p \in 1 .. NR_PART_PER_DRIVE : BootTable(p).sys_id # "NO_PART"}
<1>0. /\ TypeOK /\ pc = "done" /\ job.for = "primary" /\ Working
      /\ primary' = [p \in DOMAIN primary |->
              IF p \notin used THEN primary[p]
              ELSE [base |-> BootTable(p).start, size |-> BootTable(p).size]]
      /\ UNCHANGED <<layout, req, bytes_left, open_cnt, logical, geo, has_int_msg, irq, device>>
  BY DEF IInv, HdPrimaryRead, At, Working
<1>1. req.type = "DEV_OPEN" /\ open_cnt > 0
  BY <1>0 DEF IInv, Stage
<1>2. \A p \in Parts : Entries(p, 0)
  BY <1>0 DEF IInv, Tables
<1>3. \A p, n : Entries(p, n)' <=> Entries(p, n)
  BY <1>0 DEF Entries, Exts, Found
<1>4. used \subseteq Parts /\ Exts \subseteq used
  BY DEF Parts, Exts, BootTable
<1>5. primary' \in [0 .. NR_PART_PER_DRIVE -> PartInfo]
  <2>1. DOMAIN primary = 0 .. NR_PART_PER_DRIVE
        /\ \A p \in 0 .. NR_PART_PER_DRIVE : primary[p] \in PartInfo
    BY <1>0 DEF TypeOK
  <2>2. \A p \in used : [base |-> BootTable(p).start, size |-> BootTable(p).size] \in PartInfo
    BY <1>0, <1>4, LayoutType DEF BootTable, PartInfo
  <2> HIDE DEF used
  <2> QED
    BY <1>0, <2>1, <2>2
<1>6. \A p \in Exts : primary'[p].base = layout[p].start
  <2>0. DOMAIN primary = 0 .. NR_PART_PER_DRIVE
    BY <1>0 DEF TypeOK
  <2>1. \A p \in Exts : p \in DOMAIN primary
    BY <2>0, HdAssumption DEF Exts, Parts
  <2> QED
    BY <1>0, <1>4, <2>1 DEF BootTable
<1>7. logical' \in [0 .. NR_SUB_PER_DRIVE - 1 -> PartInfo]
  BY <1>0 DEF TypeOK
<1>8. CASE used = {}
  <2>1. halted' = "no partition" /\ UNCHANGED <<pc, job, walk>>
    BY <1>8 DEF HdPrimaryRead
  <2>2. walk' \in [exts : SUBSET (1 .. NR_PART_PER_DRIVE), s : Nat, i : Nat]
    BY <1>0, <2>1 DEF TypeOK
  <2>3. job' \in [for : {"identify", "primary", "extended", "rdwt"},
                  cmd : {"READ", "WRITE"}, lba : Nat, sects : Sectors \cup {1}]
    BY <1>0, <2>1 DEF TypeOK
  <2> HIDE DEF used
  <2>4. TypeOK'
    BY <1>0, <1>5, <1>7, <2>1, <2>2, <2>3, TypeOfPartition
  <2>5. Commanded'
    BY <1>0, <2>1 DEF IInv, Commanded, Working
  <2>6. Stage'
    BY <1>0, <2>1 DEF IInv, Stage, Working
  <2>7. Tables'
    BY <1>0, <1>1, <1>2, <1>3, <2>1 DEF Tables, Working
  <2> QED
    BY <2>4, <2>5, <2>6, <2>7 DEF IInv
<1>9. CASE used # {}
  <2>1. WalkExtended({p \in used : BootTable(p).sys_id = "EXT_PART"}) /\ halted' = halted
    BY <1>9 DEF HdPrimaryRead
  <2>2. {p \in used : BootTable(p).sys_id = "EXT_PART"} = Exts
    BY <1>4 DEF Exts, BootTable, Parts
  <2>3. WalkExtended(Exts)
    BY <2>1, <2>2
  <2> HIDE DEF used
  <2>4. \A p \in Exts : Entries(p, 0)'
    BY <1>2, <1>3 DEF Exts
  <2>5. \A p \in Parts \ Exts : Entries(p, NR_SUB_PER_PART)'
    <3>1. ASSUME NEW p \in Parts \ Exts PROVE Entries(p, NR_SUB_PER_PART)
      BY <1>2 DEF Entries
    <3> QED
      BY <1>3, <3>1
  <2>6. /\ walk' \in [exts : SUBSET (1 .. NR_PART_PER_DRIVE), s : Nat, i : Nat]
        /\ job' \in [for : {"identify", "primary", "extended", "rdwt"},
                     cmd : {"READ", "WRITE"}, lba : Nat, sects : Sectors \cup {1}]
        /\ \/ pc' = "command" /\ job'.for = "extended" /\ WalkState'
           \/ pc' = "answer" /\ \A p \in Parts : Entries(p, NR_SUB_PER_PART)'
    <3>1. Exts \in SUBSET Exts /\ UNCHANGED layout
      BY <1>0
    <3> QED
      BY <1>0, <1>5, <1>6, <2>3, <2>4, <2>5, <3>1, WalkStep
  <2>7. TypeOK'
    BY <1>0, <1>5, <1>7, <2>1, <2>6, TypeOfPartition
  <2>8. Commanded'
    BY <1>0, <2>6 DEF IInv, Commanded, Working
  <2>9. Stage' /\ Tables'
    BY <1>0, <1>1, <2>6 DEF Stage, Tables, Working, NoRequest
  <2> QED
    BY <2>7, <2>8, <2>9 DEF IInv
<1> QED
  BY <1>8, <1>9

LEMMA ExtendedReadStep == IInv /\ HdExtendedRead => IInv'
<1> SUFFICES ASSUME IInv, HdExtendedRead PROVE IInv'
  OBVIOUS
<1>j. PICK j : j = Min(walk.exts)
  OBVIOUS
<1>n. PICK n : n = walk.i + 1
  OBVIOUS
<1> DEFINE part_tbl == ExtendedTable(walk.s)
           s == NextTable(primary[j].base, walk.s, part_tbl[2])
           new == [base |-> walk.s + part_tbl[1].start, size |-> part_tbl[1].size]
<1>0. /\ TypeOK /\ pc = "done" /\ job.for = "extended" /\ Working
      /\ logical' = [logical EXCEPT ![(j - 1) * NR_SUB_PER_PART + walk.i] = new]
      /\ IF part_tbl[2].sys_id = "NO_PART" \/ walk.i + 1 = NR_SUB_PER_PART
         THEN WalkExtended(walk.exts \ {j})
         ELSE /\ walk' = [exts |-> walk.exts, s |-> s, i |-> walk.i + 1]
              /\ get_part_table("extended", s)
      /\ UNCHANGED <<primary, layout, req, bytes_left, open_cnt, geo, has_int_msg, irq, device,
                     halted>>
  BY <1>j DEF IInv, HdExtendedRead, At, Working
<1>1. req.type = "DEV_OPEN" /\ open_cnt > 0
  BY <1>0 DEF IInv, Stage
<1>2. /\ walk.exts # {} /\ walk.exts \subseteq Exts
      /\ \A p \in walk.exts : primary[p].base = layout[p].start
      /\ walk.i < NR_SUB_PER_PART /\ n \in DOMAIN layout[j].subs
      /\ walk.s = TableAt(layout, j, n)
      /\ Entries(j, walk.i)
      /\ \A p \in walk.exts \ {j} : Entries(p, 0)
      /\ \A p \in Parts \ walk.exts : Entries(p, NR_SUB_PER_PART)
  BY <1>0, <1>j, <1>n DEF IInv, Tables, WalkState
<1>3. j \in walk.exts /\ j \in Exts /\ j \in Parts /\ j \in Nat
  <2>1. walk.exts \subseteq Nat
    BY <1>2, HdAssumption DEF Exts, Parts
  <2>2. j \in walk.exts
    BY <1>2, <1>j, <2>1, MinIsLeast
  <2> QED
    BY <1>2, <2>1, <2>2 DEF Exts
<1>4. /\ walk \in [exts : SUBSET (1 .. NR_PART_PER_DRIVE), s : Nat, i : Nat]
      /\ walk.i \in Nat /\ walk.s \in Nat /\ n \in 1 .. NR_SUB_PER_PART
      /\ NR_SUB_PER_PART \in Nat
  <2>1. walk \in [exts : SUBSET (1 .. NR_PART_PER_DRIVE), s : Nat, i : Nat]
    BY <1>0 DEF TypeOK
  <2>2. walk.i \in Nat /\ walk.s \in Nat /\ NR_SUB_PER_PART \in Nat
    BY <2>1, HdAssumption
  <2> QED
    BY <1>2, <1>n, <2>1, <2>2
<1>5. part_tbl = Described(j, n)
  BY <1>0, <1>2, <1>3, TableRead
<1>6. /\ layout[j].start \in Nat /\ Len(layout[j].subs) \in Nat
      /\ DOMAIN layout[j].subs = 1 .. Len(layout[j].subs)
      /\ layout[j].subs[n].ebr \in Nat /\ layout[j].subs[n].start \in Nat
      /\ layout[j].subs[n].size \in Nat
  BY <1>0, <1>2, <1>3, LayoutType
<1>7. /\ part_tbl[1].start = layout[j].subs[n].start /\ part_tbl[1].size = layout[j].subs[n].size
      /\ n = Len(layout[j].subs) => part_tbl[2].sys_id = "NO_PART"
      /\ n # Len(layout[j].subs) => /\ part_tbl[2].sys_id = "EXT_PART"
                                    /\ part_tbl[2].start = layout[j].subs[n + 1].ebr
  BY <1>5 DEF Described, NO_PART
<1>8. new = Found(j, n) /\ new \in PartInfo
  <2>1. walk.s = layout[j].start + layout[j].subs[n].ebr
    BY <1>2 DEF TableAt
  <2>2. walk.s + part_tbl[1].start = layout[j].start + layout[j].subs[n].ebr + layout[j].subs[n].start
    BY <1>6, <1>7, <2>1
  <2>3. walk.s + part_tbl[1].start \in Nat /\ part_tbl[1].size \in Nat
    BY <1>4, <1>6, <1>7
  <2>4. new = Found(j, n)
    BY <1>7, <2>2 DEF Found
  <2>5. new \in PartInfo
    BY <2>3 DEF PartInfo
  <2> QED
    BY <2>4, <2>5
<1> HIDE DEF part_tbl, new
<1>9. /\ logical \in [0 .. NR_SUB_PER_DRIVE - 1 -> PartInfo]
      /\ logical' = [logical EXCEPT ![Index(j, n)] = new]
      /\ Index(j, n) \in 0 .. NR_SUB_PER_DRIVE - 1
  <2>1. (j - 1) * NR_SUB_PER_PART + walk.i = Index(j, n)
    <3>1. (j - 1) * NR_SUB_PER_PART \in Int
      BY <1>3, <1>4
    <3> QED
      BY <1>4, <1>n, <3>1 DEF Index
  <2> QED
    BY <1>0, <1>3, <1>4, <2>1, IndexFacts DEF TypeOK
<1>10. logical' \in [0 .. NR_SUB_PER_DRIVE - 1 -> PartInfo]
  BY <1>8, <1>9
<1>11. ASSUME NEW p \in Parts, p # j, NEW m, Entries(p, m)
       PROVE  Entries(p, m)'
  <2>1. ASSUME NEW i \in 1 .. NR_SUB_PER_PART PROVE logical'[Index(p, i)] = logical[Index(p, i)]
    <3>1. Index(p, i) # Index(j, n) /\ Index(p, i) \in 0 .. NR_SUB_PER_DRIVE - 1
      BY <1>3, <1>4, <1>11, IndexFacts
    <3> QED
      BY <1>9, <3>1
  <2> QED
    BY <1>0, <1>11, <2>1 DEF Entries, Exts, Found
<1>12. Entries(j, n)'
  <2>1. ASSUME NEW i \in 1 .. NR_SUB_PER_PART
        PROVE  logical'[Index(j, i)] = IF i <= n /\ j \in Exts /\ i \in DOMAIN layout[j].subs
                                       THEN Found(j, i) ELSE NoPartition
    <3>1. CASE i = n
      BY <1>2, <1>3, <1>4, <1>8, <1>9, <3>1
    <3>2. CASE i # n
      <4>1. Index(j, i) # Index(j, n) /\ Index(j, i) \in 0 .. NR_SUB_PER_DRIVE - 1
        BY <1>3, <1>4, <3>2, IndexFacts
      <4>2. logical'[Index(j, i)] = logical[Index(j, i)]
        BY <1>9, <4>1
      <4>3. i <= n <=> i <= walk.i
        BY <1>4, <1>n, <3>2
      <4> QED
        BY <1>2, <4>2, <4>3 DEF Entries
    <3> QED
      BY <3>1, <3>2
  <2> QED
    BY <1>0, <2>1 DEF Entries, Exts, Found
<1>13. primary' \in [0 .. NR_PART_PER_DRIVE -> PartInfo] /\ UNCHANGED layout
  BY <1>0 DEF TypeOK
<1>14. CASE part_tbl[2].sys_id = "NO_PART" \/ walk.i + 1 = NR_SUB_PER_PART
  <2>1. WalkExtended(walk.exts \ {j})
    BY <1>0, <1>14
  <2>2. Entries(j, NR_SUB_PER_PART)'
    <3>1. n = Len(layout[j].subs) \/ n = NR_SUB_PER_PART
      BY <1>7, <1>14, <1>n
    <3>2. \A i \in 1 .. NR_SUB_PER_PART :
              i \in DOMAIN layout[j].subs => (i <= n <=> i <= NR_SUB_PER_PART)
      BY <1>4, <1>6, <3>1
    <3>3. \A i \in 1 .. NR_SUB_PER_PART :
              i \in DOMAIN layout'[j].subs => (i <= n <=> i <= NR_SUB_PER_PART)
      BY <1>0, <3>2
    <3> QED
      BY <1>12, <3>3 DEF Entries
  <2>3. \A p \in walk.exts \ {j} : Entries(p, 0)'
    BY <1>2, <1>11 DEF Exts
  <2>4. \A p \in Parts \ (walk.exts \ {j}) : Entries(p, NR_SUB_PER_PART)'
    BY <1>2, <1>11, <2>2
  <2>5. \A p \in walk.exts \ {j} : primary'[p].base = layout[p].start
    BY <1>0, <1>2
  <2>6. walk.exts \ {j} \in SUBSET Exts
    BY <1>2
  <2>7. /\ walk' \in [exts : SUBSET (1 .. NR_PART_PER_DRIVE), s : Nat, i : Nat]
        /\ job' \in [for : {"identify", "primary", "extended", "rdwt"},
                     cmd : {"READ", "WRITE"}, lba : Nat, sects : Sectors \cup {1}]
        /\ \/ pc' = "command" /\ job'.for = "extended" /\ WalkState'
           \/ pc' = "answer" /\ \A p \in Parts : Entries(p, NR_SUB_PER_PART)'
    BY <1>0, <1>13, <2>1, <2>3, <2>4, <2>5, <2>6, WalkStep
  <2>8. TypeOK'
    BY <1>0, <1>10, <1>13, <2>7, TypeOfPartition
  <2>9. Commanded'
    BY <1>0, <2>7 DEF IInv, Commanded, Working
  <2>10. Stage' /\ Tables'
    BY <1>0, <1>1, <2>7 DEF Stage, Tables, Working, NoRequest
  <2> QED
    BY <2>8, <2>9, <2>10 DEF IInv
<1>15. CASE ~(part_tbl[2].sys_id = "NO_PART" \/ walk.i + 1 = NR_SUB_PER_PART)
  <2>1. /\ walk' = [exts |-> walk.exts, s |-> s, i |-> walk.i + 1] /\ pc' = "command"
        /\ job' = [for |-> "extended", cmd |-> "READ", lba |-> s, sects |-> 1]
    BY <1>0, <1>15 DEF get_part_table, Command
  <2>2. n # Len(layout[j].subs) /\ n < NR_SUB_PER_PART /\ n \in Nat
    BY <1>4, <1>7, <1>15, <1>n
  <2>3. n + 1 \in DOMAIN layout[j].subs
    BY <1>2, <1>6, <2>2
  <2>4. s = TableAt(layout, j, n + 1) /\ s \in Nat
    <3>1. primary[j].base = layout[j].start /\ layout[j].subs[n + 1].ebr \in Nat
      BY <1>0, <1>2, <1>3, <2>3, LayoutType
    <3> QED
      BY <1>6, <1>7, <2>2, <3>1, SMTT(30) DEF NextTable, TableAt
  <2> HIDE DEF s
  <2>5. /\ walk' \in [exts : SUBSET (1 .. NR_PART_PER_DRIVE), s : Nat, i : Nat]
        /\ walk'.exts = walk.exts /\ walk'.s = s /\ walk'.i = n
    BY <1>4, <1>n, <2>1, <2>4
  <2>6. job' \in [for : {"identify", "primary", "extended", "rdwt"},
                  cmd : {"READ", "WRITE"}, lba : Nat, sects : Sectors \cup {1}]
        /\ job'.for = "extended"
    BY <2>1, <2>4
  <2>7. TypeOK'
    BY <1>0, <1>10, <1>13, <2>1, <2>5, <2>6, TypeOfPartition
  <2>8. WalkState'
    <3>1. Min(walk'.exts) = j
      BY <1>j, <2>5
    <3>2. walk'.exts # {} /\ walk'.exts \subseteq Exts'
      BY <1>0, <1>2, <2>5 DEF Exts
    <3>3. \A p \in walk'.exts : primary'[p].base = layout'[p].start
      BY <1>0, <1>2, <2>5
    <3>4. walk'.i < NR_SUB_PER_PART /\ walk'.i + 1 \in DOMAIN layout'[j].subs
      BY <1>0, <2>2, <2>3, <2>5
    <3>5. walk'.s = TableAt(layout', j, walk'.i + 1)
      BY <1>0, <2>4, <2>5
    <3>6. Entries(j, walk.i)'
      BY <1>12, <2>5 DEF Entries
    <3>7. /\ \A p \in walk'.exts \ {j} : Entries(p, 0)'
          /\ \A p \in Parts \ walk'.exts : Entries(p, NR_SUB_PER_PART)'
      BY <1>2, <1>3, <1>11, <2>5 DEF Exts
    <3> QED
      BY <3>1, <3>2, <3>3, <3>4, <3>5, <3>6, <3>7 DEF WalkState
  <2>9. Commanded'
    BY <1>0, <2>1 DEF IInv, Commanded, Working
  <2>10. Stage' /\ Tables'
    BY <1>0, <1>1, <2>1, <2>6, <2>8 DEF Stage, Tables, Working, NoRequest
  <2> QED
    BY <2>7, <2>9, <2>10 DEF IInv
<1> QED
  BY <1>14, <1>15

LEMMA IInvStep == IInv /\ [Next]_vars => IInv'
<1> SUFFICES ASSUME IInv, [Next]_vars PROVE IInv'
  OBVIOUS
<1>1. CASE UNCHANGED vars
  <2>1. UNCHANGED <<layout, req, pc, job, walk, bytes_left, open_cnt, primary, logical, geo,
                    has_int_msg, irq, device, halted>>
    BY <1>1 DEF vars, info
  <2>2. TypeOK' /\ Commanded'
    <3>1. TypeOK'
      <4>1. ServiceTypes'
        <5>1. ServiceTypes /\ req \in Request \cup {NoRequest}
          BY TypeParts DEF IInv, ServiceTypes
        <5> QED
          BY <2>1, <5>1, TypesKept
      <4>2. layout' = layout /\ walk' = walk /\ open_cnt' = open_cnt
           /\ primary' = primary /\ logical' = logical
        BY <2>1 DEF IInv
      <4> QED
        BY <2>1, <4>1, <4>2, TypeStep DEF IInv
    <3> QED
      BY <2>1, <3>1 DEF IInv, Commanded, Working
  <2>3. Stage' /\ Tables'
    BY <2>1, TransferKeeps DEF IInv
  <2> QED
    BY <2>2, <2>3 DEF IInv
<1> QED
  BY <1>1, FsRequestStep, ReceiveStep, IdentifiedStep, PrimaryReadStep, ExtendedReadStep,
     AnswerStep, CommandStep, LoopStep, DeviceStep
  DEF Next, TaskHd

(* Throughout, the job of the driver fits the request and the state of      *)
(* hd_info, and hd_info has exactly what the tables read so far describe.   *)
THEOREM Invariant == Spec => []IInv
BY IInvInit, IInvStep, PTL DEF Spec

(* The driver's variables have their types.                                 *)
THEOREM TypeCorrect == Spec => []TypeOK
<1>1. IInv => TypeOK
  BY DEF IInv
<1> QED
  BY <1>1, Invariant, PTL

(* On any disk, partition() finds every logical partition it has room for.  *)
THEOREM AllPartitionsFound == Spec => []PartitionsFound
<1>1. ASSUME IInv PROVE PartitionsFound
  <2> SUFFICES ASSUME open_cnt > 0, pc = "receive",
                      NEW p \in 1 .. NR_PART_PER_DRIVE, NEW i \in 1 .. NR_SUB_PER_PART
               PROVE  logical[(p - 1) * NR_SUB_PER_PART + i - 1] =
                         IF layout[p].sys_id = "EXT_PART" /\ i \in DOMAIN layout[p].subs
                         THEN Found(p, i) ELSE NoPartition
    BY DEF PartitionsFound, Found
  <2>1. Entries(p, NR_SUB_PER_PART)
    BY <1>1 DEF IInv, Tables, Working, Parts
  <2>2. i <= NR_SUB_PER_PART
    BY HdAssumption
  <2> QED
    BY <2>1, <2>2 DEF Entries, Index, Exts, Parts
<1> QED
  BY <1>1, Invariant, PTL

(* Every read and write of the root device starts at the right sector.      *)
THEOREM SectorIsRight == Spec => []RightSector
<1>1. ASSUME IInv PROVE RightSector
  <2> SUFFICES ASSUME layout[2].sys_id = "EXT_PART"
               PROVE  LET root == [base |-> layout[2].start + layout[2].subs[1].start,
                                   size |-> layout[2].subs[1].size]
                      IN  /\ pc = "answer" /\ req.type = "DEV_IOCTL" => geo = root
                          /\ pc = "sector" /\ req.type \in {"DEV_READ", "DEV_WRITE"} =>
                                device.lba = root.base + req.pos
    BY DEF RightSector
  <2>1. TypeOK /\ 2 \in Parts /\ 2 \in Exts
    BY <1>1, HdAssumption DEF IInv, Parts, Exts
  <2>2. 1 \in DOMAIN layout[2].subs /\ TableAt(layout, 2, 1) = layout[2].start
    BY <2>1, FirstTable
  <2>3. layout[2].start \in Nat /\ layout[2].subs[1].start \in Nat
    BY <2>1, <2>2, LayoutType
  <2>4. Found(2, 1) = [base |-> layout[2].start + layout[2].subs[1].start,
                       size |-> layout[2].subs[1].size]
    BY <2>2 DEF Found, TableAt
  <2>5. ASSUME Entries(2, NR_SUB_PER_PART)
        PROVE  logical[NR_SUB_PER_PART] = Found(2, 1)
    <3>1. 1 \in 1 .. NR_SUB_PER_PART /\ 1 <= NR_SUB_PER_PART
      BY HdAssumption
    <3> QED
      BY <2>1, <2>2, <2>5, <3>1, RootPart DEF Entries
  <2>6. ASSUME pc = "answer", req.type = "DEV_IOCTL"
        PROVE  geo = Found(2, 1)
    <3>1. geo = logical[NR_SUB_PER_PART] /\ open_cnt > 0 /\ ~Working
      BY <1>1, <2>6 DEF IInv, Stage, Working
    <3>2. Entries(2, NR_SUB_PER_PART)
      BY <1>1, <2>1, <3>1 DEF IInv, Tables
    <3> QED
      BY <2>5, <3>1, <3>2
  <2>7. ASSUME pc = "sector", req.type \in {"DEV_READ", "DEV_WRITE"}
        PROVE  device.lba = Found(2, 1).base + req.pos
    <3>1. Working /\ job.for = "rdwt"
      BY <1>1, <2>1, <2>7, JobType DEF IInv, Stage, Working
    <3>2. /\ open_cnt > 0 /\ job.lba = req.pos + logical[NR_SUB_PER_PART].base
          /\ device.lba = job.lba
      BY <1>1, <2>7, <3>1 DEF IInv, Stage, Commanded, Working
    <3>3. Entries(2, NR_SUB_PER_PART)
      BY <1>1, <2>1, <3>1, <3>2 DEF IInv, Tables
    <3>4. req.pos \in Nat
      <4>1. req \in [type : {"DEV_READ", "DEV_WRITE"}, pos : Positions, sects : Sectors]
        <5>1. req \in Request \cup {NoRequest}
          BY <2>1 DEF TypeOK
        <5>2. req # NoRequest
          BY <2>7 DEF NoRequest
        <5>3. req \notin {[type |-> t, pos |-> 0, sects |-> 0] : t \in {"DEV_OPEN", "DEV_IOCTL"}}
          BY <2>7
        <5> QED
          BY <5>1, <5>2, <5>3 DEF Request
      <4> QED
        BY <4>1, HdAssumption
    <3>5. Found(2, 1).base \in Nat
      BY <2>3, <2>4
    <3> QED
      BY <2>5, <3>2, <3>3, <3>4, <3>5
  <2> QED
    BY <2>4, <2>6, <2>7
<1> QED
  BY <1>1, Invariant, PTL

-----------------------------------------------------------------------------
(* Driver, interrupts and controller *)

(* The controller counts the sectors that the driver counts.                *)
LEMMA CountExact ==
    ASSUME CountFits, NEW n \in Sectors \cup {1}
    PROVE  CountOf(count(n)) = n
<1>1. n \in 1 .. U8 /\ U8 \in Nat \ {0}
  BY HdAssumption DEF CountFits
<1>2. CASE n = U8
  BY <1>1, <1>2 DEF CountOf, count
<1>3. CASE n # U8
  BY <1>1, <1>3 DEF CountOf, count
<1> QED
  BY <1>2, <1>3

LEMMA ProtocolInit == Init => Protocol
BY DEF Init, Protocol, Between, NoInterrupt

LEMMA ProtocolStep ==
    ASSUME CountFits, IInv, Protocol, [Next]_vars
    PROVE  Protocol'
<1>0. /\ TypeOK /\ pc \in Points
      /\ bytes_left \in Nat /\ has_int_msg \in BOOLEAN /\ irq \in BOOLEAN
      /\ device \in [cmd : {"READ", "WRITE"}, lba : Nat, todo : Nat,
                     status : {"idle", "prepare", "busy", "drq"}]
  BY DEF IInv, TypeOK
<1>1. /\ device.cmd \in {"READ", "WRITE"} /\ device.todo \in Nat
      /\ device.status \in {"idle", "prepare", "busy", "drq"}
  BY <1>0
<1>2. ASSUME UNCHANGED <<bytes_left, has_int_msg, irq, device>>, pc' = pc \/ (Between /\ Between')
      PROVE  Protocol'
  BY <1>2 DEF Protocol, Between, NoInterrupt, ReadTurn, WriteTurn, Waiting, OneInterrupt,
              SectorWritten
<1>3. ASSUME NEW r \in Request, FsRequest(r) PROVE Protocol'
  BY <1>2, <1>3 DEF FsRequest
<1>4. CASE HdReceive
  <2>1. ~has_int_msg /\ Between
    BY <1>4 DEF HdReceive, At, Protocol, Between, NoInterrupt
  <2>2. Between' /\ UNCHANGED <<bytes_left, has_int_msg, irq, device>>
    BY <1>0, <1>4, <2>1 DEF HdReceive, Serve, hd_identify, Command, Between
  <2> QED
    BY <1>2, <2>1, <2>2
<1>5. CASE HdIdentified \/ HdPrimaryRead \/ HdExtendedRead \/ HdTransferred \/ HdAnswer
  <2>1. Between /\ Between' /\ UNCHANGED <<bytes_left, has_int_msg, irq, device>>
    BY <1>5 DEF HdIdentified, HdPrimaryRead, HdExtendedRead, HdTransferred, HdAnswer, At, Between,
                WalkExtended, get_part_table, Command
  <2> QED
    BY <1>2, <2>1
<1>6. CASE HdCommand
  <2>1. job.sects \in Sectors \cup {1} /\ job.sects \in Nat \ {0} /\ job.cmd \in {"READ", "WRITE"}
    BY <1>0, JobType
  <2>2. CountOf(count(job.sects)) = job.sects
    BY <2>1, CountExact
  <2>3. /\ pc = "command" /\ pc' = "sector" /\ bytes_left' = job.sects
        /\ device'.cmd = job.cmd /\ device'.todo = job.sects
        /\ device'.status = IF job.cmd = "READ" THEN "busy" ELSE "prepare"
        /\ UNCHANGED <<has_int_msg, irq>>
    BY <1>6, <2>2 DEF HdCommand, At
  <2>4. NoInterrupt'
    BY <2>3 DEF Protocol, Between, NoInterrupt
  <2> QED
    BY <2>1, <2>3, <2>4 DEF Protocol, Between, ReadTurn, WriteTurn, Waiting
<1>7. CASE HdReadWait
  BY <1>0, <1>1, <1>7
  DEF HdReadWait, At, interrupt_wait, Protocol, Between, NoInterrupt, ReadTurn, Waiting,
      OneInterrupt
<1>8. CASE HdPortRead
  <2>1. /\ pc = "data" /\ device.cmd = "READ" /\ device.status = "drq" /\ NoInterrupt
        /\ bytes_left > 0 /\ device.todo = bytes_left
    BY <1>8 DEF HdPortRead, At, Protocol, Between, ReadTurn
  <2>2. /\ device'.cmd = "READ" /\ device'.todo = device.todo - 1
        /\ device'.status = IF device.todo = 1 THEN "idle" ELSE "busy"
        /\ bytes_left' = bytes_left - 1 /\ pc' = IF bytes_left' = 0 THEN "done" ELSE "sector"
        /\ UNCHANGED <<has_int_msg, irq>>
    BY <1>8, <2>1 DEF HdPortRead, Turn, Less, SectorDone
  <2> QED
    BY <1>0, <1>1, <2>1, <2>2 DEF Protocol, Between, NoInterrupt, ReadTurn
<1>9. CASE HdPortWrite
  <2>1. /\ pc = "sector" /\ device.cmd = "WRITE" /\ NoInterrupt
        /\ bytes_left > 0 /\ device.todo = bytes_left
    BY <1>9 DEF HdPortWrite, At, Protocol, Between, WriteTurn
  <2>2. /\ device'.cmd = "WRITE" /\ device'.todo = device.todo /\ device'.status = "busy"
        /\ pc' = "written" /\ UNCHANGED <<bytes_left, has_int_msg, irq>>
    BY <1>0, <1>9, <2>1 DEF HdPortWrite
  <2> QED
    BY <2>1, <2>2 DEF Protocol, Between, NoInterrupt, WriteTurn, Waiting
<1>10. CASE HdWritten
  <2>1. /\ pc = "data" /\ device.cmd = "WRITE" /\ NoInterrupt /\ bytes_left > 0 /\ SectorWritten
    BY <1>10 DEF HdWritten, At, Protocol, Between, WriteTurn
  <2>2. /\ bytes_left' = bytes_left - 1 /\ pc' = IF bytes_left' = 0 THEN "done" ELSE "sector"
        /\ UNCHANGED <<has_int_msg, irq, device>>
    BY <1>10 DEF HdWritten, Turn, Less
  <2> QED
    BY <1>0, <1>1, <2>1, <2>2 DEF Protocol, Between, NoInterrupt, WriteTurn, Waiting, SectorWritten
<1>16. CASE HdWriteWait
  <2>1. /\ pc = "written" /\ device.cmd = "WRITE" /\ bytes_left > 0
        /\ \/ device.status = "busy" /\ NoInterrupt /\ device.todo = bytes_left
           \/ OneInterrupt /\ SectorWritten
    BY <1>1, <1>16 DEF HdWriteWait, At, Protocol, Between, ReadTurn, WriteTurn
  <2>2. /\ pc' = (IF has_int_msg THEN "data" ELSE "sleeping") /\ has_int_msg' = FALSE
        /\ UNCHANGED <<bytes_left, irq, device>>
    BY <1>16 DEF HdWriteWait, interrupt_wait
  <2>3. WriteTurn'
    BY <1>0, <1>1, <2>1, <2>2
    DEF WriteTurn, NoInterrupt, OneInterrupt, Waiting, SectorWritten
  <2> QED
    BY <2>1, <2>2, <2>3 DEF Protocol, Between
<1>17. CASE FallAsleep
  <2>1. /\ UNCHANGED <<bytes_left, has_int_msg, irq, device>>
        /\ \/ pc' = pc
           \/ pc = "sleeping" /\ pc' = "receiving"
           \/ pc = "receiving" /\ ~has_int_msg /\ pc' = "asleep"
    BY <1>17 DEF FallAsleep, At
  <2>2. CASE pc' = pc
    BY <1>2, <2>1, <2>2
  <2>3. CASE pc # "asleep" /\ pc' # pc
    BY <1>0, <1>1, <2>1, <2>3
    DEF Protocol, Between, ReadTurn, WriteTurn, NoInterrupt, OneInterrupt, Waiting, SectorWritten
  <2> QED
    BY <2>1, <2>2, <2>3
<1>11. CASE HdTimeout
  BY <1>2, <1>11 DEF HdTimeout
<1>12. CASE hd_handler
  BY <1>0, <1>1, <1>12
  DEF hd_handler, Protocol, Between, NoInterrupt, ReadTurn, WriteTurn, Waiting, OneInterrupt,
      SectorWritten
<1>13. CASE DevicePrepared
  <2>1. /\ device'.cmd = device.cmd /\ device'.todo = device.todo /\ device'.status = "drq"
        /\ UNCHANGED <<pc, bytes_left, has_int_msg, irq>> /\ device.status = "prepare"
    BY <1>0, <1>13 DEF DevicePrepared
  <2> QED
    BY <1>0, <1>1, <2>1
    DEF Protocol, Between, NoInterrupt, ReadTurn, WriteTurn, Waiting, OneInterrupt, SectorWritten
<1>14. CASE DeviceDone
  <2>1. /\ UNCHANGED <<pc, bytes_left, has_int_msg>> /\ device.status = "busy" /\ irq' = TRUE
    BY <1>14 DEF DeviceDone
  <2>2. CASE device.cmd = "READ"
    <3>1. device'.cmd = device.cmd /\ device'.todo = device.todo /\ device'.status = "drq"
      BY <1>0, <1>14, <2>2 DEF DeviceDone
    <3> QED
      BY <1>0, <1>1, <2>1, <2>2, <3>1
      DEF Protocol, Between, NoInterrupt, ReadTurn, Waiting, OneInterrupt
  <2>3. CASE device.cmd = "WRITE"
    <3>1. /\ device'.cmd = device.cmd /\ device'.todo = device.todo - 1
          /\ device'.status = IF device.todo = 1 THEN "idle" ELSE "drq"
      BY <1>0, <1>14, <2>3 DEF DeviceDone, SectorDone
    <3> QED
      BY <1>0, <1>1, <2>1, <2>3, <3>1
      DEF Protocol, Between, NoInterrupt, WriteTurn, Waiting, OneInterrupt, SectorWritten
  <2> QED
    BY <1>1, <2>2, <2>3
<1>15. CASE UNCHANGED vars
  BY <1>2, <1>15 DEF vars
<1> QED
  BY <1>3, <1>4, <1>5, <1>6, <1>7, <1>8, <1>9, <1>10, <1>11, <1>12, <1>13, <1>14, <1>15,
     <1>16, <1>17
  DEF Next, TaskHd

(* Driver and controller agree, when requests fit the controller's count.   *)
THEOREM ProtocolKept ==
    ASSUME CountFits
    PROVE  Spec => []Protocol
<1>1. IInv /\ IInv' /\ Protocol /\ [Next]_vars => Protocol'
  BY ProtocolStep
<1> QED
  BY <1>1, ProtocolInit, Invariant, PTL DEF Spec

(* port_read finds the data of its sector in the controller.                *)
THEOREM DataIsReady ==
    ASSUME CountFits
    PROVE  Spec => []DataReady
<1>1. Protocol => DataReady
  BY DEF Protocol, DataReady, Between, ReadTurn
<1> QED
  BY <1>1, ProtocolKept, PTL

(* A request leaves no interrupt behind that task_hd would spin on.         *)
THEOREM QuietWhenIdle ==
    ASSUME CountFits
    PROVE  Spec => []IdleIsQuiet
<1>1. Protocol => IdleIsQuiet
  BY DEF Protocol, IdleIsQuiet, Between, NoInterrupt
<1> QED
  BY <1>1, ProtocolKept, PTL
=============================================================================
