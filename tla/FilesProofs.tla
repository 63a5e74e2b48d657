----------------------------- MODULE FilesProofs -----------------------------
(***************************************************************************)
(* Proofs about Files, for every number of processes, files, descriptors,  *)
(* slots and inodes, and every device that the assumption of Files allows: *)
(* the counts of shared descriptors and inodes, the inode cache, the       *)
(* directory and the two maps of the disk.                                 *)
(***************************************************************************)
EXTENDS Files, SetFacts, TLAPS

(* The parts of TypeOK.                                                     *)
DescTypes ==
    /\ alive \subseteq Proc
    /\ fork = <<>> \/ fork \in Proc \X Proc
    /\ filp \in [Proc -> [Fd -> Desc \cup {0}]]
    /\ f_desc_table \in [Desc -> [fd_inode : Slot \cup {0}, fd_cnt : Nat]]
    /\ opened \in [Desc -> Inode \cup {0}]

CacheTypes ==
    inode_table \in [Slot -> [i_num : Inode \cup {0}, i_cnt : Nat,
                              i_mode : {"none", "dir", "char", "regular"},
                              i_start : Start \cup {0}]]

DiskTypes ==
    /\ dinode \in [Inode -> [i_mode : {"none", "dir", "char", "regular"},
                             i_start : Start \cup {0}]]
    /\ imap \subseteq Inode
    /\ smap \subseteq Bit
    /\ logged \in BOOLEAN

DirTypes ==
    /\ dir \in [Entry -> [inode_nr : Inode \cup {0}, name : Path \cup {""}]]
    /\ i_size \in 0 .. NR_ENTRIES
    /\ writes \in 0 .. MaxWrites /\ cut \in BOOLEAN

(* Where the machine stops.  Not at main.c:350 (put_inode of an inode that  *)
(* is not in use) and not at link.c:58 (a file whose inode or sectors are   *)
(* free in the maps); at open.c:105 (an open inode without a mode) only     *)
(* after a process has written into the directory, and at link.c:134 (a     *)
(* file without an entry) only after that or a size that was cut.           *)
HaltInv ==
    /\ halted \in {"no", "open.c:44", "open.c:52", "open.c:105", "open.c:211", "open.c:225",
                   "main.c:322", "link.c:134", "disklog.c:52"}
    /\ halted = "open.c:105" => writes # 0
    /\ halted = "link.c:134" => writes # 0 \/ cut

(* While do_fork waits for task_fs the child has its parent's descriptors;  *)
(* entries that were never used have none.                                  *)
Forking ==
    /\ fork # <<>> => /\ fork[1] \in alive /\ fork[2] \in Proc \ alive
                      /\ filp[fork[2]] = filp[fork[1]]
    /\ \A p \in Proc \ alive :
          (fork # <<>> /\ p = fork[2]) \/ \A f \in Fd : filp[p][f] = 0

DescInv == DescTypes /\ Forking /\ FdCountExact

(* A descriptor in use leads to the inode it was opened for, and i_cnt      *)
(* covers the users of the slot.                                            *)
Backed(d) ==
    LET inode == inode_table[f_desc_table[d].fd_inode]
    IN  inode.i_num = opened[d] /\ inode.i_mode # "none" /\ inode.i_num \in imap

SlotsBacked ==
    halted = "no" =>
        /\ \A d \in Desc : Live(d) => Backed(d)
        /\ \A s \in Slot : inode_table[s].i_cnt >= UsersOf(s)

(* What is cached has an inode on the disk: not always one that is in use,  *)
(* after a refused unlink of an entry that a process has written.           *)
CachedIsInode ==
    halted = "no" =>
        \A s \in Slot : inode_table[s].i_cnt > 0 => inode_table[s].i_num \in Inode

CacheInv == CacheTypes /\ SlotsBacked /\ CachedIsInode /\ CacheCoherent

(* What is allocated is in use, and the root directory is.                  *)
InodesAgree ==
    halted = "no" =>
        /\ imap = {n \in Inode : dinode[n].i_mode # "none"}
        /\ dinode[ROOT_INODE].i_mode = "dir"

DirInv == DirTypes /\ EntriesMeanFiles

Extent(n) == BitsOf(dinode[n].i_start)
LogBits == nr_sects - NR_DEFAULT_FILE_SECTS .. nr_sects - 1
RootBits == 0 .. NR_DEFAULT_FILE_SECTS

(* No sector belongs to two files, or to a file and the directory or log.   *)
ExtentsApart ==
    halted = "no" =>
        /\ \A n \in Regular :
              /\ Extent(n) \cap RootBits = {}
              /\ logged => Extent(n) \cap LogBits = {}
              /\ \A m \in Regular : m # n => Extent(n) \cap Extent(m) = {}
        /\ logged => LogBits \cap RootBits = {}

DiskInv == DiskTypes /\ InodesAgree /\ ExtentsApart /\ MapsAgree

IInv == DescInv /\ CacheInv /\ DirInv /\ DiskInv /\ HaltInv

-----------------------------------------------------------------------------
(* Descriptors and their users *)

(* The counts of the descriptors.                                           *)
Cnt == [d \in Desc |-> f_desc_table[d].fd_cnt]

(* The sizes of the tables and of the device are natural numbers.           *)
LEMMA Sizes ==
    /\ NR_PROCS \in Nat /\ NR_FILES \in Nat /\ NR_FILE_DESC \in Nat /\ NR_INODE \in Nat
    /\ NR_REGULAR \in Nat /\ NR_DEFAULT_FILE_SECTS \in Nat \ {0}
    /\ n_1st_sect \in Nat \ {0} /\ nr_sects \in Nat /\ SECTOR_BITS \in Nat \ {0}
    /\ nr_sects > n_1st_sect + 2 * NR_DEFAULT_FILE_SECTS
BY FilesAssumption

(* So are the size of the directory and the number of writes to it.         *)
LEMMA EntrySizes ==
    /\ NR_REGULAR \in Nat /\ NR_ENTRIES \in Nat /\ NR_ENTRIES >= NR_REGULAR + 2
    /\ MaxWrites \in Nat
BY FilesAssumption

(* The tables are finite.                                                   *)
LEMMA DescFinite == IsFiniteSet(Desc) /\ IsFiniteSet(Fd) /\ IsFiniteSet(Proc) /\ IsFiniteSet(Slot)
<1>1. \A n \in Nat : IsFiniteSet(1 .. n)
  BY FS_Interval
<1> QED
  BY <1>1, Sizes DEF Desc, Fd, Proc, Slot

(* So is every set of files of processes.                                   *)
LEMMA PairsFinite ==
    ASSUME NEW A, A \subseteq Proc, NEW T, T \subseteq A \X Fd
    PROVE  IsFiniteSet(T) /\ Cardinality(T) \in Nat
<1>1. IsFiniteSet(A)
  BY DescFinite, FS_Subset
<1>2. IsFiniteSet(A \X Fd)
  BY <1>1, DescFinite, FS_Product
<1> QED
  BY <1>2, FS_Subset, FS_CardinalityType

(* Counts are natural numbers.                                              *)
LEMMA CntType == DescTypes => \A d \in Desc : Cnt[d] \in Nat /\ Cnt[d] = f_desc_table[d].fd_cnt
BY DEF DescTypes, Cnt

(* Total is the sum of SetFacts.                                            *)
LEMMA TotalIsSum == \A c, S : Total(c, S) = SumOf(c, S)
BY DEF Total, SumOf

(* UsersOf adds up the counts of the descriptors that share a slot.         *)
LEMMA UsersOfIsSum == \A s : UsersOf(s) = SumOf(Cnt, DescsOf(s))
BY TotalIsSum DEF UsersOf, Cnt

(* UsersOf is a natural number.                                             *)
LEMMA UsersOfType ==
    ASSUME DescTypes, NEW t
    PROVE  UsersOf(t) \in Nat
<1>1. UsersOf(t) = SumOf(Cnt, DescsOf(t)) /\ DescsOf(t) \subseteq Desc
  BY UsersOfIsSum DEF DescsOf
<1>2. IsFiniteSet(DescsOf(t)) /\ \A x \in DescsOf(t) : Cnt[x] \in Nat
  BY <1>1, DescFinite, FS_Subset, CntType
<1> QED
  BY <1>1, <1>2, SumType

(* A descriptor in use has a user, and one that is not in use has none.     *)
LEMMA LiveIsUsed ==
    ASSUME DescInv, NEW d \in Desc
    PROVE  /\ Live(d) <=> Users(d) # {}
           /\ ~Live(d) => f_desc_table[d].fd_cnt = 0
           /\ Live(d) => f_desc_table[d].fd_inode \in Slot
<1>1. IsFiniteSet(Users(d)) /\ Cardinality(Users(d)) \in Nat
  BY PairsFinite DEF Users, DescInv, DescTypes
<1>2. /\ f_desc_table[d].fd_cnt \in Nat
      /\ f_desc_table[d].fd_inode \in Slot \cup {0}
  BY DEF DescInv, DescTypes
<1>3. /\ f_desc_table[d].fd_cnt = Cardinality(Users(d))
      /\ Live(d) <=> f_desc_table[d].fd_cnt > 0
  BY DEF DescInv, FdCountExact
<1>4. Cardinality(Users(d)) = 0 <=> Users(d) = {}
  BY <1>1, FS_EmptySet
<1>5. Live(d) => f_desc_table[d].fd_inode \in Slot
  BY <1>2 DEF Live
<1> QED
  BY <1>1, <1>2, <1>3, <1>4, <1>5

(* The first conjunct of OpenFileStays.                                     *)
LEMMA FilpIsLive ==
    ASSUME DescInv, NEW p \in Proc, NEW f \in Fd, filp[p][f] # 0
    PROVE  filp[p][f] \in Desc /\ Live(filp[p][f])
<1>1. PICK d : d = filp[p][f]
  OBVIOUS
<1>2. d \in Desc
  BY <1>1 DEF DescInv, DescTypes
<1>3. PICK q \in alive : filp[q][f] = d
  BY <1>1 DEF DescInv, Forking
<1>4. <<q, f>> \in Users(d)
  BY <1>3 DEF Users
<1> QED
  BY <1>1, <1>2, <1>4, LiveIsUsed

(***************************************************************************)
(* do_open: a new descriptor d with one user.                              *)
(***************************************************************************)
LEMMA NewDesc ==
    ASSUME DescInv, NEW p \in Proc, Calling(p), FreeFds(p) # {}, FreeDescs # {},
           NEW s \in Slot, NEW n \in Inode, OpenDesc(p, s, n), UNCHANGED <<alive, fork>>
    PROVE  /\ DescInv'
           /\ \A t \in Slot : UsersOf(t)' = IF t = s THEN UsersOf(t) + 1 ELSE UsersOf(t)
<1>0. DescTypes /\ Forking /\ FdCountExact /\ p \in alive
  BY DEF DescInv, Calling
<1>1. PICK d \in Desc : d = Min(FreeDescs) /\ f_desc_table[d].fd_inode = 0
  <2>1. FreeDescs \subseteq Nat
    BY Sizes DEF FreeDescs, Desc
  <2>2. Min(FreeDescs) \in FreeDescs
    BY <2>1, MinIsLeast
  <2> QED
    BY <2>2 DEF FreeDescs
<1>2. PICK f \in Fd : f = Min(FreeFds(p)) /\ filp[p][f] = 0
  <2>1. FreeFds(p) \subseteq Nat
    BY Sizes DEF FreeFds, Fd
  <2>2. Min(FreeFds(p)) \in FreeFds(p)
    BY <2>1, MinIsLeast
  <2> QED
    BY <2>2 DEF FreeFds
<1>3. /\ filp' = [filp EXCEPT ![p][f] = d]
      /\ f_desc_table' = [f_desc_table EXCEPT ![d] = [fd_inode |-> s, fd_cnt |-> 1]]
      /\ opened' = [opened EXCEPT ![d] = n]
      /\ alive' = alive /\ fork' = fork
  BY <1>1, <1>2 DEF OpenDesc
<1>4. s # 0 /\ d # 0 /\ 1 \in Nat
  BY Sizes DEF Slot, Desc
<1>5. DescTypes'
  <2>1. filp' \in [Proc -> [Fd -> Desc \cup {0}]]
    BY <1>0, <1>3 DEF DescTypes
  <2>2. f_desc_table' \in [Desc -> [fd_inode : Slot \cup {0}, fd_cnt : Nat]]
    BY <1>0, <1>3 DEF DescTypes
  <2>3. opened' \in [Desc -> Inode \cup {0}]
    BY <1>0, <1>3 DEF DescTypes
  <2> QED
    BY <1>0, <1>3, <2>1, <2>2, <2>3 DEF DescTypes
<1>6. \A q \in Proc : q # p => filp'[q] = filp[q]
  BY <1>0, <1>3 DEF DescTypes
<1>7. Forking'
  <2>1. fork # <<>> => p # fork[1] /\ p # fork[2]
    BY <1>0 DEF Calling, Forking
  <2>2. fork # <<>> => fork[1] \in Proc
    BY <1>0 DEF DescTypes, Forking
  <2> QED
    BY <1>0, <1>3, <1>6, <2>1, <2>2 DEF Forking
<1>8. ~Live(d) /\ Users(d) = {}
  BY <1>1, LiveIsUsed DEF Live
<1>9. \A q \in Proc, g \in Fd : filp'[q][g] = IF q = p /\ g = f THEN d ELSE filp[q][g]
  BY <1>0, <1>3 DEF DescTypes
<1>10. Users(d)' = {<<p, f>>}
  BY <1>0, <1>3, <1>8, <1>9 DEF Users, DescTypes
<1>11. \A e \in Desc : e # d => Users(e)' = Users(e)
  BY <1>0, <1>2, <1>3, <1>4, <1>9 DEF Users, DescTypes, Desc
<1>12. \A e \in Desc : f_desc_table'[e] = IF e = d THEN [fd_inode |-> s, fd_cnt |-> 1]
                                           ELSE f_desc_table[e]
  BY <1>0, <1>3 DEF DescTypes
<1>13. FdCountExact'
  <2>1. Cardinality({<<p, f>>}) = 1
    BY FS_Singleton
  <2>2. ASSUME NEW e \in Desc
        PROVE  /\ f_desc_table'[e].fd_cnt = Cardinality(Users(e)')
               /\ (f_desc_table'[e].fd_inode # 0) <=> f_desc_table'[e].fd_cnt > 0
    BY <1>0, <1>4, <1>10, <1>11, <1>12, <2>1 DEF FdCountExact, Live
  <2> QED
    BY <2>2 DEF FdCountExact, Live
<1>14. ASSUME NEW t \in Slot
       PROVE  UsersOf(t)' = IF t = s THEN UsersOf(t) + 1 ELSE UsersOf(t)
  <2> DEFINE S == DescsOf(t)
             T == {e \in Desc : f_desc_table'[e].fd_inode = t}
             c == [e \in Desc |-> f_desc_table'[e].fd_cnt]
  <2>1. S \subseteq Desc /\ T \subseteq Desc
    BY DEF DescsOf
  <2>2. \A x \in Desc : Cnt[x] \in Nat /\ c[x] \in Nat
    BY <1>0, <1>5, CntType DEF DescTypes
  <2>3. \A x \in Desc : x # d => c[x] = Cnt[x] /\ (x \in S <=> x \in T)
    BY <1>12 DEF Cnt, DescsOf
  <2>4. d \notin S /\ (d \in T <=> t = s) /\ c[d] = 1
    <3>1. t # 0
      BY Sizes DEF Slot
    <3> QED
      BY <1>1, <1>12, <3>1 DEF DescsOf
  <2>5. UsersOf(t) = SumOf(Cnt, S) /\ UsersOf(t)' = SumOf(c, T)
    <3>1. UsersOf(t) = SumOf(Cnt, S)
      BY UsersOfIsSum
    <3>2. UsersOf(t)' = SumOf(c, T)
      BY TotalIsSum DEF UsersOf, DescsOf
    <3> QED
      BY <3>1, <3>2
  <2>6. SumOf(Cnt, S) \in Nat /\ SumOf(c, T) \in Nat
    BY <2>1, <2>2, DescFinite, FS_Subset, SumType
  <2> HIDE DEF S, T, c
  <2>7. SumOf(c, T) + (IF d \in S THEN Cnt[d] ELSE 0)
               = SumOf(Cnt, S) + (IF d \in T THEN c[d] ELSE 0)
    BY <2>1, <2>2, <2>3, DescFinite, SumUpdate, SMTT(30)
  <2> QED
    BY <2>4, <2>5, <2>6, <2>7
<1> QED
  BY <1>5, <1>7, <1>13, <1>14 DEF DescInv

(* A step that does not touch the descriptors.                              *)
LEMMA SameDescs ==
    ASSUME DescInv, UNCHANGED <<alive, fork, filp, f_desc_table, opened>>
    PROVE  DescInv' /\ \A t : UsersOf(t)' = UsersOf(t)
<1>1. DescTypes'
  BY DEF DescInv, DescTypes
<1>2. Forking'
  BY DEF DescInv, Forking
<1>3. \A d : Users(d)' = Users(d)
  BY DEF Users
<1>4. FdCountExact'
  BY <1>3 DEF DescInv, FdCountExact, Live
<1>5. \A t : UsersOf(t)' = UsersOf(t)
  BY DEF UsersOf, DescsOf
<1> QED
  BY <1>1, <1>2, <1>4, <1>5 DEF DescInv

(***************************************************************************)
(* do_close: one user less, and a free descriptor if it was the last.      *)
(***************************************************************************)
LEMMA DroppedDesc ==
    ASSUME DescInv, NEW p \in Proc, NEW f \in Fd, Calling(p), NEW d, filp[p][f] = d, d # 0,
           f_desc_table' = DropDesc(d), filp' = [filp EXCEPT ![p][f] = 0],
           opened' = [opened EXCEPT ![d] = IF f_desc_table[d].fd_cnt = 1 THEN 0 ELSE @],
           UNCHANGED <<alive, fork>>
    PROVE  /\ DescInv'
           /\ \A t \in Slot : UsersOf(t)' = IF t = f_desc_table[d].fd_inode
                                            THEN UsersOf(t) - 1 ELSE UsersOf(t)
<1>0. DescTypes /\ Forking /\ FdCountExact /\ p \in alive /\ d \in Desc /\ Live(d)
  BY FilpIsLive DEF DescInv, Calling
<1>1. PICK k \in Nat : k = f_desc_table[d].fd_cnt /\ k > 0
  BY <1>0 DEF FdCountExact, DescTypes
<1>2. \A e \in Desc : f_desc_table'[e] =
          IF e = d THEN [fd_inode |-> IF k = 1 THEN 0 ELSE f_desc_table[d].fd_inode,
                         fd_cnt |-> k - 1]
          ELSE f_desc_table[e]
  BY <1>0, <1>1 DEF DropDesc, DescTypes
<1>3. k - 1 \in Nat /\ f_desc_table[d].fd_inode \in Slot /\ f_desc_table[d].fd_inode # 0
  BY <1>0, <1>1 DEF DescTypes, Live
<1>5. DescTypes'
  <2>1. filp' \in [Proc -> [Fd -> Desc \cup {0}]]
    BY <1>0 DEF DescTypes
  <2>2. f_desc_table' \in [Desc -> [fd_inode : Slot \cup {0}, fd_cnt : Nat]]
    <3>1. \A e \in Desc : f_desc_table'[e] \in [fd_inode : Slot \cup {0}, fd_cnt : Nat]
      BY <1>0, <1>2, <1>3 DEF DescTypes
    <3>2. f_desc_table' = [e \in Desc |-> f_desc_table'[e]]
      BY <1>0 DEF DropDesc, DescTypes
    <3> QED
      BY <3>1, <3>2
  <2>3. opened' \in [Desc -> Inode \cup {0}]
    BY <1>0 DEF DescTypes
  <2> QED
    BY <1>0, <2>1, <2>2, <2>3 DEF DescTypes
<1>6. \A q \in Proc : q # p => filp'[q] = filp[q]
  BY <1>0 DEF DescTypes
<1>7. Forking'
  <2>1. fork # <<>> => p # fork[1] /\ p # fork[2]
    BY <1>0 DEF Calling, Forking
  <2>2. fork # <<>> => fork[1] \in Proc
    BY <1>0 DEF DescTypes, Forking
  <2> QED
    BY <1>0, <1>6, <2>1, <2>2 DEF Forking
<1>9. \A q \in Proc, g \in Fd : filp'[q][g] = IF q = p /\ g = f THEN 0 ELSE filp[q][g]
  BY <1>0 DEF DescTypes
<1>10. Users(d)' = Users(d) \ {<<p, f>>} /\ <<p, f>> \in Users(d)
  BY <1>0, <1>9 DEF Users, DescTypes
<1>11. \A e \in Desc : e # d => Users(e)' = Users(e)
  <2>1. \A e \in Desc : e # 0
    BY Sizes DEF Desc
  <2> QED
    BY <1>0, <2>1, <1>9 DEF Users, DescTypes
<1>13. FdCountExact'
  <2>1. Cardinality(Users(d)') = k - 1
    <3>1. IsFiniteSet(Users(d)) /\ Cardinality(Users(d)) = k
      BY <1>0, <1>1, PairsFinite DEF Users, DescTypes, FdCountExact
    <3>2. PICK U : U = Users(d)
      OBVIOUS
    <3>3. PICK u : u = <<p, f>>
      OBVIOUS
    <3>4. Cardinality(U \ {u}) = k - 1
      BY <1>10, <3>1, <3>2, <3>3, FS_RemoveElement
    <3> QED
      BY <1>10, <3>2, <3>3, <3>4
  <2>2. ASSUME NEW e \in Desc
        PROVE  /\ f_desc_table'[e].fd_cnt = Cardinality(Users(e)')
               /\ (f_desc_table'[e].fd_inode # 0) <=> f_desc_table'[e].fd_cnt > 0
    BY <1>0, <1>1, <1>3, <1>11, <1>2, <2>1 DEF FdCountExact, Live
  <2> QED
    BY <2>2 DEF FdCountExact, Live
<1>14. ASSUME NEW t \in Slot
       PROVE  UsersOf(t)' = IF t = f_desc_table[d].fd_inode THEN UsersOf(t) - 1 ELSE UsersOf(t)
  <2> DEFINE S == DescsOf(t)
             T == {e \in Desc : f_desc_table'[e].fd_inode = t}
             c == [e \in Desc |-> f_desc_table'[e].fd_cnt]
  <2>1. S \subseteq Desc /\ T \subseteq Desc
    BY DEF DescsOf
  <2>2. \A x \in Desc : Cnt[x] \in Nat /\ c[x] \in Nat
    BY <1>0, <1>5, CntType DEF DescTypes
  <2>3. \A x \in Desc : x # d => c[x] = Cnt[x] /\ (x \in S <=> x \in T)
    BY <1>2 DEF Cnt, DescsOf
  <2>4. /\ d \in S <=> t = f_desc_table[d].fd_inode
        /\ d \in T <=> (t = f_desc_table[d].fd_inode /\ k # 1)
        /\ c[d] = k - 1 /\ Cnt[d] = k
    <3>1. t # 0
      BY Sizes DEF Slot
    <3> QED
      BY <1>0, <1>1, <1>2, <3>1 DEF DescsOf, Cnt
  <2>5. UsersOf(t) = SumOf(Cnt, S) /\ UsersOf(t)' = SumOf(c, T)
    <3>1. UsersOf(t) = SumOf(Cnt, S)
      BY UsersOfIsSum
    <3>2. UsersOf(t)' = SumOf(c, T)
      BY TotalIsSum DEF UsersOf, DescsOf
    <3> QED
      BY <3>1, <3>2
  <2>6. SumOf(Cnt, S) \in Nat /\ SumOf(c, T) \in Nat
    BY <2>1, <2>2, DescFinite, FS_Subset, SumType
  <2> HIDE DEF S, T, c
  <2>7. SumOf(c, T) + (IF d \in S THEN Cnt[d] ELSE 0)
               = SumOf(Cnt, S) + (IF d \in T THEN c[d] ELSE 0)
    BY <2>1, <2>2, <2>3, DescFinite, SumUpdate, SMTT(30)
  <2> QED
    BY <1>1, <2>4, <2>5, <2>6, <2>7
<1> QED
  BY <1>5, <1>7, <1>13, <1>14 DEF DescInv

(* do_fork in task_mm: the child's copies are not counted yet.              *)
LEMMA CopiedDescs ==
    ASSUME DescInv, NEW p \in Proc, ForkCopies(p)
    PROVE  DescInv' /\ \A t : UsersOf(t)' = UsersOf(t)
<1>0. DescTypes /\ Forking /\ FdCountExact /\ p \in alive /\ fork = <<>>
  BY DEF DescInv, Calling, ForkCopies
<1>1. PICK c \in Proc \ alive : c = Min(Proc \ alive)
  <2>1. Proc \ alive \subseteq Nat
    BY Sizes DEF Proc
  <2>2. Proc \ alive # {}
    BY DEF ForkCopies
  <2> QED
    BY <2>1, <2>2, MinIsLeast
<1>2. /\ fork' = <<p, c>> /\ filp' = [filp EXCEPT ![c] = filp[p]]
      /\ alive' = alive /\ f_desc_table' = f_desc_table /\ opened' = opened
  BY <1>1 DEF ForkCopies
<1>3. DescTypes'
  BY <1>0, <1>1, <1>2 DEF DescTypes
<1>4. Forking'
  BY <1>0, <1>1, <1>2 DEF Forking, DescTypes
<1>5. \A d : Users(d)' = Users(d)
  BY <1>0, <1>1, <1>2 DEF Users, DescTypes
<1>6. FdCountExact'
  BY <1>0, <1>2, <1>5 DEF FdCountExact, Live
<1>7. \A t : UsersOf(t)' = UsersOf(t)
  BY <1>2 DEF UsersOf, DescsOf
<1> QED
  BY <1>3, <1>4, <1>6, <1>7 DEF DescInv

(***************************************************************************)
(* fs_fork: the child becomes a user of all the descriptors that it has    *)
(* from its parent.                                                        *)
(***************************************************************************)
LEMMA CountedDescs ==
    ASSUME DescInv, NEW c \in Proc \ alive,
           \A p \in Proc \ alive : p = c \/ \A f \in Fd : filp[p][f] = 0,
           f_desc_table' = ShareDescs(c), alive' = alive \cup {c}, fork' = <<>>,
           filp' = filp, opened' = opened
    PROVE  /\ DescInv'
           /\ \A t \in Slot : UsesOfSlot(c, t) \in Nat
                              /\ UsersOf(t)' = UsersOf(t) + UsesOfSlot(c, t)
<1>0. DescTypes /\ Forking /\ FdCountExact
  BY DEF DescInv
<1>1. alive' = alive \cup {c} /\ fork' = <<>> /\ filp' = filp /\ opened' = opened
  OBVIOUS
<1>2. \A d \in Desc : Uses(c, d) \in Nat
  <2>1. \A d \in Desc : {f \in Fd : filp[c][f] = d} \in SUBSET Fd
    OBVIOUS
  <2>2. \A T \in SUBSET Fd : Cardinality(T) \in Nat
    BY DescFinite, FS_Subset, FS_CardinalityType
  <2> QED
    BY <2>1, <2>2 DEF Uses
<1>3. \A d \in Desc : f_desc_table[d].fd_cnt \in Nat /\ f_desc_table[d].fd_inode \in Slot \cup {0}
  BY <1>0 DEF DescTypes
<1>10. ASSUME NEW d \in Desc
       PROVE  /\ f_desc_table'[d].fd_inode = f_desc_table[d].fd_inode
              /\ f_desc_table'[d].fd_cnt = f_desc_table[d].fd_cnt + Uses(c, d)
              /\ f_desc_table'[d] \in [fd_inode : Slot \cup {0}, fd_cnt : Nat]
  <2>1. PICK k \in Nat : k = f_desc_table[d].fd_cnt + Uses(c, d)
    <3>1. \A a \in Nat, b \in Nat : a + b \in Nat
      OBVIOUS
    <3> QED
      BY <1>2, <1>3, <3>1
  <2>2. f_desc_table'[d] = [f_desc_table[d] EXCEPT !.fd_cnt = k]
    BY <2>1 DEF ShareDescs
  <2>3. f_desc_table[d] \in [fd_inode : Slot \cup {0}, fd_cnt : Nat]
    BY <1>0 DEF DescTypes
  <2>4. /\ f_desc_table'[d].fd_inode = f_desc_table[d].fd_inode
        /\ f_desc_table'[d].fd_cnt = k
        /\ f_desc_table'[d] \in [fd_inode : Slot \cup {0}, fd_cnt : Nat]
    BY <2>2, <2>3
  <2> QED
    BY <2>1, <2>4
<1>11. \A d \in Desc : /\ f_desc_table'[d].fd_inode = f_desc_table[d].fd_inode
                       /\ f_desc_table'[d].fd_cnt = f_desc_table[d].fd_cnt + Uses(c, d)
  BY <1>10
<1>4. DescTypes'
  <2>1. f_desc_table' \in [Desc -> [fd_inode : Slot \cup {0}, fd_cnt : Nat]]
    <3>1. f_desc_table' = [d \in Desc |-> f_desc_table'[d]]
      BY DEF ShareDescs
    <3> QED
      BY <1>10, <3>1
  <2> QED
    BY <1>0, <1>1, <2>1 DEF DescTypes
<1>5. Forking'
  BY <1>0, <1>1 DEF Forking
<1>6. ASSUME NEW d \in Desc
      PROVE  Cardinality(Users(d)') = Cardinality(Users(d)) + Uses(c, d)
  <2> DEFINE F == {f \in Fd : filp[c][f] = d}
             P == {c} \X F
  <2>1. Users(d)' = Users(d) \cup P
    BY <1>0, <1>1 DEF Users
  <2>2. Users(d) \cap P = {}
    BY <1>0 DEF Users
  <2>3. IsFiniteSet(Users(d))
    BY <1>0, PairsFinite DEF Users, DescTypes
  <2>4. IsFiniteSet(P) /\ Cardinality(P) = Cardinality(F)
    <3>1. IsFiniteSet(F) /\ Cardinality(F) \in Nat
      BY DescFinite, FS_Subset, FS_CardinalityType
    <3>2. IsFiniteSet({c}) /\ Cardinality({c}) = 1
      BY FS_Singleton
    <3> HIDE DEF F
    <3>3. IsFiniteSet(P) /\ Cardinality(P) = Cardinality({c}) * Cardinality(F)
      BY <3>1, <3>2, FS_Product
    <3> HIDE DEF P
    <3> QED
      BY <3>1, <3>2, <3>3
  <2>5. Uses(c, d) = Cardinality(F)
    BY DEF Uses
  <2> HIDE DEF F, P
  <2> QED
    BY <2>1, <2>2, <2>3, <2>4, <2>5, DisjointUnion
<1>7. ASSUME NEW d \in Desc, ~Live(d)
      PROVE  Uses(c, d) = 0
  <2>1. \A f \in Fd : filp[c][f] # d
    <3>1. d # 0
      BY Sizes DEF Desc
    <3> QED
      BY <1>0, <1>7, <3>1, FilpIsLive
  <2>2. {f \in Fd : filp[c][f] = d} = {}
    BY <2>1
  <2> QED
    BY <2>2, FS_EmptySet DEF Uses
<1>8. FdCountExact'
  <2>2. ASSUME NEW d \in Desc
        PROVE  /\ f_desc_table'[d].fd_cnt = Cardinality(Users(d)')
               /\ (f_desc_table'[d].fd_inode # 0) <=> f_desc_table'[d].fd_cnt > 0
    <3>1. f_desc_table[d].fd_cnt \in Nat
      BY <1>0 DEF DescTypes
    <3> QED
      BY <1>0, <1>2, <1>11, <1>6, <1>7, <3>1 DEF FdCountExact, Live
  <2> QED
    BY <2>2 DEF FdCountExact, Live
<1>9. ASSUME NEW t \in Slot
      PROVE  UsesOfSlot(c, t) \in Nat /\ UsersOf(t)' = UsersOf(t) + UsesOfSlot(c, t)
  <2> DEFINE S == DescsOf(t)
             g == [d \in Desc |-> f_desc_table'[d].fd_cnt]
             u == [d \in Desc |-> Uses(c, d)]
             w == filp[c]
             I == Into(Fd, w, S)
  <2>1. S \subseteq Desc /\ IsFiniteSet(S)
    BY DescFinite, FS_Subset DEF DescsOf
  <2>2. \A d \in S : Cnt[d] \in Nat /\ u[d] \in Nat /\ g[d] = Cnt[d] + u[d]
    BY <1>0, <1>2, <1>11, <2>1, CntType
  <2>3. UsersOf(t) = SumOf(Cnt, S)
    BY UsersOfIsSum
  <2>4. UsersOf(t)' = SumOf(g, S)
    <3>1. DescsOf(t)' = S
      BY <1>11 DEF DescsOf
    <3> QED
      BY <3>1, TotalIsSum DEF UsersOf
  <2>5. \A d \in S : u[d] = Cardinality(Into(Fd, w, {d}))
    <3>1. \A d \in Desc : Into(Fd, w, {d}) = {f \in Fd : filp[c][f] = d}
      BY DEF Into
    <3> QED
      BY <2>1, <3>1 DEF Uses
  <2>6. UsesOfSlot(c, t) = Cardinality(I)
    <3>1. \A f \in Fd : w[f] \in S <=> (filp[c][f] # 0 /\ f_desc_table[filp[c][f]].fd_inode = t)
      <4>1. \A f \in Fd : filp[c][f] \in Desc \cup {0}
        BY <1>0 DEF DescTypes
      <4>2. 0 \notin Desc
        BY Sizes DEF Desc
      <4> QED
        BY <4>1, <4>2 DEF DescsOf
    <3>2. I = {f \in Fd : filp[c][f] # 0 /\ f_desc_table[filp[c][f]].fd_inode = t}
      BY <3>1 DEF Into
    <3> QED
      BY <3>2 DEF UsesOfSlot
  <2>7. Cardinality(I) \in Nat
    <3>1. I \in SUBSET Fd
      BY DEF Into
    <3> HIDE DEF I
    <3> QED
      BY <3>1, DescFinite, FS_Subset, FS_CardinalityType
  <2>8. SumOf(u, S) = Cardinality(I)
    <3> HIDE DEF S, u, w
    <3>1. IsFiniteSet(Fd)
      BY DescFinite
    <3> QED
      BY <2>1, <2>5, <3>1, SumOfFibres
  <2> HIDE DEF S, g, u, w
  <2>9. SumOf(g, S) = SumOf(Cnt, S) + SumOf(u, S)
    BY <2>1, <2>2, SumAdd
  <2> HIDE DEF I
  <2> QED
    BY <2>3, <2>4, <2>6, <2>7, <2>8, <2>9
<1> QED
  BY <1>4, <1>5, <1>8, <1>9 DEF DescInv

-----------------------------------------------------------------------------
(* The cache of inodes *)

(* The slot of a descriptor in use is in use.                               *)
LEMMA LiveIsCached ==
    ASSUME DescInv, CacheInv, halted = "no", NEW d \in Desc, Live(d)
    PROVE  /\ f_desc_table[d].fd_inode \in Slot
           /\ inode_table[f_desc_table[d].fd_inode].i_cnt > 0
<1>1. PICK s \in Slot : s = f_desc_table[d].fd_inode
  BY LiveIsUsed
<1> DEFINE S == DescsOf(s)
<1>2. d \in S /\ IsFiniteSet(S) /\ IsFiniteSet(S \ {d}) /\ S \subseteq Desc
  BY <1>1, DescFinite, FS_Subset DEF DescsOf
<1>3. \A x \in S : Cnt[x] \in Nat
  BY <1>2, CntType DEF DescInv
<1>4. Cnt[d] \in Nat /\ Cnt[d] > 0
  BY CntType DEF DescInv, FdCountExact
<1>5. UsersOf(s) = SumOf(Cnt, S) /\ inode_table[s].i_cnt >= UsersOf(s)
  BY UsersOfIsSum DEF CacheInv, SlotsBacked
<1> HIDE DEF S
<1>6. SumOf(Cnt, S) = Cnt[d] + SumOf(Cnt, S \ {d})
  BY <1>2, <1>3, SumRemove
<1>7. SumOf(Cnt, S \ {d}) \in Nat
  BY <1>2, <1>3, SumType
<1>8. inode_table[s].i_cnt \in Nat
  BY DEF CacheInv, CacheTypes
<1>9. inode_table[s].i_cnt > 0
  BY <1>4, <1>5, <1>6, <1>7, <1>8
<1> QED
  BY <1>1, <1>9

(* CacheCoherent, slot by slot.                                             *)
LEMMA CacheParts ==
    ASSUME CacheInv, halted = "no"
    PROVE  /\ \A s \in Slot : inode_table[s].i_cnt > 0 =>
                 /\ inode_table[s].i_num \in Inode
                 /\ inode_table[s].i_mode = dinode[inode_table[s].i_num].i_mode
                 /\ inode_table[s].i_start = dinode[inode_table[s].i_num].i_start
           /\ \A s, t \in Slot : inode_table[s].i_cnt > 0 /\ inode_table[t].i_cnt > 0 /\
                 inode_table[s].i_num = inode_table[t].i_num => s = t
<1>1. ASSUME NEW s \in Slot, inode_table[s].i_cnt > 0
      PROVE  /\ inode_table[s].i_num \in Inode
             /\ Cached(inode_table[s].i_num) = {s}
             /\ dinode[inode_table[s].i_num] =
                    [i_mode |-> inode_table[s].i_mode, i_start |-> inode_table[s].i_start]
  BY <1>1 DEF CacheInv, CachedIsInode, CacheCoherent
<1>2. ASSUME NEW s \in Slot, inode_table[s].i_cnt > 0
      PROVE  /\ inode_table[s].i_mode = dinode[inode_table[s].i_num].i_mode
             /\ inode_table[s].i_start = dinode[inode_table[s].i_num].i_start
  <2>1. PICK r : r = dinode[inode_table[s].i_num]
    OBVIOUS
  <2>2. r = [i_mode |-> inode_table[s].i_mode, i_start |-> inode_table[s].i_start]
    BY <1>1, <1>2, <2>1
  <2>3. r.i_mode = inode_table[s].i_mode /\ r.i_start = inode_table[s].i_start
    BY <2>2
  <2> QED
    BY <2>1, <2>3
<1>3. ASSUME NEW s \in Slot, NEW t \in Slot, inode_table[s].i_cnt > 0, inode_table[t].i_cnt > 0,
             inode_table[s].i_num = inode_table[t].i_num
      PROVE  s = t
  <2>1. Cached(inode_table[s].i_num) = {s} /\ t \in Cached(inode_table[s].i_num)
    BY <1>1, <1>3 DEF Cached
  <2> QED
    BY <2>1
<1> QED
  BY <1>1, <1>2, <1>3

(* The slot that get_inode(n) takes.                                        *)
LEMMA SlotTaken ==
    ASSUME CacheInv, DiskTypes, halted = "no", NEW n \in Inode, NEW s, SlotOf(n) = s, s # 0
    PROVE  /\ s \in Slot
           /\ \/ /\ inode_table[s].i_cnt = 0
                 /\ \A t \in Slot : inode_table[t].i_cnt > 0 => inode_table[t].i_num # n
              \/ /\ inode_table[s].i_cnt > 0
                 /\ inode_table[s].i_num = n
           /\ get_inode(n) = [inode_table EXCEPT ![s] =
                 [i_num |-> n, i_cnt |-> inode_table[s].i_cnt + 1,
                  i_mode |-> dinode[n].i_mode, i_start |-> dinode[n].i_start]]
<1>1. \A t \in Slot : inode_table[t].i_cnt \in Nat
  BY DEF CacheInv, CacheTypes
<1>2. Cached(n) \subseteq Nat /\ FreeSlots \subseteq Nat
  BY Sizes DEF Cached, FreeSlots, Slot
<1>3. \/ Cached(n) # {} /\ s = Min(Cached(n))
      \/ Cached(n) = {} /\ FreeSlots # {} /\ s = Min(FreeSlots)
  BY DEF SlotOf
<1>4. s \in Cached(n) \/ (Cached(n) = {} /\ s \in FreeSlots)
  BY <1>2, <1>3, MinIsLeast
<1>5. s \in Slot
  BY <1>4 DEF Cached, FreeSlots
<1>6. \/ /\ inode_table[s].i_cnt = 0
         /\ \A t \in Slot : inode_table[t].i_cnt > 0 => inode_table[t].i_num # n
      \/ inode_table[s].i_cnt > 0 /\ inode_table[s].i_num = n
  BY <1>4 DEF Cached, FreeSlots
<1>7. PICK r \in [i_num : Inode \cup {0}, i_cnt : Nat,
                  i_mode : {"none", "dir", "char", "regular"}, i_start : Start \cup {0}] :
         r = inode_table[s]
  BY <1>5 DEF CacheInv, CacheTypes
<1>8. get_inode(n) = [inode_table EXCEPT ![s] =
          IF r.i_cnt > 0 THEN [r EXCEPT !.i_cnt = r.i_cnt + 1]
          ELSE [i_num |-> n, i_cnt |-> 1,
                i_mode |-> dinode[n].i_mode, i_start |-> dinode[n].i_start]]
  BY <1>7 DEF get_inode
<1>9. CASE r.i_cnt > 0
  <2>1. r.i_num = n /\ r.i_mode = dinode[n].i_mode /\ r.i_start = dinode[n].i_start
    BY <1>5, <1>6, <1>7, <1>9, CacheParts
  <2>2. [r EXCEPT !.i_cnt = r.i_cnt + 1] =
           [i_num |-> n, i_cnt |-> r.i_cnt + 1,
            i_mode |-> dinode[n].i_mode, i_start |-> dinode[n].i_start]
    BY <1>7, <2>1
  <2> QED
    BY <1>5, <1>6, <1>7, <1>8, <1>9, <2>2
<1>10. CASE ~(r.i_cnt > 0)
  <2>1. r.i_cnt = 0 /\ r.i_cnt + 1 = 1
    BY <1>7, <1>10
  <2> QED
    BY <1>5, <1>6, <1>7, <1>8, <1>10, <2>1
<1> QED
  BY <1>9, <1>10

(* The other direction of CacheParts, for the next state.                   *)
LEMMA CacheNext ==
    ASSUME \A s \in Slot : inode_table'[s].i_cnt > 0 =>
                 /\ inode_table'[s].i_num \in Inode
                 /\ dinode'[inode_table'[s].i_num] =
                       [i_mode |-> inode_table'[s].i_mode, i_start |-> inode_table'[s].i_start],
           \A s, t \in Slot : inode_table'[s].i_cnt > 0 /\ inode_table'[t].i_cnt > 0 /\
                 inode_table'[s].i_num = inode_table'[t].i_num => s = t
    PROVE  CachedIsInode' /\ CacheCoherent'
<1>1. ASSUME NEW s \in Slot, inode_table'[s].i_cnt > 0
      PROVE  Cached(inode_table[s].i_num)' = {s}
  BY <1>1 DEF Cached
<1> QED
  BY <1>1 DEF CachedIsInode, CacheCoherent

(* The inode of a descriptor in use is the same after the step.             *)
Kept == \A d \in Desc : Live(d) =>
            LET s == f_desc_table[d].fd_inode
            IN  /\ inode_table'[s].i_num = inode_table[s].i_num
                /\ inode_table'[s].i_mode = inode_table[s].i_mode

(* get_inode of an inode.                                                   *)
LEMMA Take ==
    ASSUME DescInv, CacheInv, DiskTypes, halted = "no", NEW n \in Inode,
           NEW s, SlotOf(n) = s, s # 0,
           inode_table' = get_inode(n), dinode' = dinode
    PROVE  /\ CacheTypes' /\ CachedIsInode' /\ CacheCoherent' /\ Kept
           /\ s \in Slot /\ inode_table'[s].i_num = n /\ inode_table'[s].i_mode = dinode[n].i_mode
           /\ \A t \in Slot : inode_table'[t].i_cnt =
                 IF t = s THEN inode_table[t].i_cnt + 1 ELSE inode_table[t].i_cnt
<1>0. n \in Inode /\ CacheTypes
  BY DEF DiskTypes, CacheInv
<1>1. /\ s \in Slot
      /\ \/ /\ inode_table[s].i_cnt = 0
            /\ \A t \in Slot : inode_table[t].i_cnt > 0 => inode_table[t].i_num # n
         \/ inode_table[s].i_cnt > 0 /\ inode_table[s].i_num = n
      /\ inode_table' = [inode_table EXCEPT ![s] =
            [i_num |-> n, i_cnt |-> inode_table[s].i_cnt + 1,
             i_mode |-> dinode[n].i_mode, i_start |-> dinode[n].i_start]]
  BY <1>0, SlotTaken
<1>2. PICK k \in Nat : k = inode_table[s].i_cnt
  BY <1>0, <1>1 DEF CacheTypes
<1>3. \A t \in Slot : inode_table'[t] =
         IF t = s THEN [i_num |-> n, i_cnt |-> k + 1,
                        i_mode |-> dinode[n].i_mode, i_start |-> dinode[n].i_start]
         ELSE inode_table[t]
  BY <1>0, <1>1, <1>2 DEF CacheTypes
<1>4. CacheTypes'
  <2>1. [i_num |-> n, i_cnt |-> k + 1, i_mode |-> dinode[n].i_mode, i_start |-> dinode[n].i_start]
          \in [i_num : Inode \cup {0}, i_cnt : Nat,
               i_mode : {"none", "dir", "char", "regular"}, i_start : Start \cup {0}]
    BY <1>0, <1>2 DEF DiskTypes
  <2> QED
    BY <1>0, <1>1, <1>2, <2>1 DEF CacheTypes
<1>5. CachedIsInode' /\ CacheCoherent'
  <2>1. ASSUME NEW t \in Slot, inode_table'[t].i_cnt > 0
        PROVE  /\ inode_table'[t].i_num \in Inode
               /\ dinode'[inode_table'[t].i_num] =
                     [i_mode |-> inode_table'[t].i_mode, i_start |-> inode_table'[t].i_start]
    <3>1. CASE t = s
      <4>1. inode_table'[t] = [i_num |-> n, i_cnt |-> k + 1,
                               i_mode |-> dinode[n].i_mode, i_start |-> dinode[n].i_start]
        BY <1>3, <3>1
      <4>2. dinode[n] = [i_mode |-> dinode[n].i_mode, i_start |-> dinode[n].i_start]
        BY <1>0 DEF DiskTypes
      <4> QED
        BY <4>1, <4>2
    <3>2. CASE t # s
      <4>1. inode_table'[t] = inode_table[t]
        BY <1>3, <3>2
      <4> QED
        BY <2>1, <4>1 DEF CacheInv, CachedIsInode, CacheCoherent
    <3> QED
      BY <3>1, <3>2
  <2>2. \A t \in Slot : t # s /\ inode_table[t].i_cnt > 0 => inode_table[t].i_num # n
    BY <1>1, CacheParts
  <2>3. \A t, u \in Slot : inode_table'[t].i_cnt > 0 /\ inode_table'[u].i_cnt > 0 /\
            inode_table'[t].i_num = inode_table'[u].i_num => t = u
    BY <1>3, <2>2, CacheParts
  <2> QED
    BY <2>1, <2>3, CacheNext
<1>6. Kept
  <2>1. ASSUME NEW d \in Desc, Live(d), f_desc_table[d].fd_inode = s
        PROVE  /\ inode_table'[s].i_num = inode_table[s].i_num
               /\ inode_table'[s].i_mode = inode_table[s].i_mode
    <3>1. inode_table[s].i_cnt > 0
      BY <2>1, LiveIsCached
    <3>2. inode_table[s].i_num = n
      BY <1>1, <1>2, <3>1
    <3>3. inode_table[s].i_mode = dinode[n].i_mode
      BY <1>1, <3>1, <3>2, CacheParts
    <3> QED
      BY <1>1, <1>3, <3>2, <3>3
  <2>2. ASSUME NEW d \in Desc, Live(d), f_desc_table[d].fd_inode # s
        PROVE  inode_table'[f_desc_table[d].fd_inode] = inode_table[f_desc_table[d].fd_inode]
    BY <1>3, <2>2, LiveIsUsed
  <2> QED
    BY <2>1, <2>2 DEF Kept
<1>7. /\ inode_table'[s].i_num = n /\ inode_table'[s].i_mode = dinode[n].i_mode
      /\ \A t \in Slot : inode_table'[t].i_cnt =
            IF t = s THEN inode_table[t].i_cnt + 1 ELSE inode_table[t].i_cnt
  BY <1>1, <1>2, <1>3
<1> QED
  BY <1>1, <1>4, <1>5, <1>6, <1>7

(* A step that keeps the descriptors keeps the inodes behind them.          *)
LEMMA BackedSame ==
    ASSUME DescInv, CacheInv, halted = "no", Kept, \A t \in Slot : UsersOf(t)' = UsersOf(t),
           f_desc_table' = f_desc_table, opened' = opened,
           \A d \in Desc : Live(d) => inode_table[f_desc_table[d].fd_inode].i_num \in imap',
           \A t \in Slot : inode_table'[t].i_cnt >= UsersOf(t)
    PROVE  SlotsBacked'
<1>1. ASSUME NEW d \in Desc, Live(d)'
      PROVE  Backed(d)'
  BY <1>1 DEF Live, Backed, Kept, CacheInv, SlotsBacked
<1> QED
  BY <1>1 DEF SlotsBacked

(* do_open: the new descriptor leads to the inode n in slot s.              *)
LEMMA BackedNew ==
    ASSUME DescInv, CacheInv, halted = "no", Kept, NEW p, NEW s \in Slot, NEW n \in Inode,
           OpenDesc(p, s, n), FreeDescs # {}, imap \subseteq imap', n \in imap',
           inode_table'[s].i_num = n, inode_table'[s].i_mode # "none",
           \A t \in Slot : UsersOf(t)' = IF t = s THEN UsersOf(t) + 1 ELSE UsersOf(t),
           \A t \in Slot : t # s => inode_table'[t].i_cnt = inode_table[t].i_cnt,
           inode_table'[s].i_cnt >= UsersOf(s) + 1
    PROVE  SlotsBacked'
<1>1. PICK d : d = Min(FreeDescs)
  OBVIOUS
<1>2. /\ f_desc_table' = [f_desc_table EXCEPT ![d] = [fd_inode |-> s, fd_cnt |-> 1]]
      /\ opened' = [opened EXCEPT ![d] = n]
  BY <1>1 DEF OpenDesc
<1>3. ASSUME NEW e \in Desc, Live(e)'
      PROVE  Backed(e)'
  <2>1. /\ f_desc_table'[e] = IF e = d THEN [fd_inode |-> s, fd_cnt |-> 1] ELSE f_desc_table[e]
        /\ opened'[e] = IF e = d THEN n ELSE opened[e]
    BY <1>2 DEF DescInv, DescTypes
  <2>2. CASE e = d
    BY <2>1, <2>2 DEF Backed
  <2>3. CASE e # d
    <3>1. Live(e) /\ f_desc_table'[e] = f_desc_table[e] /\ opened'[e] = opened[e]
      BY <1>3, <2>1, <2>3 DEF Live
    <3>2. Backed(e)
      BY <3>1 DEF CacheInv, SlotsBacked
    <3> QED
      BY <3>1, <3>2 DEF Backed, Kept
  <2> QED
    BY <2>2, <2>3
<1>4. ASSUME NEW t \in Slot
      PROVE  inode_table'[t].i_cnt >= UsersOf(t)'
  <2>1. inode_table[t].i_cnt >= UsersOf(t) /\ UsersOf(t) \in Nat /\ inode_table[t].i_cnt \in Nat
    BY UsersOfType DEF DescInv, CacheInv, SlotsBacked, CacheTypes
  <2> QED
    BY <2>1
<1> QED
  BY <1>3, <1>4 DEF SlotsBacked

-----------------------------------------------------------------------------
(* Steps that leave the disk alone *)

(* A handler that leaves the disk alone.                                    *)
LEMMA SameDisk ==
    ASSUME DiskInv, halted = "no", UNCHANGED <<dinode, imap, smap, logged>>
    PROVE  DiskInv'
<1>1. DiskTypes' /\ InodesAgree'
  BY DEF DiskInv, DiskTypes, InodesAgree
<1>2. Regular' = Regular /\ \A n : Extent(n)' = Extent(n)
  BY DEF Regular, Extent
<1>3. ExtentsApart'
  BY <1>2 DEF DiskInv, ExtentsApart
<1>4. MapsAgree'
  BY <1>2 DEF DiskInv, MapsAgree
<1> QED
  BY <1>1, <1>3, <1>4 DEF DiskInv

(* A handler that leaves the directory alone, and the allocated inodes too  *)
(* unless it stops the machine.                                             *)
LEMMA SameDir ==
    ASSUME DirInv, halted = "no", UNCHANGED dirVars, imap' = imap \/ halted' # "no"
    PROVE  DirInv'
<1>1. DirTypes'
  BY DEF DirInv, DirTypes, dirVars
<1>2. EntriesMeanFiles'
  BY DEF DirInv, EntriesMeanFiles, dirVars
<1> QED
  BY <1>1, <1>2 DEF DirInv

(* A handler that leaves inode_table and the inodes alone.                  *)
LEMMA SameCache ==
    ASSUME CacheInv, DescInv, halted = "no", UNCHANGED inode_table,
           \A n \in Inode : dinode'[n] = dinode[n]
    PROVE  CacheTypes' /\ CachedIsInode' /\ CacheCoherent' /\ Kept
<1>1. CacheTypes' /\ Kept
  BY DEF CacheInv, CacheTypes, Kept
<1>2. ASSUME NEW t \in Slot, inode_table'[t].i_cnt > 0
      PROVE  /\ inode_table'[t].i_num \in Inode
             /\ dinode'[inode_table'[t].i_num] =
                   [i_mode |-> inode_table'[t].i_mode, i_start |-> inode_table'[t].i_start]
  <2>1. /\ inode_table[t].i_num \in Inode
        /\ dinode[inode_table[t].i_num] =
               [i_mode |-> inode_table[t].i_mode, i_start |-> inode_table[t].i_start]
    BY <1>2 DEF CacheInv, CachedIsInode, CacheCoherent
  <2> QED
    BY <2>1
<1>3. \A s, t \in Slot : inode_table'[s].i_cnt > 0 /\ inode_table'[t].i_cnt > 0 /\
             inode_table'[s].i_num = inode_table'[t].i_num => s = t
  BY CacheParts
<1> QED
  BY <1>1, <1>2, <1>3, CacheNext

(* What search_file finds is an inode, and an allocated one as long as no   *)
(* process has written into the directory.                                  *)
LEMMA FoundIsInode ==
    ASSUME DirInv, DiskInv, halted = "no", NEW path, NEW n, search_file(path) = n, n # 0
    PROVE  n \in Inode /\ (writes = 0 => n \in imap)
<1>1. ROOT_INODE \in Inode
  BY Sizes DEF ROOT_INODE, Inode
<1>2. CASE path = "/"
  BY <1>1, <1>2 DEF search_file, DiskInv, InodesAgree
<1>3. CASE path # "/"
  <2> DEFINE hits == {i \in Entry : i <= i_size + 1 /\ dir[i].name = path}
  <2>1. hits # {} /\ n = dir[Min(hits)].inode_nr
    BY <1>3 DEF search_file
  <2>2. hits \subseteq Nat
    BY Sizes DEF Entry
  <2>3. Min(hits) \in hits
    <3> HIDE DEF hits
    <3> QED
      BY <2>1, <2>2, MinIsLeast
  <2>4. Min(hits) \in Entry
    BY <2>3
  <2> HIDE DEF hits
  <2>5. n \in Inode
    BY <2>1, <2>4 DEF DirInv, DirTypes
  <2>6. writes = 0 => n \in imap
    BY <2>1, <2>4 DEF DirInv, EntriesMeanFiles
  <2> QED
    BY <2>5, <2>6
<1> QED
  BY <1>2, <1>3

(***************************************************************************)
(* The actions                                                             *)
(***************************************************************************)
LEMMA OpenPanicsStep == \A p \in Proc : IInv /\ OpenPanics(p) => IInv'
<1> SUFFICES ASSUME NEW p \in Proc, IInv, OpenPanics(p) PROVE IInv'
  OBVIOUS
<1>0. /\ DescInv /\ CacheInv /\ DirInv /\ DiskInv /\ halted = "no"
      /\ UNCHANGED <<alive, fork, filp, f_desc_table, opened>> /\ UNCHANGED inode_table
      /\ UNCHANGED dirVars /\ UNCHANGED <<dinode, imap, smap, logged>>
  BY DEF IInv, OpenPanics, Calling, diskVars
<1>1. DescInv' /\ \A t : UsersOf(t)' = UsersOf(t)
  BY <1>0, SameDescs
<1>2. CacheTypes' /\ CachedIsInode' /\ CacheCoherent' /\ Kept
  BY <1>0, SameCache
<1>3. SlotsBacked'
  <2>1. /\ \A d \in Desc : Live(d) => inode_table[f_desc_table[d].fd_inode].i_num \in imap'
        /\ \A t \in Slot : inode_table'[t].i_cnt >= UsersOf(t)
    BY <1>0 DEF CacheInv, SlotsBacked, Backed
  <2> QED
    BY <1>0, <1>1, <1>2, <2>1, BackedSame
<1>4. DirInv' /\ DiskInv'
  BY <1>0, SameDir, SameDisk
<1>5. HaltInv'
  BY DEF OpenPanics, Halt, HaltInv
<1> QED
  BY <1>1, <1>2, <1>3, <1>4, <1>5 DEF IInv, CacheInv

(* do_fork copies filp.                                                     *)
LEMMA ForkCopiesStep == \A p \in Proc : IInv /\ ForkCopies(p) => IInv'
<1> SUFFICES ASSUME NEW p \in Proc, IInv, ForkCopies(p) PROVE IInv'
  OBVIOUS
<1>0. /\ DescInv /\ CacheInv /\ DirInv /\ DiskInv /\ halted = "no" /\ halted' = halted
      /\ UNCHANGED <<f_desc_table, opened>> /\ UNCHANGED inode_table
      /\ UNCHANGED dirVars /\ UNCHANGED <<dinode, imap, smap, logged>>
  BY DEF IInv, ForkCopies, Calling, diskVars
<1>1. DescInv' /\ \A t : UsersOf(t)' = UsersOf(t)
  BY <1>0, CopiedDescs
<1>2. CacheTypes' /\ CachedIsInode' /\ CacheCoherent' /\ Kept
  BY <1>0, SameCache
<1>3. SlotsBacked'
  <2>1. /\ \A d \in Desc : Live(d) => inode_table[f_desc_table[d].fd_inode].i_num \in imap'
        /\ \A t \in Slot : inode_table'[t].i_cnt >= UsersOf(t)
    BY <1>0 DEF CacheInv, SlotsBacked, Backed
  <2> QED
    BY <1>0, <1>1, <1>2, <2>1, BackedSame
<1>4. DirInv' /\ DiskInv'
  BY <1>0, SameDir, SameDisk
<1>5. HaltInv'
  BY <1>0 DEF IInv, HaltInv
<1> QED
  BY <1>1, <1>2, <1>3, <1>4, <1>5 DEF IInv, CacheInv

(* A step that only counts: what was not in use stays so.                   *)
LEMMA CountedCache ==
    ASSUME CacheInv, halted = "no", UNCHANGED <<dinode, imap>>,
           NEW cnt \in [Slot -> Nat],
           inode_table' \in [Slot -> [i_num : Inode \cup {0}, i_cnt : Nat,
                                     i_mode : {"none", "dir", "char", "regular"},
                                     i_start : Start \cup {0}]],
           \A s \in Slot : /\ inode_table'[s].i_num = inode_table[s].i_num
                           /\ inode_table'[s].i_mode = inode_table[s].i_mode
                           /\ inode_table'[s].i_start = inode_table[s].i_start
                           /\ inode_table'[s].i_cnt = cnt[s]
                           /\ cnt[s] > 0 => inode_table[s].i_cnt > 0
    PROVE  CacheTypes' /\ CachedIsInode' /\ CacheCoherent'
<1>1. CacheTypes'
  BY DEF CacheTypes
<1>2. ASSUME NEW t \in Slot, inode_table'[t].i_cnt > 0
      PROVE  /\ inode_table'[t].i_num \in Inode
             /\ dinode'[inode_table'[t].i_num] =
                   [i_mode |-> inode_table'[t].i_mode, i_start |-> inode_table'[t].i_start]
  <2>1. /\ inode_table[t].i_num \in Inode
        /\ dinode[inode_table[t].i_num] =
               [i_mode |-> inode_table[t].i_mode, i_start |-> inode_table[t].i_start]
    BY <1>2 DEF CacheInv, CachedIsInode, CacheCoherent
  <2> QED
    BY <2>1
<1>3. \A s, t \in Slot : inode_table'[s].i_cnt > 0 /\ inode_table'[t].i_cnt > 0 /\
             inode_table'[s].i_num = inode_table'[t].i_num => s = t
  BY CacheParts
<1> QED
  BY <1>1, <1>2, <1>3, CacheNext

(* fs_fork counts the copies.                                               *)
LEMMA FsForkStep == IInv /\ FsFork => IInv'
<1> SUFFICES ASSUME IInv, FsFork PROVE IInv'
  OBVIOUS
<1>0. /\ DescInv /\ CacheInv /\ DirInv /\ DiskInv /\ halted = "no" /\ halted' = halted
      /\ fork # <<>> /\ UNCHANGED <<filp, opened>> /\ fork' = <<>>
      /\ UNCHANGED dirVars /\ UNCHANGED <<dinode, imap, smap, logged>>
  BY DEF IInv, FsFork, diskVars
<1>1. PICK c \in Proc \ alive :
         /\ f_desc_table' = ShareDescs(c) /\ inode_table' = ShareInodes(c)
         /\ alive' = alive \cup {c}
         /\ \A p \in Proc \ alive : p = c \/ \A f \in Fd : filp[p][f] = 0
  BY <1>0 DEF FsFork, DescInv, Forking
<1>2. DescInv' /\ \A t \in Slot : /\ UsesOfSlot(c, t) \in Nat
                                  /\ UsersOf(t)' = UsersOf(t) + UsesOfSlot(c, t)
  BY <1>0, <1>1, CountedDescs
<1> DEFINE cnt == [t \in Slot |-> inode_table[t].i_cnt + UsesOfSlot(c, t)]
<1>3. cnt \in [Slot -> Nat]
  <2>1. \A a \in Nat, b \in Nat : a + b \in Nat
    OBVIOUS
  <2>2. \A t \in Slot : inode_table[t].i_cnt \in Nat
    BY <1>0 DEF CacheInv, CacheTypes
  <2> QED
    BY <1>2, <2>1, <2>2
<1>4. ASSUME NEW t \in Slot, inode_table[t].i_cnt = 0
      PROVE  UsesOfSlot(c, t) = 0
  <2>1. ASSUME NEW f \in Fd, filp[c][f] # 0, f_desc_table[filp[c][f]].fd_inode = t
        PROVE  FALSE
    <3>1. filp[c][f] \in Desc /\ Live(filp[c][f])
      BY <1>0, <2>1, FilpIsLive
    <3> QED
      BY <1>0, <1>4, <2>1, <3>1, LiveIsCached
  <2>2. {f \in Fd : filp[c][f] # 0 /\ f_desc_table[filp[c][f]].fd_inode = t} = {}
    BY <2>1
  <2> QED
    BY <2>2, FS_EmptySet DEF UsesOfSlot
<1>5. ASSUME NEW t \in Slot
      PROVE  /\ inode_table'[t].i_num = inode_table[t].i_num
             /\ inode_table'[t].i_mode = inode_table[t].i_mode
             /\ inode_table'[t].i_start = inode_table[t].i_start
             /\ inode_table'[t].i_cnt = cnt[t]
             /\ cnt[t] > 0 => inode_table[t].i_cnt > 0
             /\ inode_table'[t] \in [i_num : Inode \cup {0}, i_cnt : Nat,
                                     i_mode : {"none", "dir", "char", "regular"},
                                     i_start : Start \cup {0}]
  <2>1. PICK k \in Nat : k = cnt[t] /\ k = inode_table[t].i_cnt + UsesOfSlot(c, t)
    BY <1>3
  <2>2. inode_table'[t] = [inode_table[t] EXCEPT !.i_cnt = k]
    BY <1>1, <2>1 DEF ShareInodes
  <2>3. inode_table[t] \in [i_num : Inode \cup {0}, i_cnt : Nat,
                            i_mode : {"none", "dir", "char", "regular"},
                            i_start : Start \cup {0}]
    BY <1>0 DEF CacheInv, CacheTypes
  <2>4. /\ inode_table'[t].i_num = inode_table[t].i_num
        /\ inode_table'[t].i_mode = inode_table[t].i_mode
        /\ inode_table'[t].i_start = inode_table[t].i_start
        /\ inode_table'[t].i_cnt = k
        /\ inode_table'[t] \in [i_num : Inode \cup {0}, i_cnt : Nat,
                                i_mode : {"none", "dir", "char", "regular"},
                                i_start : Start \cup {0}]
    BY <2>2, <2>3
  <2>5. k > 0 => inode_table[t].i_cnt > 0
    <3>1. inode_table[t].i_cnt \in Nat
      BY <2>3
    <3> QED
      BY <1>4, <2>1, <3>1
  <2> QED
    BY <2>1, <2>4, <2>5
<1>6. inode_table' \in [Slot -> [i_num : Inode \cup {0}, i_cnt : Nat,
                                i_mode : {"none", "dir", "char", "regular"},
                                i_start : Start \cup {0}]]
  <2>1. inode_table' = [t \in Slot |-> inode_table'[t]]
    BY <1>1 DEF ShareInodes
  <2> QED
    BY <1>5, <2>1
<1> HIDE DEF cnt
<1>7. CacheTypes' /\ CachedIsInode' /\ CacheCoherent'
  BY <1>0, <1>3, <1>5, <1>6, CountedCache
<1>8. SlotsBacked'
  <2>1. ASSUME NEW d \in Desc, Live(d)'
        PROVE  Backed(d)'
    <3>1. f_desc_table'[d].fd_inode = f_desc_table[d].fd_inode
      <4>1. f_desc_table'[d] =
               [f_desc_table[d] EXCEPT !.fd_cnt = f_desc_table[d].fd_cnt + Uses(c, d)]
        BY <1>1 DEF ShareDescs
      <4>2. f_desc_table[d] \in [fd_inode : Slot \cup {0}, fd_cnt : Nat]
        BY <1>0 DEF DescInv, DescTypes
      <4>3. PICK k : k = f_desc_table[d].fd_cnt + Uses(c, d)
        OBVIOUS
      <4>4. f_desc_table'[d] = [f_desc_table[d] EXCEPT !.fd_cnt = k]
        BY <4>1, <4>3
      <4> QED
        BY <4>2, <4>4
    <3>2. Live(d) /\ f_desc_table[d].fd_inode \in Slot
      BY <1>0, <2>1, <3>1, LiveIsUsed DEF Live
    <3>3. Backed(d)
      BY <1>0, <3>2 DEF CacheInv, SlotsBacked
    <3> QED
      BY <1>0, <1>5, <3>1, <3>2, <3>3 DEF Backed
  <2>2. ASSUME NEW t \in Slot
        PROVE  inode_table'[t].i_cnt >= UsersOf(t)'
    <3>1. inode_table[t].i_cnt >= UsersOf(t) /\ UsersOf(t) \in Nat /\ inode_table[t].i_cnt \in Nat
      BY <1>0, UsersOfType DEF DescInv, CacheInv, SlotsBacked, CacheTypes
    <3>2. inode_table'[t].i_cnt = inode_table[t].i_cnt + UsesOfSlot(c, t)
      BY <1>5 DEF cnt
    <3> QED
      BY <1>2, <3>1, <3>2
  <2> QED
    BY <2>1, <2>2 DEF SlotsBacked
<1>9. DirInv' /\ DiskInv'
  BY <1>0, SameDir, SameDisk
<1>10. HaltInv'
  BY <1>0 DEF IInv, HaltInv
<1> QED
  BY <1>2, <1>7, <1>8, <1>9, <1>10 DEF IInv, CacheInv

(* do_close.                                                                *)
LEMMA CloseStep == \A p \in Proc, f \in Fd : IInv /\ Close(p, f) => IInv'
<1> SUFFICES ASSUME NEW p \in Proc, NEW f \in Fd, IInv, Close(p, f) PROVE IInv'
  OBVIOUS
<1>0. /\ DescInv /\ CacheInv /\ DirInv /\ DiskInv /\ halted = "no" /\ Calling(p)
      /\ filp[p][f] # 0 /\ UNCHANGED <<alive, fork>>
      /\ UNCHANGED dirVars /\ UNCHANGED <<dinode, imap, smap, logged>>
  BY DEF IInv, Close, Calling, diskVars
<1>1. PICK d \in Desc : filp[p][f] = d /\ Live(d) /\ d # 0
  BY <1>0, FilpIsLive
<1>2. PICK s \in Slot : f_desc_table[d].fd_inode = s /\ inode_table[s].i_cnt > 0
  BY <1>0, <1>1, LiveIsCached
<1>3. /\ inode_table' = [inode_table EXCEPT ![s].i_cnt = @ - 1]
      /\ f_desc_table' = DropDesc(d)
      /\ opened' = [opened EXCEPT ![d] = IF f_desc_table[d].fd_cnt = 1 THEN 0 ELSE @]
      /\ filp' = [filp EXCEPT ![p][f] = 0]
      /\ halted' = halted
  BY <1>1, <1>2 DEF Close
<1>4. DescInv' /\ \A t \in Slot : UsersOf(t)' = IF t = s THEN UsersOf(t) - 1 ELSE UsersOf(t)
  BY <1>0, <1>1, <1>2, <1>3, DroppedDesc
<1> DEFINE cnt == [t \in Slot |-> IF t = s THEN inode_table[t].i_cnt - 1 ELSE inode_table[t].i_cnt]
<1>5. /\ \A t \in Slot : inode_table[t].i_cnt \in Nat
      /\ \A t \in Slot : inode_table[t] \in [i_num : Inode \cup {0}, i_cnt : Nat,
                                     i_mode : {"none", "dir", "char", "regular"},
                                     i_start : Start \cup {0}]
      /\ CacheTypes
  BY <1>0 DEF CacheInv, CacheTypes
<1>6. cnt \in [Slot -> Nat]
  BY <1>2, <1>5
<1>7. PICK k \in Nat : k = inode_table[s].i_cnt - 1
  BY <1>2, <1>5
<1>8. inode_table' = [inode_table EXCEPT ![s] = [inode_table[s] EXCEPT !.i_cnt = k]]
  BY <1>2, <1>3, <1>5, <1>7 DEF CacheTypes
<1>9. [inode_table[s] EXCEPT !.i_cnt = k] \in [i_num : Inode \cup {0}, i_cnt : Nat,
                                     i_mode : {"none", "dir", "char", "regular"},
                                     i_start : Start \cup {0}]
  BY <1>5, <1>7
<1>10. inode_table' \in [Slot -> [i_num : Inode \cup {0}, i_cnt : Nat,
                                i_mode : {"none", "dir", "char", "regular"},
                                i_start : Start \cup {0}]]
  BY <1>5, <1>8, <1>9 DEF CacheTypes
<1>11. ASSUME NEW t \in Slot
       PROVE  /\ inode_table'[t].i_num = inode_table[t].i_num
              /\ inode_table'[t].i_mode = inode_table[t].i_mode
              /\ inode_table'[t].i_start = inode_table[t].i_start
              /\ inode_table'[t].i_cnt = cnt[t]
              /\ cnt[t] > 0 => inode_table[t].i_cnt > 0
  <2>1. CASE t = s
    <3>1. inode_table'[t] = [inode_table[t] EXCEPT !.i_cnt = k]
      BY <1>5, <1>8, <2>1 DEF CacheTypes
    <3>2. /\ inode_table'[t].i_num = inode_table[t].i_num
          /\ inode_table'[t].i_mode = inode_table[t].i_mode
          /\ inode_table'[t].i_start = inode_table[t].i_start
          /\ inode_table'[t].i_cnt = k
      BY <1>5, <3>1
    <3> QED
      BY <1>2, <1>7, <2>1, <3>2
  <2>2. CASE t # s
    <3>1. inode_table'[t] = inode_table[t]
      BY <1>5, <1>8, <2>2 DEF CacheTypes
    <3> QED
      BY <2>2, <3>1
  <2> QED
    BY <2>1, <2>2
<1>12. \A t \in Slot : cnt[t] = IF t = s THEN inode_table[t].i_cnt - 1 ELSE inode_table[t].i_cnt
  OBVIOUS
<1> HIDE DEF cnt
<1>13. CacheTypes' /\ CachedIsInode' /\ CacheCoherent'
  BY <1>0, <1>6, <1>10, <1>11, CountedCache
<1>14. SlotsBacked'
  <2>1. ASSUME NEW e \in Desc, Live(e)'
        PROVE  Backed(e)'
    <3>1. f_desc_table[e].fd_inode = f_desc_table'[e].fd_inode /\ opened'[e] = opened[e]
      <4>1. f_desc_table \in [Desc -> [fd_inode : Slot \cup {0}, fd_cnt : Nat]]
            /\ opened \in [Desc -> Inode \cup {0}]
        BY <1>0 DEF DescInv, DescTypes
      <4>2. CASE e # d
        BY <1>3, <4>1, <4>2 DEF DropDesc
      <4>3. CASE e = d
        <5>1. f_desc_table'[d].fd_inode = IF f_desc_table[d].fd_cnt = 1 THEN 0
                                          ELSE f_desc_table[d].fd_inode
          BY <1>3, <4>1 DEF DropDesc
        <5>2. f_desc_table[d].fd_cnt # 1
          BY <2>1, <4>3, <5>1 DEF Live
        <5> QED
          BY <1>3, <4>1, <4>3, <5>1, <5>2
      <4> QED
        BY <4>2, <4>3
    <3>2. Live(e) /\ f_desc_table[e].fd_inode \in Slot
      BY <1>0, <2>1, <3>1, LiveIsUsed DEF Live
    <3>3. Backed(e)
      BY <1>0, <3>2 DEF CacheInv, SlotsBacked
    <3> QED
      BY <1>0, <1>11, <3>1, <3>2, <3>3 DEF Backed
  <2>2. ASSUME NEW t \in Slot
        PROVE  inode_table'[t].i_cnt >= UsersOf(t)'
    <3>1. inode_table[t].i_cnt >= UsersOf(t) /\ UsersOf(t) \in Nat /\ inode_table[t].i_cnt \in Nat
      BY <1>0, UsersOfType DEF DescInv, CacheInv, SlotsBacked, CacheTypes
    <3> QED
      BY <1>4, <1>11, <1>12, <3>1
  <2> QED
    BY <2>1, <2>2 DEF SlotsBacked
<1>15. DirInv' /\ DiskInv'
  BY <1>0, SameDir, SameDisk
<1>16. HaltInv'
  BY <1>0, <1>3 DEF IInv, HaltInv
<1> QED
  BY <1>4, <1>13, <1>14, <1>15, <1>16 DEF IInv, CacheInv

(* do_open of a file that exists.                                           *)
LEMMA OpenStep == \A p \in Proc : \A path : IInv /\ Open(p, path) => IInv'
<1> SUFFICES ASSUME NEW p \in Proc, NEW path, IInv, Open(p, path) PROVE IInv'
  OBVIOUS
<1>1. PICK n : search_file(path) = n
  OBVIOUS
<1>2. PICK s : SlotOf(n) = s
  OBVIOUS
<1>0. /\ DescInv /\ CacheInv /\ DirInv /\ DiskInv /\ DiskTypes /\ halted = "no" /\ Calling(p)
      /\ FreeFds(p) # {} /\ FreeDescs # {} /\ n # 0
      /\ UNCHANGED <<alive, fork>>
      /\ UNCHANGED dirVars /\ UNCHANGED <<dinode, imap, smap, logged>>
  BY <1>1 DEF IInv, DiskInv, Open, Calling, diskVars
<1>3. n \in Inode /\ (writes = 0 => n \in imap) /\ (n \in imap <=> dinode[n].i_mode # "none")
  BY <1>0, <1>1, FoundIsInode DEF DiskInv, InodesAgree
<1>4. DirInv' /\ DiskInv'
  BY <1>0, SameDir, SameDisk
<1>5. \/ /\ s = 0 /\ halted' = "main.c:322"
         /\ UNCHANGED <<filp, f_desc_table, opened, inode_table>>
      \/ /\ s # 0 /\ inode_table' = get_inode(n) /\ OpenDesc(p, s, n)
         /\ IF get_inode(n)[s].i_mode = "none" THEN halted' = "open.c:105" ELSE halted' = halted
  BY <1>1, <1>2 DEF Open, Halt
<1>6. CASE s = 0
  <2>1. UNCHANGED <<filp, f_desc_table, opened, inode_table>> /\ HaltInv'
    BY <1>5, <1>6 DEF HaltInv
  <2>2. DescInv' /\ \A t : UsersOf(t)' = UsersOf(t)
    BY <1>0, <2>1, SameDescs
  <2>3. CacheTypes' /\ CachedIsInode' /\ CacheCoherent' /\ Kept
    BY <1>0, <2>1, SameCache
  <2>4. /\ \A d \in Desc : Live(d) => inode_table[f_desc_table[d].fd_inode].i_num \in imap'
        /\ \A t \in Slot : inode_table'[t].i_cnt >= UsersOf(t)
    BY <1>0, <2>1 DEF CacheInv, SlotsBacked, Backed
  <2>5. SlotsBacked'
    BY <1>0, <2>1, <2>2, <2>3, <2>4, BackedSame
  <2> QED
    BY <1>4, <2>1, <2>2, <2>3, <2>5 DEF IInv, CacheInv
<1>7. CASE s # 0
  <2>1. /\ inode_table' = get_inode(n) /\ OpenDesc(p, s, n)
        /\ IF inode_table'[s].i_mode = "none" THEN halted' = "open.c:105" ELSE halted' = halted
    BY <1>5, <1>7
  <2>2. /\ CacheTypes' /\ CachedIsInode' /\ CacheCoherent' /\ Kept
        /\ s \in Slot /\ inode_table'[s].i_num = n /\ inode_table'[s].i_mode = dinode[n].i_mode
        /\ \A t \in Slot : inode_table'[t].i_cnt =
                 IF t = s THEN inode_table[t].i_cnt + 1 ELSE inode_table[t].i_cnt
    BY <1>0, <1>2, <1>3, <1>7, <2>1, Take
  <2>3. /\ DescInv'
        /\ \A t \in Slot : UsersOf(t)' = IF t = s THEN UsersOf(t) + 1 ELSE UsersOf(t)
    BY <1>0, <1>3, <2>1, <2>2, NewDesc
  <2>4. CASE n \notin imap
    <3>1. halted' = "open.c:105" /\ writes # 0 /\ writes' = writes
      BY <1>0, <1>3, <2>1, <2>2, <2>4 DEF dirVars
    <3>2. SlotsBacked' /\ HaltInv'
      BY <3>1 DEF SlotsBacked, HaltInv
    <3> QED
      BY <1>4, <2>2, <2>3, <3>2 DEF IInv, CacheInv
  <2>5. CASE n \in imap
    <3>1. halted' = halted
      BY <1>3, <2>1, <2>2, <2>5
    <3>2. inode_table'[s].i_cnt >= UsersOf(s) + 1
      <4>1. inode_table[s].i_cnt >= UsersOf(s) /\ UsersOf(s) \in Nat /\ inode_table[s].i_cnt \in Nat
        BY <1>0, <2>2, UsersOfType DEF DescInv, CacheInv, SlotsBacked, CacheTypes
      <4> QED
        BY <2>2, <4>1
    <3>3. SlotsBacked'
      BY <1>0, <1>3, <2>1, <2>2, <2>3, <2>5, <3>2, BackedNew
    <3>4. HaltInv'
      BY <1>0, <3>1 DEF IInv, HaltInv
    <3> QED
      BY <1>4, <2>2, <2>3, <3>3, <3>4 DEF IInv, CacheInv
  <2> QED
    BY <2>4, <2>5
<1> QED
  BY <1>6, <1>7

-----------------------------------------------------------------------------
(* The maps of the disk *)

(* The bits of the sector map are more than the sectors.                    *)
LEMMA BitRange ==
    \E M \in Nat : /\ Bit = 0 .. M - 1 /\ Start = n_1st_sect .. n_1st_sect + M
                   /\ nr_sects < M
<1> DEFINE q == nr_sects \div SECTOR_BITS
           M == (q + 1) * SECTOR_BITS
<1>1. nr_sects \in Nat /\ SECTOR_BITS \in Nat /\ SECTOR_BITS > 0
  BY Sizes
<1>2. q \in Nat /\ nr_sects < (q + 1) * SECTOR_BITS
  BY <1>1
<1>3. M \in Nat
  BY <1>1, <1>2
<1> QED
  BY <1>2, <1>3 DEF Bit, Start

(* Sets of bits are finite.                                                 *)
LEMMA BitFinite == \A T : T \subseteq Bit => IsFiniteSet(T) /\ Cardinality(T) \in Nat
<1>1. PICK M \in Nat : Bit = 0 .. M - 1
  BY BitRange
<1>2. IsFiniteSet(Bit)
  BY <1>1, FS_Interval
<1> QED
  BY <1>2, FS_Subset, FS_CardinalityType

(* The extent that alloc_smap_bit finds.                                    *)
LEMMA NewExtent ==
    ASSUME DiskInv, halted = "no", AllocFails = "no"
    PROVE  /\ AllocBits \subseteq Bit /\ AllocBits \cap smap = {}
           /\ Cardinality(AllocBits) = NR_DEFAULT_FILE_SECTS
           /\ alloc_smap_bit \in Start
           /\ BitsOf(alloc_smap_bit) = AllocBits
<1>1. PICK M \in Nat : Bit = 0 .. M - 1 /\ Start = n_1st_sect .. n_1st_sect + M
  BY BitRange
<1>2. /\ ~(Bit \subseteq smap) /\ AllocBits \cap smap = {} /\ AllocBits \subseteq Bit
  BY DEF AllocFails
<1>3. PICK a : a = Min(Bit \ smap)
  OBVIOUS
<1>4. a \in Bit \ smap
  <2>1. Bit \ smap \subseteq Nat /\ Bit \ smap # {}
    BY <1>1, <1>2
  <2> QED
    BY <1>3, <2>1, MinIsLeast
<1>5. a \in Nat /\ a > 0 /\ a <= M - 1
  <2>1. 0 \in smap
    BY Sizes DEF DiskInv, MapsAgree
  <2> QED
    BY <1>1, <1>4, <2>1
<1>6. AllocBits = a .. a + NR_DEFAULT_FILE_SECTS - 1
  BY <1>3 DEF AllocBits
<1>7. Min(AllocBits) = a
  <2>1. AllocBits \subseteq Nat /\ a \in AllocBits /\ \A x \in AllocBits : a <= x
    BY <1>5, <1>6, Sizes
  <2>2. Min(AllocBits) \in AllocBits /\ \A x \in AllocBits : Min(AllocBits) <= x
    BY <2>1, MinIsLeast
  <2>3. Min(AllocBits) \in Nat /\ a <= Min(AllocBits) /\ Min(AllocBits) <= a
    BY <2>1, <2>2
  <2> QED
    BY <1>5, <2>3
<1>8. alloc_smap_bit = a - 1 + n_1st_sect
  BY <1>7 DEF alloc_smap_bit
<1>9. alloc_smap_bit \in Start
  BY <1>1, <1>5, <1>8, Sizes
<1>10. BitsOf(alloc_smap_bit) = AllocBits
  <2>1. alloc_smap_bit - n_1st_sect + 1 = a
    BY <1>5, <1>8, Sizes
  <2>2. alloc_smap_bit - n_1st_sect + NR_DEFAULT_FILE_SECTS = a + NR_DEFAULT_FILE_SECTS - 1
    BY <1>5, <1>8, Sizes
  <2> QED
    BY <1>6, <2>1, <2>2 DEF BitsOf
<1>11. Cardinality(AllocBits) = NR_DEFAULT_FILE_SECTS
  <2>1. a \in Int /\ a + NR_DEFAULT_FILE_SECTS - 1 \in Int
        /\ a <= a + NR_DEFAULT_FILE_SECTS - 1
    BY <1>5, Sizes
  <2>2. Cardinality(a .. a + NR_DEFAULT_FILE_SECTS - 1) = (a + NR_DEFAULT_FILE_SECTS - 1) - a + 1
    BY <2>1, FS_Interval
  <2> QED
    BY <1>5, <1>6, <2>2, Sizes
<1> QED
  BY <1>2, <1>9, <1>10, <1>11

(* The sectors of the directory, the log and the files.                     *)
Owned == RootBits \cup (IF logged THEN LogBits ELSE {}) \cup UNION {Extent(n) : n \in Regular}

SmapSize == 1 + NR_DEFAULT_FILE_SECTS * (1 + Cardinality(Regular) + (IF logged THEN 1 ELSE 0))

(* MapsAgree in terms of Owned and SmapSize.                                *)
LEMMA MapsParts ==
    ASSUME DiskInv, halted = "no"
    PROVE  /\ imap = {n \in Inode : dinode[n].i_mode # "none"}
           /\ smap = Owned /\ Cardinality(smap) = SmapSize
BY DEF DiskInv, MapsAgree, Owned, SmapSize, RootBits, LogBits, Extent

(* MapsAgree after a step, from the same.                                   *)
LEMMA MapsNext ==
    ASSUME imap' = {n \in Inode : dinode'[n].i_mode # "none"},
           smap' = Owned', Cardinality(smap') = SmapSize'
    PROVE  MapsAgree'
BY DEF MapsAgree, Owned, SmapSize, RootBits, LogBits, Extent

(* There are NR_REGULAR + 2 inodes.                                         *)
LEMMA InodeFinite == IsFiniteSet(Inode) /\ Cardinality(Inode) = NR_REGULAR + 2
<1>1. 1 \in Int /\ NR_REGULAR + 2 \in Int /\ 1 <= NR_REGULAR + 2
  BY Sizes
<1>2. IsFiniteSet(Inode) /\ Cardinality(Inode) = (NR_REGULAR + 2) - 1 + 1
  BY <1>1, FS_Interval DEF Inode
<1> QED
  BY <1>2, Sizes

(* The regular files are finitely many.                                     *)
LEMMA RegularFinite == IsFiniteSet(Regular) /\ Cardinality(Regular) \in Nat
<1> QED
  BY InodeFinite, FS_Subset, FS_CardinalityType DEF Regular

(* The sectors of the log are NR_DEFAULT_FILE_SECTS bits of the map.        *)
LEMMA LogFits == /\ LogBits \subseteq Bit /\ IsFiniteSet(LogBits)
                 /\ Cardinality(LogBits) = NR_DEFAULT_FILE_SECTS
<1>1. PICK M \in Nat : Bit = 0 .. M - 1 /\ nr_sects < M
  BY BitRange
<1>2. LogBits \subseteq Bit
  BY <1>1, Sizes DEF LogBits
<1>3. /\ nr_sects - NR_DEFAULT_FILE_SECTS \in Int /\ nr_sects - 1 \in Int
      /\ nr_sects - NR_DEFAULT_FILE_SECTS <= nr_sects - 1
  BY Sizes
<1>4. Cardinality(LogBits) = (nr_sects - 1) - (nr_sects - NR_DEFAULT_FILE_SECTS) + 1
  BY <1>3, FS_Interval DEF LogBits
<1> QED
  BY <1>2, <1>4, BitFinite, Sizes

(* create_file: the new inode n and its sectors.                            *)
LEMMA CreateDisk ==
    ASSUME DiskInv, halted = "no", AllocFails = "no", NEW n \in Inode, n \notin imap,
           imap' = imap \cup {n}, smap' = smap \cup AllocBits, logged' = logged,
           dinode' = [dinode EXCEPT ![n] = [i_mode |-> "regular", i_start |-> alloc_smap_bit]]
    PROVE  DiskInv'
<1>0. /\ DiskTypes
      /\ imap = {m \in Inode : dinode[m].i_mode # "none"}
      /\ smap = Owned /\ Cardinality(smap) = SmapSize
      /\ dinode[ROOT_INODE].i_mode = "dir"
  BY MapsParts DEF DiskInv, InodesAgree
<1>1. /\ AllocBits \subseteq Bit /\ AllocBits \cap smap = {}
      /\ Cardinality(AllocBits) = NR_DEFAULT_FILE_SECTS
      /\ alloc_smap_bit \in Start
      /\ BitsOf(alloc_smap_bit) = AllocBits
  BY NewExtent
<1>2. \A m \in Inode : dinode'[m] = IF m = n THEN [i_mode |-> "regular", i_start |-> alloc_smap_bit]
                                    ELSE dinode[m]
  BY <1>0 DEF DiskTypes
<1>3. DiskTypes'
  <2>1. [i_mode |-> "regular", i_start |-> alloc_smap_bit] \in
            [i_mode : {"none", "dir", "char", "regular"}, i_start : Start \cup {0}]
    BY <1>1
  <2>2. dinode' \in [Inode -> [i_mode : {"none", "dir", "char", "regular"},
                               i_start : Start \cup {0}]]
    BY <1>0, <2>1 DEF DiskTypes
  <2> QED
    BY <1>0, <1>1, <2>2 DEF DiskTypes
<1>4. imap' = {m \in Inode : dinode'[m].i_mode # "none"}
  BY <1>0, <1>2
<1>5. InodesAgree'
  <2>1. ROOT_INODE \in Inode /\ n # ROOT_INODE
    BY <1>0, Sizes DEF Inode, ROOT_INODE
  <2> QED
    BY <1>0, <1>2, <1>4, <2>1 DEF InodesAgree
<1>6. n \notin Regular /\ Regular' = Regular \cup {n}
  BY <1>0, <1>2 DEF Regular
<1>7. /\ Extent(n)' = AllocBits
      /\ \A m \in Regular : Extent(m)' = Extent(m)
  BY <1>1, <1>2, <1>6 DEF Extent, Regular
<1>8. \A m \in Regular : Extent(m) \subseteq smap
  BY <1>0 DEF Owned
<1>9. RootBits \subseteq smap /\ (logged => LogBits \subseteq smap)
  BY <1>0 DEF Owned
<1>10. ExtentsApart'
  <2>1. ASSUME NEW m \in Regular'
        PROVE  /\ Extent(m)' \cap RootBits = {}
               /\ logged => Extent(m)' \cap LogBits = {}
               /\ \A k \in Regular' : k # m => Extent(m)' \cap Extent(k)' = {}
    <3>1. CASE m = n
      BY <1>1, <1>6, <1>7, <1>8, <1>9, <3>1
    <3>2. CASE m # n
      <4>1. m \in Regular
        BY <1>6, <3>2
      <4>2. /\ Extent(m) \cap RootBits = {}
            /\ logged => Extent(m) \cap LogBits = {}
            /\ \A k \in Regular : k # m => Extent(m) \cap Extent(k) = {}
        BY <4>1 DEF DiskInv, ExtentsApart
      <4>3. Extent(m) \cap Extent(n)' = {}
        BY <1>1, <1>7, <1>8, <4>1
      <4> QED
        BY <1>6, <1>7, <4>1, <4>2, <4>3
    <3> QED
      BY <3>1, <3>2
  <2>2. logged => LogBits \cap RootBits = {}
    BY DEF DiskInv, ExtentsApart
  <2> QED
    BY <2>1, <2>2 DEF ExtentsApart
<1>11. smap' = Owned'
  <2>1. UNION {Extent(m)' : m \in Regular'} = AllocBits \cup UNION {Extent(m) : m \in Regular}
    BY <1>6, <1>7
  <2> QED
    BY <1>0, <2>1 DEF Owned
<1>12. Cardinality(smap') = SmapSize'
  <2>1. IsFiniteSet(smap) /\ IsFiniteSet(AllocBits)
    BY <1>0, <1>1, BitFinite DEF DiskTypes
  <2>2. Cardinality(smap') = Cardinality(smap) + NR_DEFAULT_FILE_SECTS
    BY <1>1, <2>1, DisjointUnion
  <2>3. Cardinality(Regular') = Cardinality(Regular) + 1
    BY <1>6, RegularFinite, FS_AddElement
  <2>4. PICK r \in Nat : r = Cardinality(Regular)
    BY RegularFinite
  <2>5. PICK e \in Nat : e = IF logged THEN 1 ELSE 0
    OBVIOUS
  <2>6. PICK N \in Nat : N = NR_DEFAULT_FILE_SECTS
    BY Sizes
  <2>7. 1 + N * (1 + r + e) + N = 1 + N * (1 + (r + 1) + e)
    BY <2>4, <2>5, <2>6
  <2>8. SmapSize = 1 + N * (1 + r + e) /\ SmapSize' = 1 + N * (1 + (r + 1) + e)
    BY <2>3, <2>4, <2>5, <2>6 DEF SmapSize
  <2> QED
    BY <1>0, <2>2, <2>6, <2>7, <2>8
<1>13. MapsAgree'
  BY <1>4, <1>11, <1>12, MapsNext
<1> QED
  BY <1>3, <1>5, <1>10, <1>13 DEF DiskInv

(* The inodes that do_unlink leaves agree with the inode map, their sectors *)
(* are apart, and map is the sector map of them.                            *)
NewInodes ==
    /\ dinode' \in [Inode -> [i_mode : {"none", "dir", "char", "regular"},
                              i_start : Start \cup {0}]]
    /\ imap' = {n \in Inode : dinode'[n].i_mode # "none"}
    /\ dinode'[ROOT_INODE].i_mode = "dir"

NewApart ==
    /\ \A n \in Regular' : /\ Extent(n)' \cap RootBits = {}
                           /\ logged => Extent(n)' \cap LogBits = {}
                           /\ \A m \in Regular' : m # n => Extent(n)' \cap Extent(m)' = {}
    /\ logged => LogBits \cap RootBits = {}

NewMap(map) ==
    /\ map \subseteq Bit
    /\ map = RootBits \cup (IF logged THEN LogBits ELSE {})
                      \cup UNION {Extent(n)' : n \in Regular'}
    /\ Cardinality(map) = 1 + NR_DEFAULT_FILE_SECTS *
            (1 + Cardinality(Regular') + (IF logged THEN 1 ELSE 0))

(* disklog, called with a sector map of the new inodes.                     *)
LEMMA LogDisk ==
    ASSUME logged \in BOOLEAN, NEW map, disklog(map), halted = "no",
           NewInodes, NewApart, NewMap(map)
    PROVE  DiskInv' /\ halted' \in {"no", "disklog.c:52"}
<1>0. /\ dinode' \in [Inode -> [i_mode : {"none", "dir", "char", "regular"},
                                i_start : Start \cup {0}]]
      /\ imap' = {n \in Inode : dinode'[n].i_mode # "none"}
      /\ dinode'[ROOT_INODE].i_mode = "dir"
      /\ map \subseteq Bit
      /\ map = RootBits \cup (IF logged THEN LogBits ELSE {})
                        \cup UNION {Extent(n)' : n \in Regular'}
      /\ Cardinality(map) = 1 + NR_DEFAULT_FILE_SECTS *
                (1 + Cardinality(Regular') + (IF logged THEN 1 ELSE 0))
  BY DEF NewInodes, NewMap
<1>1. \/ /\ halted' = "disklog.c:52" /\ smap' = map /\ logged' = logged
      \/ /\ logged /\ smap' = map /\ logged' = TRUE /\ halted' = halted
      \/ /\ ~logged /\ LogBits \cap map = {} /\ smap' = map \cup LogBits
         /\ logged' = TRUE /\ halted' = halted
  BY DEF disklog, Halt, LogBits
<1>2. InodesAgree'
  BY <1>0 DEF InodesAgree
<1>3. DiskTypes'
  <2>1. smap' \subseteq Bit /\ logged' \in BOOLEAN
    BY <1>0, <1>1, LogFits
  <2>2. imap' \subseteq Inode
    BY <1>0
  <2> QED
    BY <1>0, <2>1, <2>2 DEF DiskTypes
<1>4. CASE halted' = "disklog.c:52"
  <2>1. ExtentsApart' /\ MapsAgree'
    BY <1>4 DEF ExtentsApart, MapsAgree
  <2> QED
    BY <1>2, <1>3, <1>4, <2>1 DEF DiskInv
<1>5. CASE logged /\ smap' = map /\ logged' = TRUE /\ halted' = halted
  <2>1. ExtentsApart'
    BY <1>5 DEF ExtentsApart, NewApart
  <2>2. smap' = Owned' /\ Cardinality(smap') = SmapSize'
    BY <1>0, <1>5 DEF Owned, SmapSize
  <2> QED
    BY <1>0, <1>2, <1>3, <1>5, <2>1, <2>2, MapsNext DEF DiskInv
<1>6. CASE /\ ~logged /\ LogBits \cap map = {} /\ smap' = map \cup LogBits
           /\ logged' = TRUE /\ halted' = halted
  <2>1. RootBits \subseteq map /\ \A n \in Regular' : Extent(n)' \subseteq map
    BY <1>0, <1>6
  <2>2. ExtentsApart'
    BY <1>6, <2>1 DEF ExtentsApart, NewApart
  <2>3. smap' = Owned'
    <3>1. map = RootBits \cup UNION {Extent(n)' : n \in Regular'}
      BY <1>0, <1>6
    <3> QED
      BY <1>6, <3>1 DEF Owned
  <2>4. Cardinality(smap') = SmapSize'
    <3>1. IsFiniteSet(map)
      BY <1>0, BitFinite
    <3>2. Cardinality(smap') = Cardinality(map) + NR_DEFAULT_FILE_SECTS
      <4>1. map \cap LogBits = {}
        BY <1>6
      <4> QED
        BY <1>6, <3>1, <4>1, LogFits, DisjointUnion
    <3>3. PICK r \in Nat : r = Cardinality(Regular')
      <4>1. Regular' \in SUBSET Inode
        BY DEF Regular
      <4> QED
        BY <4>1, InodeFinite, FS_Subset, FS_CardinalityType
    <3>4. PICK N \in Nat : N = NR_DEFAULT_FILE_SECTS
      BY Sizes
    <3>5. 1 + N * (1 + r + 0) + N = 1 + N * (1 + r + 1)
      BY <3>3, <3>4
    <3>6. Cardinality(map) = 1 + N * (1 + r + 0) /\ SmapSize' = 1 + N * (1 + r + 1)
      BY <1>0, <1>6, <3>3, <3>4 DEF SmapSize
    <3> QED
      BY <3>2, <3>4, <3>5, <3>6
  <2> QED
    BY <1>0, <1>2, <1>3, <1>6, <2>2, <2>3, <2>4, MapsNext DEF DiskInv
<1> QED
  BY <1>1, <1>4, <1>5, <1>6

(* do_unlink that removes nothing.                                          *)
LEMMA LogOnly ==
    ASSUME DiskInv, halted = "no", dump_fd_graph(smap), UNCHANGED <<dinode, imap>>
    PROVE  DiskInv' /\ halted' \in {"no", "disklog.c:52"}
<1>1. Regular' = Regular /\ \A n : Extent(n)' = Extent(n)
  BY DEF Regular, Extent
<1>2. /\ smap = Owned /\ Cardinality(smap) = SmapSize
      /\ imap = {n \in Inode : dinode[n].i_mode # "none"}
  BY MapsParts
<1>3. PICK map : map = smap
  OBVIOUS
<1>4. NewMap(map)
  BY <1>1, <1>2, <1>3 DEF Owned, SmapSize, NewMap, DiskInv, DiskTypes
<1>5. NewApart
  BY <1>1 DEF DiskInv, ExtentsApart, NewApart
<1>6. NewInodes /\ logged \in BOOLEAN
  BY <1>2 DEF DiskInv, DiskTypes, InodesAgree, NewInodes
<1>7. disklog(map)
  BY <1>3 DEF dump_fd_graph
<1> QED
  BY <1>4, <1>5, <1>6, <1>7, LogDisk

(* do_unlink of the file n, whose sectors are released.                     *)
LEMMA UnlinkDisk ==
    ASSUME DiskInv, halted = "no", NEW n \in Regular,
           dinode' = [dinode EXCEPT ![n] = NoInode], imap' = imap \ {n},
           NEW map, map = smap \ Extent(n), disklog(map)
    PROVE  DiskInv' /\ halted' \in {"no", "disklog.c:52"}
<1>0. /\ DiskTypes
      /\ imap = {m \in Inode : dinode[m].i_mode # "none"}
      /\ smap = Owned /\ Cardinality(smap) = SmapSize
      /\ dinode[ROOT_INODE].i_mode = "dir"
  BY MapsParts DEF DiskInv, InodesAgree
<1>1. n \in Inode /\ dinode[n].i_mode = "regular" /\ n # ROOT_INODE /\ ROOT_INODE \in Inode
  BY <1>0, Sizes DEF Regular, Inode, ROOT_INODE
<1>2. \A m \in Inode : dinode'[m] = IF m = n THEN NoInode ELSE dinode[m]
  BY <1>0 DEF DiskTypes
<1>3. NoInode \in [i_mode : {"none", "dir", "char", "regular"}, i_start : Start \cup {0}]
      /\ NoInode.i_mode = "none"
  BY DEF NoInode
<1>4. NewInodes
  <2>1. dinode' \in [Inode -> [i_mode : {"none", "dir", "char", "regular"},
                               i_start : Start \cup {0}]]
    BY <1>0, <1>3 DEF DiskTypes
  <2>2. imap' = {m \in Inode : dinode'[m].i_mode # "none"}
    BY <1>0, <1>2, <1>3
  <2>3. dinode'[ROOT_INODE].i_mode = "dir"
    BY <1>0, <1>1, <1>2
  <2> QED
    BY <2>1, <2>2, <2>3 DEF NewInodes
<1>5. Regular' = Regular \ {n}
  BY <1>2, <1>3 DEF Regular
<1>6. \A m \in Regular' : m \in Regular /\ m # n /\ Extent(m)' = Extent(m)
  BY <1>2, <1>5 DEF Extent, Regular
<1>7. NewApart
  BY <1>6 DEF NewApart, DiskInv, ExtentsApart
<1>8. map = RootBits \cup (IF logged THEN LogBits ELSE {})
                    \cup UNION {Extent(m)' : m \in Regular'}
  <2>1. /\ Extent(n) \cap RootBits = {}
        /\ logged => Extent(n) \cap LogBits = {}
        /\ \A m \in Regular' : Extent(m) \cap Extent(n) = {}
    BY <1>6 DEF DiskInv, ExtentsApart
  <2>2. UNION {Extent(m)' : m \in Regular'} = UNION {Extent(m) : m \in Regular \ {n}}
    BY <1>5, <1>6
  <2>3. UNION {Extent(m) : m \in Regular}
            = Extent(n) \cup (UNION {Extent(m) : m \in Regular \ {n}})
    OBVIOUS
  <2>4. (UNION {Extent(m) : m \in Regular \ {n}}) \cap Extent(n) = {}
    BY <1>5, <2>1
  <2>5. PICK rest : rest = UNION {Extent(m) : m \in Regular \ {n}}
    OBVIOUS
  <2>6. PICK log : log = IF logged THEN LogBits ELSE {}
    OBVIOUS
  <2>7. smap = RootBits \cup log \cup (Extent(n) \cup rest)
    BY <1>0, <2>3, <2>5, <2>6 DEF Owned
  <2>8. log \cap Extent(n) = {} /\ rest \cap Extent(n) = {}
    BY <2>1, <2>4, <2>5, <2>6
  <2>9. map = RootBits \cup log \cup rest
    BY <2>1, <2>7, <2>8
  <2> QED
    BY <2>2, <2>5, <2>6, <2>9
<1>9. Cardinality(map) = 1 + NR_DEFAULT_FILE_SECTS *
          (1 + Cardinality(Regular') + (IF logged THEN 1 ELSE 0))
  <2>1. map \subseteq Bit /\ Extent(n) \subseteq smap /\ smap \subseteq Bit
    BY <1>0 DEF DiskTypes, Owned
  <2>2. IsFiniteSet(map) /\ Cardinality(map) \in Nat /\ IsFiniteSet(Extent(n))
    BY <2>1, BitFinite
  <2>3. map \cap Extent(n) = {} /\ smap = map \cup Extent(n)
    BY <2>1
  <2>4. Cardinality(smap) = Cardinality(map) + Cardinality(Extent(n))
    BY <2>2, <2>3, DisjointUnion
  <2>5. Cardinality(Extent(n)) = NR_DEFAULT_FILE_SECTS
    <3>1. PICK M \in Nat : Start = n_1st_sect .. n_1st_sect + M
      BY BitRange
    <3>2. PICK a \in Int : a = dinode[n].i_start
      BY <1>0, <1>1, <3>1, Sizes DEF DiskTypes
    <3>3. PICK lo \in Int : lo = a - n_1st_sect + 1
      BY Sizes
    <3>4. PICK hi \in Int : hi = a - n_1st_sect + NR_DEFAULT_FILE_SECTS
      BY Sizes
    <3>5. lo <= hi /\ hi - lo + 1 = NR_DEFAULT_FILE_SECTS
      BY <3>3, <3>4, Sizes
    <3>6. Cardinality(lo .. hi) = hi - lo + 1
      BY <3>5, FS_Interval
    <3> QED
      BY <3>2, <3>3, <3>4, <3>5, <3>6 DEF Extent, BitsOf
  <2>6. PICK r \in Nat : r = Cardinality(Regular')
    <3>1. IsFiniteSet(Regular')
      BY <1>5, RegularFinite, FS_Subset
    <3> QED
      BY <3>1, FS_CardinalityType
  <2>7. Cardinality(Regular) = r + 1
    <3>1. Cardinality(Regular \ {n}) = Cardinality(Regular) - 1
      BY RegularFinite, FS_RemoveElement
    <3> QED
      BY <1>5, <2>6, <3>1, RegularFinite
  <2>8. PICK e \in Nat : e = IF logged THEN 1 ELSE 0
    OBVIOUS
  <2>9. PICK N \in Nat : N = NR_DEFAULT_FILE_SECTS
    BY Sizes
  <2>10. 1 + N * (1 + r + e) + N = 1 + N * (1 + (r + 1) + e) /\ 1 + N * (1 + r + e) \in Nat
    BY <2>6, <2>8, <2>9
  <2>11. SmapSize = 1 + N * (1 + (r + 1) + e)
    BY <2>7, <2>8, <2>9 DEF SmapSize
  <2>12. Cardinality(map) = 1 + N * (1 + r + e)
    <3>1. PICK a \in Nat : a = 1 + N * (1 + r + e)
      BY <2>10
    <3>2. SmapSize = a + N
      BY <2>10, <2>11, <3>1
    <3>3. a + N = Cardinality(map) + N
      BY <1>0, <2>4, <2>5, <2>9, <3>2
    <3> QED
      BY <2>2, <2>9, <3>1, <3>3
  <2> QED
    BY <2>6, <2>8, <2>9, <2>12
<1>10. NewMap(map)
  <2>1. map \subseteq Bit
    BY <1>0 DEF DiskTypes
  <2> QED
    BY <1>8, <1>9, <2>1 DEF NewMap
<1> QED
  BY <1>0, <1>4, <1>7, <1>10, LogDisk DEF DiskTypes

-----------------------------------------------------------------------------
(* The directory *)

(* The directory has NR_ENTRIES entries, at least one for every inode.      *)
LEMMA EntryFinite ==
    IsFiniteSet(Entry) /\ Cardinality(Entry) = NR_ENTRIES /\ Entry \subseteq Nat
<1>1. 1 \in Int /\ NR_ENTRIES \in Int /\ 1 <= NR_ENTRIES
  BY EntrySizes
<1>2. IsFiniteSet(Entry) /\ Cardinality(Entry) = NR_ENTRIES - 1 + 1
  BY <1>1, FS_Interval DEF Entry
<1> QED
  BY <1>2, EntrySizes DEF Entry

(* EntrySizes and counts of the directory are natural numbers.                   *)
LEMMA DirSizes ==
    ASSUME DirTypes
    PROVE  /\ i_size \in Nat /\ i_size <= NR_ENTRIES /\ NR_ENTRIES \in Nat
           /\ writes \in Nat /\ writes <= MaxWrites /\ MaxWrites \in Nat
<1>1. i_size \in 0 .. NR_ENTRIES /\ writes \in 0 .. MaxWrites
  BY DEF DirTypes
<1> QED
  BY <1>1, EntrySizes

(* A directory without holes is not full while an inode number is free:     *)
(* its entries are different allocated inodes.                              *)
LEMMA RoomForEntry ==
    ASSUME DirInv, halted = "no", writes = 0, imap \subseteq Inode, NEW n \in Inode, n \notin imap,
           Holes = {}
    PROVE  i_size < NR_ENTRIES
<1>1. i_size \in 0 .. NR_ENTRIES
  BY DEF DirInv, DirTypes
<1>2. CASE i_size = NR_ENTRIES
  <2> DEFINE g == [j \in Entry |-> dir[j].inode_nr]
  <2>1. \A j \in Entry : dir[j].inode_nr # 0
    BY <1>2, EntrySizes DEF Holes, Entry
  <2>2. g \in [Entry -> imap]
    BY <2>1 DEF DirInv, EntriesMeanFiles
  <2>3. \A j, k \in Entry : g[j] = g[k] => j = k
    BY <2>1 DEF DirInv, EntriesMeanFiles
  <2>4. imap \subseteq Inode \ {n} /\ IsFiniteSet(Inode \ {n})
        /\ Cardinality(Inode \ {n}) = Cardinality(Inode) - 1
    BY InodeFinite, FS_RemoveElement
  <2>5. IsFiniteSet(imap) /\ Cardinality(imap) \in Nat
        /\ Cardinality(imap) <= Cardinality(Inode \ {n})
    BY <2>4, FS_Subset, FS_CardinalityType
  <2>6. Cardinality(imap) < Cardinality(Entry)
    BY <2>4, <2>5, InodeFinite, EntryFinite, EntrySizes
  <2> HIDE DEF g
  <2>7. \E j, k \in Entry : j # k /\ g[j] = g[k]
    BY <2>2, <2>5, <2>6, EntryFinite, FS_PigeonHole
  <2> QED
    BY <2>3, <2>7
<1> QED
  BY <1>1, <1>2, EntrySizes

(* new_dir_entry of a new inode.                                            *)
LEMMA NewEntry ==
    ASSUME DirInv, halted = "no", imap \subseteq Inode, NEW n \in Inode, n \notin imap,
           NEW path \in Path, new_dir_entry(n, path), imap' = imap \cup {n},
           writes > 0 => Holes # {} \/ i_size < NR_ENTRIES
    PROVE  DirInv'
<1>0. DirTypes /\ 0 \notin Inode /\ writes' = writes /\ cut' = cut
  BY Sizes DEF DirInv, Inode, new_dir_entry
<1>1. PICK i \in Entry : /\ dir' = [dir EXCEPT ![i] = [inode_nr |-> n, name |-> path]]
                         /\ i_size' \in i_size .. NR_ENTRIES /\ i <= i_size'
                         /\ i <= i_size => dir[i].inode_nr = 0
  <2>1. CASE Holes = {}
    <3>1. /\ dir' = [dir EXCEPT ![i_size + 1] = [inode_nr |-> n, name |-> path]]
          /\ i_size' = i_size + 1
      BY <2>1 DEF new_dir_entry
    <3>2. i_size \in Nat /\ i_size < NR_ENTRIES
      BY <1>0, <2>1, DirSizes, RoomForEntry
    <3>3. PICK i \in Entry : /\ i = i_size + 1 /\ i \in i_size .. NR_ENTRIES /\ i <= i
                             /\ ~(i <= i_size)
      BY <3>2, EntrySizes DEF Entry
    <3>4. i_size' = i /\ dir' = [dir EXCEPT ![i] = [inode_nr |-> n, name |-> path]]
      BY <3>1, <3>3
    <3> QED
      BY <3>3, <3>4
  <2>2. CASE Holes # {}
    <3>1. Holes \subseteq Entry
      BY DEF Holes
    <3>2. Min(Holes) \in Holes
      BY <2>2, <3>1, EntryFinite, MinIsLeast
    <3>3. /\ dir' = [dir EXCEPT ![Min(Holes)] = [inode_nr |-> n, name |-> path]]
          /\ i_size' = i_size
      BY <2>2 DEF new_dir_entry
    <3>4. i_size \in i_size .. NR_ENTRIES
      BY <1>0, DirSizes
    <3> QED
      BY <3>2, <3>3, <3>4 DEF Holes
  <2> QED
    BY <2>1, <2>2
<1>2. \A j \in Entry : dir'[j] = IF j = i THEN [inode_nr |-> n, name |-> path] ELSE dir[j]
  BY <1>0, <1>1 DEF DirTypes
<1>3. DirTypes'
  <2>1. [inode_nr |-> n, name |-> path] \in [inode_nr : Inode \cup {0}, name : Path \cup {""}]
    OBVIOUS
  <2>2. i_size' \in 0 .. NR_ENTRIES
    BY <1>0, <1>1, DirSizes
  <2> QED
    BY <1>0, <1>1, <2>1, <2>2 DEF DirTypes
<1>4. writes = 0 => \A j \in Entry : j # i /\ dir[j].inode_nr # 0 => dir[j].inode_nr \in imap
  BY DEF DirInv, EntriesMeanFiles
<1>5. \A j \in Entry : dir'[j].inode_nr = IF j = i THEN n ELSE dir[j].inode_nr
  BY <1>2
<1>6. n # 0
  BY <1>0
<1>7. ASSUME writes = 0, NEW j \in Entry, dir'[j].inode_nr # 0
      PROVE  /\ dir'[j].inode_nr \in imap'
             /\ \A k \in Entry : dir'[k].inode_nr = dir'[j].inode_nr => j = k
  <2>1. CASE j = i
    BY <1>4, <1>5, <1>6, <1>7, <2>1
  <2>2. CASE j # i
    <3>1. dir[j].inode_nr # 0 /\ dir[j].inode_nr \in imap
      BY <1>4, <1>5, <1>7, <2>2
    <3>2. \A k \in Entry : dir[k].inode_nr = dir[j].inode_nr => j = k
      BY <1>7, <3>1 DEF DirInv, EntriesMeanFiles
    <3> QED
      BY <1>5, <2>2, <3>1, <3>2
  <2> QED
    BY <2>1, <2>2
<1>8. ASSUME writes = 0, ~ cut, NEW m \in imap'
      PROVE  \E j \in 1 .. i_size' : dir'[j].inode_nr = m
  <2>1. CASE m = n
    <3>1. i \in 1 .. i_size'
      BY <1>0, <1>1, DirSizes DEF Entry
    <3> QED
      BY <1>5, <2>1, <3>1
  <2>2. CASE m # n
    <3>1. m \in imap /\ m # 0
      BY <1>0, <1>8, <2>2
    <3>2. PICK j \in 1 .. i_size : dir[j].inode_nr = m
      BY <1>8, <3>1 DEF DirInv, EntriesMeanFiles
    <3>3. j \in Entry /\ j \in 1 .. i_size' /\ j <= i_size
      BY <1>0, <1>1, DirSizes DEF Entry
    <3>4. j # i
      BY <1>1, <3>1, <3>2, <3>3
    <3> QED
      BY <1>5, <3>2, <3>3, <3>4
  <2> QED
    BY <2>1, <2>2
<1>9. EntriesMeanFiles'
  BY <1>0, <1>7, <1>8 DEF EntriesMeanFiles
<1> QED
  BY <1>3, <1>9 DEF DirInv

(* do_unlink clears the entry of the inode that it releases.                *)
LEMMA DroppedEntry ==
    ASSUME DirInv, halted = "no", imap \subseteq Inode, NEW n \in Inode, EntriesOf(n) # {},
           DropEntry(Min(EntriesOf(n))), imap' = imap \ {n}
    PROVE  DirInv'
<1>0. /\ DirTypes /\ 0 \notin Inode /\ writes' = writes
      /\ cut' = (cut \/ \E i \in Entry : i > i_size' /\ dir'[i].inode_nr # 0)
  BY Sizes DEF DirInv, Inode, DropEntry
<1>1. PICK m \in Entry : Min(EntriesOf(n)) = m /\ dir[m].inode_nr = n
  <2>1. EntriesOf(n) \subseteq Nat
    BY EntryFinite DEF EntriesOf
  <2>2. Min(EntriesOf(n)) \in EntriesOf(n)
    BY <2>1, MinIsLeast
  <2> QED
    BY <2>2 DEF EntriesOf
<1>2. \A j \in Entry : dir'[j] = IF j = m THEN NoEntry ELSE dir[j]
  BY <1>0, <1>1 DEF DropEntry, DirTypes
<1>3. i_size' \in 0 .. NR_ENTRIES /\ cut' \in BOOLEAN
  <2> DEFINE T == {i \in Entry : i < m /\ dir[i].inode_nr # 0}
  <2>1. T \in SUBSET Entry
    OBVIOUS
  <2>2. IsFiniteSet(T) /\ Cardinality(T) \in Nat /\ Cardinality(T) <= NR_ENTRIES
    BY <2>1, EntryFinite, FS_Subset, FS_CardinalityType
  <2>3. i_size' = IF m = i_size THEN Cardinality(T) ELSE i_size
    BY <1>1 DEF DropEntry
  <2>4. cut' \in BOOLEAN
    BY <1>0 DEF DirTypes
  <2> QED
    BY <1>0, <2>2, <2>3, <2>4, DirSizes
<1>4. DirTypes'
  <2>1. NoEntry \in [inode_nr : Inode \cup {0}, name : Path \cup {""}]
    BY DEF NoEntry
  <2>2. dir' = [dir EXCEPT ![m] = NoEntry]
    BY <1>1 DEF DropEntry
  <2> QED
    BY <1>0, <1>3, <2>1, <2>2 DEF DirTypes
<1>5. \A j \in Entry : dir'[j].inode_nr = IF j = m THEN 0 ELSE dir[j].inode_nr
  <2>1. NoEntry.inode_nr = 0
    BY DEF NoEntry
  <2> QED
    BY <1>2, <2>1
<1>6. writes = 0 => \A j \in Entry : dir[j].inode_nr = n => j = m
  BY <1>0, <1>1 DEF DirInv, EntriesMeanFiles
<1>7. ASSUME writes = 0, NEW j \in Entry, dir'[j].inode_nr # 0
      PROVE  /\ dir'[j].inode_nr \in imap'
             /\ \A k \in Entry : dir'[k].inode_nr = dir'[j].inode_nr => j = k
  <2>1. j # m /\ dir[j].inode_nr # 0 /\ dir[j].inode_nr # n
    BY <1>5, <1>6, <1>7
  <2>2. /\ dir[j].inode_nr \in imap
        /\ \A k \in Entry : dir[k].inode_nr = dir[j].inode_nr => j = k
    BY <1>7, <2>1 DEF DirInv, EntriesMeanFiles
  <2> QED
    BY <1>5, <2>1, <2>2
<1>8. ASSUME writes = 0, ~ cut', NEW k \in imap'
      PROVE  \E j \in 1 .. i_size' : dir'[j].inode_nr = k
  <2>1. k \in imap /\ k # n /\ ~ cut
    BY <1>0, <1>8
  <2>2. PICK j \in 1 .. i_size : dir[j].inode_nr = k
    BY <1>8, <2>1 DEF DirInv, EntriesMeanFiles
  <2>3. j \in Entry
    BY <1>0, DirSizes DEF Entry
  <2>4. j # m
    BY <1>1, <2>1, <2>2
  <2>5. dir'[j].inode_nr = k
    BY <1>5, <2>2, <2>3, <2>4
  <2>6. k # 0
    <3>1. imap \subseteq Inode
      OBVIOUS
    <3> QED
      BY <1>0, <2>1, <3>1
  <2>7. ~(j > i_size')
    BY <1>0, <1>8, <2>3, <2>5, <2>6
  <2>8. j \in 1 .. i_size'
    BY <1>3, <2>7, Sizes
  <2> QED
    BY <2>5, <2>8
<1>9. EntriesMeanFiles'
  BY <1>0, <1>7, <1>8 DEF EntriesMeanFiles
<1> QED
  BY <1>4, <1>9 DEF DirInv

(* do_unlink finds the entry of a file, unless a process has written into   *)
(* the directory or its size was cut.                                       *)
LEMMA HasEntry ==
    ASSUME DirInv, halted = "no", NEW n \in imap, EntriesOf(n) = {}
    PROVE  writes # 0 \/ cut
<1> SUFFICES ASSUME writes = 0, ~ cut PROVE FALSE
  OBVIOUS
<1>1. PICK j \in 1 .. i_size : dir[j].inode_nr = n
  BY DEF DirInv, EntriesMeanFiles
<1>2. j \in Entry /\ j <= i_size
  BY <1>1, DirSizes DEF DirInv, Entry
<1> QED
  BY <1>1, <1>2 DEF EntriesOf

-----------------------------------------------------------------------------
(* Creating and removing files *)

(* A handler that stops the machine, or writes only the log or a map.       *)
LEMMA SameTables ==
    ASSUME DescInv, CacheInv, DirInv, halted = "no", imap \subseteq imap',
           imap' = imap \/ halted' # "no", dinode' = dinode,
           UNCHANGED <<alive, fork, filp, f_desc_table, opened, inode_table, dirVars>>
    PROVE  DescInv' /\ CacheInv' /\ DirInv'
<1>1. DescInv' /\ \A t : UsersOf(t)' = UsersOf(t)
  BY SameDescs
<1>2. CacheTypes' /\ CachedIsInode' /\ CacheCoherent' /\ Kept
  BY SameCache
<1>3. /\ \A d \in Desc : Live(d) => inode_table[f_desc_table[d].fd_inode].i_num \in imap'
      /\ \A t \in Slot : inode_table'[t].i_cnt >= UsersOf(t)
  BY DEF CacheInv, SlotsBacked, Backed
<1>4. SlotsBacked'
  BY <1>1, <1>2, <1>3, BackedSame
<1>5. DirInv'
  BY SameDir
<1> QED
  BY <1>1, <1>2, <1>4, <1>5 DEF CacheInv

(* new_inode puts the new inode n into a slot that was free, or that a      *)
(* refused unlink has left with n in it: no descriptor leads there.         *)
LEMMA CreateCache ==
    ASSUME DescInv, CacheInv, DiskTypes, halted = "no", NEW n \in Inode, n \notin imap,
           NEW s, SlotOf(n) = s, s # 0, NEW start \in Start,
           new_inode(get_inode(n), s, n, [i_mode |-> "regular", i_start |-> start]),
           imap' = imap \cup {n}
    PROVE  /\ CacheTypes' /\ CachedIsInode' /\ CacheCoherent' /\ Kept
           /\ s \in Slot /\ inode_table'[s].i_num = n /\ inode_table'[s].i_mode = "regular"
           /\ \A t \in Slot : t # s => inode_table'[t].i_cnt = inode_table[t].i_cnt
           /\ inode_table'[s].i_cnt >= UsersOf(s) + 1
<1>0. CacheTypes
  BY DEF CacheInv
<1>1. /\ s \in Slot
      /\ \/ /\ inode_table[s].i_cnt = 0
            /\ \A t \in Slot : inode_table[t].i_cnt > 0 => inode_table[t].i_num # n
         \/ inode_table[s].i_cnt > 0 /\ inode_table[s].i_num = n
      /\ get_inode(n) = [inode_table EXCEPT ![s] =
            [i_num |-> n, i_cnt |-> inode_table[s].i_cnt + 1,
             i_mode |-> dinode[n].i_mode, i_start |-> dinode[n].i_start]]
  BY SlotTaken
<1>2. \A t \in Slot : t # s /\ inode_table[t].i_cnt > 0 => inode_table[t].i_num # n
  BY <1>1, CacheParts
<1>3. PICK t : t = get_inode(n)
  OBVIOUS
<1>4. PICK r : r = [i_num |-> n, i_cnt |-> 1, i_mode |-> "regular", i_start |-> start]
  OBVIOUS
<1>5. /\ inode_table' = [t EXCEPT ![s] = r]
      /\ dinode' = [dinode EXCEPT ![n] = [i_mode |-> "regular", i_start |-> start]]
  BY <1>3, <1>4 DEF new_inode, SyncNew
<1>6. inode_table' = [inode_table EXCEPT ![s] = r]
  BY <1>0, <1>1, <1>3, <1>5 DEF CacheTypes
<1>7. \A u \in Slot : inode_table'[u] = IF u = s THEN r ELSE inode_table[u]
  BY <1>0, <1>6 DEF CacheTypes
<1>8. /\ r \in [i_num : Inode \cup {0}, i_cnt : Nat,
               i_mode : {"none", "dir", "char", "regular"}, i_start : Start \cup {0}]
      /\ r.i_num = n /\ r.i_cnt = 1 /\ r.i_mode = "regular" /\ r.i_start = start
  BY <1>4
<1>9. CacheTypes'
  BY <1>0, <1>6, <1>8 DEF CacheTypes
<1>10. ASSUME NEW d \in Desc, Live(d)
       PROVE  f_desc_table[d].fd_inode \in Slot /\ f_desc_table[d].fd_inode # s
  <2>1. PICK u \in Slot : f_desc_table[d].fd_inode = u /\ inode_table[u].i_cnt > 0
    BY <1>10, LiveIsCached
  <2>2. inode_table[u].i_num \in imap
    BY <1>10, <2>1 DEF CacheInv, SlotsBacked, Backed
  <2>3. u # s
    BY <1>1, <2>1, <2>2
  <2> QED
    BY <2>1, <2>3
<1>11. Kept
  BY <1>7, <1>10 DEF Kept
<1>12. /\ \A u \in Slot : u # s => inode_table'[u].i_cnt = inode_table[u].i_cnt
       /\ inode_table'[s].i_cnt >= UsersOf(s) + 1
  <2>1. \A d \in Desc : f_desc_table[d].fd_inode # s
    <3>1. s # 0
      BY <1>1, Sizes DEF Slot
    <3> QED
      BY <1>10, <3>1 DEF Live
  <2>2. DescsOf(s) = {}
    BY <2>1 DEF DescsOf
  <2>3. UsersOf(s) = 0
    BY <2>2, UsersOfIsSum, SumEmpty
  <2> QED
    BY <1>1, <1>7, <1>8, <2>3
<1>13. ASSUME NEW u \in Slot, inode_table'[u].i_cnt > 0
       PROVE  /\ inode_table'[u].i_num \in Inode
              /\ dinode'[inode_table'[u].i_num] =
                    [i_mode |-> inode_table'[u].i_mode, i_start |-> inode_table'[u].i_start]
  <2>1. CASE u = s
    <3>1. dinode'[n] = [i_mode |-> "regular", i_start |-> start]
      BY <1>5 DEF DiskTypes
    <3> QED
      BY <1>7, <1>8, <2>1, <3>1
  <2>2. CASE u # s
    <3>1. inode_table'[u] = inode_table[u] /\ inode_table[u].i_cnt > 0
      BY <1>7, <1>13, <2>2
    <3>2. /\ inode_table[u].i_num \in Inode /\ inode_table[u].i_num # n
          /\ dinode[inode_table[u].i_num] =
                 [i_mode |-> inode_table[u].i_mode, i_start |-> inode_table[u].i_start]
      BY <1>2, <2>2, <3>1 DEF CacheInv, CachedIsInode, CacheCoherent
    <3>3. PICK k \in Inode : k = inode_table[u].i_num /\ k # n
      BY <3>2
    <3>4. dinode'[k] = dinode[k]
      BY <1>5, <3>3 DEF DiskTypes
    <3> QED
      BY <3>1, <3>2, <3>3, <3>4
  <2> QED
    BY <2>1, <2>2
<1>14. ASSUME NEW u \in Slot, NEW v \in Slot, inode_table'[u].i_cnt > 0, inode_table'[v].i_cnt > 0,
              inode_table'[u].i_num = inode_table'[v].i_num
       PROVE  u = v
  <2>1. CASE u # s /\ v # s
    BY <1>7, <1>14, <2>1, CacheParts
  <2>2. CASE u = s \/ v = s
    BY <1>2, <1>7, <1>8, <1>14, <2>2
  <2> QED
    BY <2>1, <2>2
<1>15. CachedIsInode' /\ CacheCoherent'
  BY <1>13, <1>14, CacheNext
<1>16. s \in Slot /\ inode_table'[s].i_num = n /\ inode_table'[s].i_mode = "regular"
  BY <1>1, <1>7, <1>8
<1> QED
  BY <1>9, <1>11, <1>12, <1>15, <1>16

(* do_open that creates a file.                                             *)
LEMMA CreateStep == \A p \in Proc : \A path : IInv /\ Create(p, path) => IInv'
<1> SUFFICES ASSUME NEW p \in Proc, NEW path, IInv, Create(p, path) PROVE IInv'
  OBVIOUS
<1>1. PICK n \in Inode : n = alloc_imap_bit /\ n \notin imap
  <2>1. Inode \ imap # {} /\ Inode \ imap \subseteq Nat
    BY Sizes DEF Create, Inode
  <2>2. Min(Inode \ imap) \in Inode \ imap
    BY <2>1, MinIsLeast
  <2> QED
    BY <2>2 DEF alloc_imap_bit
<1>2. PICK s : SlotOf(n) = s
  OBVIOUS
<1>0. /\ DescInv /\ CacheInv /\ DirInv /\ DiskInv /\ DiskTypes /\ halted = "no" /\ Calling(p)
      /\ FreeFds(p) # {} /\ FreeDescs # {} /\ path \in Names
      /\ imap \subseteq Inode /\ imap' = imap \cup {n}
      /\ UNCHANGED <<alive, fork>> /\ logged' = logged
      /\ writes > 0 => Holes # {} \/ i_size < NR_ENTRIES
  BY <1>1 DEF IInv, DiskInv, DiskTypes, Create, Calling
<1>3. CASE AllocFails # "no"
  <2>1. /\ halted' = AllocFails
        /\ UNCHANGED <<filp, f_desc_table, opened, inode_table, smap, dinode, dirVars>>
    BY <1>3 DEF Create, Halt
  <2>3. halted' \in {"open.c:211", "open.c:225"}
    BY <1>3, <2>1 DEF AllocFails
  <2>2. DescInv' /\ CacheInv' /\ DirInv'
    BY <1>0, <2>1, <2>3, SameTables
  <2>4. DiskTypes' /\ InodesAgree' /\ ExtentsApart' /\ MapsAgree'
    BY <1>0, <2>1, <2>3 DEF DiskTypes, InodesAgree, ExtentsApart, MapsAgree
  <2> QED
    BY <2>2, <2>3, <2>4 DEF IInv, DiskInv, HaltInv
<1>4. CASE AllocFails = "no" /\ s = 0
  <2>1. /\ halted' = "main.c:322" /\ smap' = smap \cup AllocBits
        /\ UNCHANGED <<filp, f_desc_table, opened, inode_table, dinode, dirVars>>
    BY <1>1, <1>2, <1>4 DEF Create, Halt
  <2>2. DescInv' /\ CacheInv' /\ DirInv'
    BY <1>0, <2>1, SameTables
  <2>3. AllocBits \subseteq Bit
    BY <1>0, <1>4, NewExtent
  <2>4. DiskTypes' /\ InodesAgree' /\ ExtentsApart' /\ MapsAgree'
    BY <1>0, <2>1, <2>3 DEF DiskTypes, InodesAgree, ExtentsApart, MapsAgree
  <2> QED
    BY <2>1, <2>2, <2>4 DEF IInv, DiskInv, HaltInv
<1>5. CASE AllocFails = "no" /\ s # 0
  <2>1. PICK start \in Start : start = alloc_smap_bit
    BY <1>0, <1>5, NewExtent
  <2>2. /\ smap' = smap \cup AllocBits
        /\ new_inode(get_inode(n), s, n, [i_mode |-> "regular", i_start |-> start])
        /\ new_dir_entry(n, path) /\ OpenDesc(p, s, n) /\ halted' = halted
    BY <1>1, <1>2, <1>5, <2>1 DEF Create
  <2>3. dinode' = [dinode EXCEPT ![n] = [i_mode |-> "regular", i_start |-> alloc_smap_bit]]
    BY <2>1, <2>2 DEF new_inode, SyncNew
  <2>4. DiskInv'
    BY <1>0, <1>1, <1>5, <2>2, <2>3, CreateDisk
  <2>5. DirInv'
    <3>1. path \in Path
      BY <1>0 DEF Path
    <3> QED
      BY <1>0, <1>1, <2>2, <3>1, NewEntry
  <2>6. /\ CacheTypes' /\ CachedIsInode' /\ CacheCoherent' /\ Kept
        /\ s \in Slot /\ inode_table'[s].i_num = n /\ inode_table'[s].i_mode = "regular"
        /\ \A t \in Slot : t # s => inode_table'[t].i_cnt = inode_table[t].i_cnt
        /\ inode_table'[s].i_cnt >= UsersOf(s) + 1
    BY <1>0, <1>1, <1>2, <1>5, <2>1, <2>2, CreateCache
  <2>7. /\ DescInv'
        /\ \A t \in Slot : UsersOf(t)' = IF t = s THEN UsersOf(t) + 1 ELSE UsersOf(t)
    BY <1>0, <1>1, <2>2, <2>6, NewDesc
  <2>8. SlotsBacked'
    <3>1. inode_table'[s].i_mode # "none" /\ imap \subseteq imap' /\ n \in imap'
      BY <1>0, <2>6
    <3> QED
      BY <1>0, <1>1, <2>2, <2>6, <2>7, <3>1, BackedNew
  <2>9. HaltInv'
    BY <1>0, <2>2 DEF HaltInv
  <2> QED
    BY <2>4, <2>5, <2>6, <2>7, <2>8, <2>9 DEF IInv, CacheInv
<1> QED
  BY <1>3, <1>4, <1>5

(* do_unlink of the root or of nothing.                                     *)
LEMMA UnlinkNothingStep == \A p \in Proc : \A path : IInv /\ UnlinkNothing(p, path) => IInv'
<1> SUFFICES ASSUME NEW p \in Proc, NEW path, IInv, UnlinkNothing(p, path) PROVE IInv'
  OBVIOUS
<1>0. /\ DescInv /\ CacheInv /\ DirInv /\ DiskInv /\ halted = "no" /\ dump_fd_graph(smap)
      /\ UNCHANGED <<alive, fork, filp, f_desc_table, opened, inode_table, dirVars>>
      /\ UNCHANGED <<dinode, imap>>
  BY DEF IInv, UnlinkNothing, Calling
<1>1. DescInv' /\ CacheInv' /\ DirInv'
  BY <1>0, SameTables
<1>2. DiskInv' /\ halted' \in {"no", "disklog.c:52"}
  BY <1>0, LogOnly
<1> QED
  BY <1>1, <1>2 DEF IInv, HaltInv

(* do_unlink of a device, a directory or a file in use.                     *)
LEMMA UnlinkRefusedStep == \A p \in Proc : \A path : IInv /\ UnlinkRefused(p, path) => IInv'
<1> SUFFICES ASSUME NEW p \in Proc, NEW path, IInv, UnlinkRefused(p, path) PROVE IInv'
  OBVIOUS
<1>1. PICK n : search_file(path) = n
  OBVIOUS
<1>2. PICK s : SlotOf(n) = s
  OBVIOUS
<1>0. /\ DescInv /\ CacheInv /\ DirInv /\ DiskInv /\ DiskTypes /\ halted = "no" /\ n # 0
      /\ UNCHANGED <<alive, fork, filp, f_desc_table, opened>>
      /\ UNCHANGED dirVars /\ UNCHANGED <<dinode, imap>>
  BY <1>1 DEF IInv, DiskInv, UnlinkRefused, Calling
<1>3. n \in Inode
  BY <1>0, <1>1, FoundIsInode
<1>4. \/ s = 0 /\ halted' = "main.c:322" /\ UNCHANGED <<inode_table, smap, logged>>
      \/ s # 0 /\ inode_table' = get_inode(n) /\ dump_fd_graph(smap)
  BY <1>1, <1>2 DEF UnlinkRefused, Halt
<1>5. CASE s = 0
  <2>1. halted' = "main.c:322" /\ UNCHANGED <<inode_table, smap, logged>>
    BY <1>4, <1>5
  <2>2. DescInv' /\ CacheInv' /\ DirInv'
    BY <1>0, <2>1, SameTables
  <2>3. DiskInv'
    BY <1>0, <2>1, SameDisk
  <2> QED
    BY <2>1, <2>2, <2>3 DEF IInv, HaltInv
<1>6. CASE s # 0
  <2>1. inode_table' = get_inode(n) /\ dump_fd_graph(smap)
    BY <1>4, <1>6
  <2>2. /\ CacheTypes' /\ CachedIsInode' /\ CacheCoherent' /\ Kept
        /\ \A t \in Slot : inode_table'[t].i_cnt =
                 IF t = s THEN inode_table[t].i_cnt + 1 ELSE inode_table[t].i_cnt
    BY <1>0, <1>2, <1>3, <1>6, <2>1, Take
  <2>3. DescInv' /\ \A t : UsersOf(t)' = UsersOf(t)
    BY <1>0, SameDescs
  <2>4. \A d \in Desc : Live(d) => inode_table[f_desc_table[d].fd_inode].i_num \in imap'
    BY <1>0 DEF CacheInv, SlotsBacked, Backed
  <2>5. \A t \in Slot : inode_table'[t].i_cnt >= UsersOf(t)
    <3>1. \A t \in Slot : /\ inode_table[t].i_cnt \in Nat /\ UsersOf(t) \in Nat
                         /\ inode_table[t].i_cnt >= UsersOf(t)
      BY <1>0, UsersOfType DEF CacheInv, CacheTypes, SlotsBacked, DescInv
    <3> QED
      BY <2>2, <3>1
  <2>6. SlotsBacked'
    BY <1>0, <2>2, <2>3, <2>4, <2>5, BackedSame
  <2>7. DirInv'
    BY <1>0, SameDir
  <2>8. DiskInv' /\ halted' \in {"no", "disklog.c:52"}
    BY <1>0, <2>1, LogOnly
  <2> QED
    BY <2>2, <2>3, <2>6, <2>7, <2>8 DEF IInv, CacheInv, HaltInv
<1> QED
  BY <1>5, <1>6

(* do_unlink gives back a slot that was free before it took it.             *)
LEMMA UnlinkCache ==
    ASSUME DescInv, CacheInv, halted = "no", NEW n \in Inode, NEW s \in Slot,
           inode_table[s].i_cnt = 0,
           \A t \in Slot : inode_table[t].i_cnt > 0 => inode_table[t].i_num # n,
           inode_table' = [inode_table EXCEPT ![s] =
               [i_num |-> n, i_cnt |-> 0, i_mode |-> "none", i_start |-> 0]],
           dinode' = [dinode EXCEPT ![n] = NoInode], imap' = imap \ {n}, DiskTypes,
           UNCHANGED <<alive, fork, filp, f_desc_table, opened>>
    PROVE  DescInv' /\ CacheInv'
<1>0. CacheTypes
  BY DEF CacheInv
<1>1. PICK r : r = [i_num |-> n, i_cnt |-> 0, i_mode |-> "none", i_start |-> 0]
  OBVIOUS
<1>2. /\ r \in [i_num : Inode \cup {0}, i_cnt : Nat,
               i_mode : {"none", "dir", "char", "regular"}, i_start : Start \cup {0}]
      /\ r.i_cnt = 0
  BY <1>1
<1>3. CacheTypes' /\ \A t \in Slot : inode_table'[t] = IF t = s THEN r ELSE inode_table[t]
  BY <1>0, <1>1, <1>2 DEF CacheTypes
<1>4. ASSUME NEW d \in Desc, Live(d)
      PROVE  /\ f_desc_table[d].fd_inode \in Slot /\ f_desc_table[d].fd_inode # s
             /\ inode_table[f_desc_table[d].fd_inode].i_num \in imap'
  <2>1. PICK t \in Slot : f_desc_table[d].fd_inode = t /\ inode_table[t].i_cnt > 0
    BY <1>4, LiveIsCached
  <2>2. t # s /\ inode_table[t].i_num \in imap /\ inode_table[t].i_num # n
    BY <1>4, <2>1 DEF CacheInv, SlotsBacked, Backed
  <2> QED
    BY <2>1, <2>2
<1>5. Kept
  BY <1>3, <1>4 DEF Kept
<1>6. DescInv' /\ \A t : UsersOf(t)' = UsersOf(t)
  BY SameDescs
<1>7. \A t \in Slot : inode_table'[t].i_cnt >= UsersOf(t)
  <2>1. \A t \in Slot : inode_table'[t].i_cnt = inode_table[t].i_cnt
    BY <1>2, <1>3
  <2> QED
    BY <2>1 DEF CacheInv, SlotsBacked
<1>8. SlotsBacked'
  BY <1>4, <1>5, <1>6, <1>7, BackedSame
<1>9. ASSUME NEW t \in Slot, inode_table'[t].i_cnt > 0
      PROVE  /\ t # s
             /\ inode_table'[t].i_num \in Inode
             /\ dinode'[inode_table'[t].i_num] =
                   [i_mode |-> inode_table'[t].i_mode, i_start |-> inode_table'[t].i_start]
  <2>1. t # s /\ inode_table'[t] = inode_table[t] /\ inode_table[t].i_cnt > 0
    BY <1>2, <1>3, <1>9
  <2>2. /\ inode_table[t].i_num \in Inode /\ inode_table[t].i_num # n
        /\ dinode[inode_table[t].i_num] =
               [i_mode |-> inode_table[t].i_mode, i_start |-> inode_table[t].i_start]
    BY <2>1 DEF CacheInv, CachedIsInode, CacheCoherent
  <2>3. PICK k \in Inode : k = inode_table[t].i_num /\ k # n
    BY <2>2
  <2>4. dinode'[k] = dinode[k]
    BY <2>3 DEF DiskTypes
  <2> QED
    BY <2>1, <2>2, <2>3, <2>4
<1>10. ASSUME NEW t \in Slot, NEW u \in Slot, inode_table'[t].i_cnt > 0, inode_table'[u].i_cnt > 0,
              inode_table'[t].i_num = inode_table'[u].i_num
       PROVE  t = u
  <2>1. inode_table'[t] = inode_table[t] /\ inode_table'[u] = inode_table[u]
    BY <1>3, <1>9, <1>10
  <2> QED
    BY <1>10, <2>1, CacheParts
<1>11. CachedIsInode' /\ CacheCoherent'
  BY <1>9, <1>10, CacheNext
<1> QED
  BY <1>3, <1>6, <1>8, <1>11 DEF CacheInv

(* do_unlink of a file that nobody uses.                                    *)
LEMMA UnlinkStep == \A p \in Proc : \A path : IInv /\ Unlink(p, path) => IInv'
<1> SUFFICES ASSUME NEW p \in Proc, NEW path, IInv, Unlink(p, path) PROVE IInv'
  OBVIOUS
<1>1. PICK n : search_file(path) = n
  OBVIOUS
<1>2. PICK s : SlotOf(n) = s
  OBVIOUS
<1>3. PICK tab : tab = get_inode(n)
  OBVIOUS
<1>4. PICK pin : pin = tab[s]
  OBVIOUS
<1>0. /\ DescInv /\ CacheInv /\ CacheTypes /\ DirInv /\ DiskInv /\ DiskTypes /\ halted = "no"
      /\ n # 0 /\ s # 0 /\ MayRemove(pin)
      /\ UNCHANGED <<alive, fork, filp, f_desc_table, opened>>
  BY <1>1, <1>2, <1>3, <1>4 DEF IInv, DiskInv, CacheInv, Unlink, Calling
<1>5. n \in Inode
  BY <1>0, <1>1, FoundIsInode
<1>6. /\ s \in Slot
      /\ \/ /\ inode_table[s].i_cnt = 0
            /\ \A t \in Slot : inode_table[t].i_cnt > 0 => inode_table[t].i_num # n
         \/ inode_table[s].i_cnt > 0 /\ inode_table[s].i_num = n
      /\ tab = [inode_table EXCEPT ![s] =
            [i_num |-> n, i_cnt |-> inode_table[s].i_cnt + 1,
             i_mode |-> dinode[n].i_mode, i_start |-> dinode[n].i_start]]
  BY <1>0, <1>2, <1>3, <1>5, SlotTaken
<1>7. PICK k \in Nat : k = inode_table[s].i_cnt
  BY <1>0, <1>6 DEF CacheTypes
<1>8. /\ pin.i_cnt = k + 1 /\ pin.i_mode = dinode[n].i_mode /\ pin.i_start = dinode[n].i_start
  BY <1>0, <1>4, <1>6, <1>7 DEF CacheTypes
<1>9. /\ k = 0 /\ n \in Regular /\ n \in imap /\ FreeExtent(pin) = smap \ Extent(n)
      /\ inode_table[s].i_cnt = 0
      /\ \A t \in Slot : inode_table[t].i_cnt > 0 => inode_table[t].i_num # n
  <2>1. pin.i_cnt <= 1 /\ pin.i_mode = "regular"
    BY <1>0 DEF MayRemove
  <2>2. k = 0
    BY <1>7, <1>8, <2>1
  <2>3. n \in Regular
    BY <1>5, <1>8, <2>1 DEF Regular
  <2>4. FreeExtent(pin) = smap \ Extent(n)
    BY <1>8 DEF FreeExtent, Extent
  <2>5. n \in imap
    BY <1>0, <1>5, <1>8, <2>1, MapsParts
  <2> QED
    BY <1>6, <1>7, <2>2, <2>3, <2>4, <2>5
<1>10. CASE ~(n \in imap /\ BitsOf(pin.i_start) \subseteq smap)
  <2>1. Extent(n) \subseteq smap
    BY <1>0, <1>9, MapsParts DEF Owned
  <2> QED
    BY <1>8, <1>9, <1>10, <2>1 DEF Extent
<1>11. CASE n \in imap /\ BitsOf(pin.i_start) \subseteq smap
  <2>1. /\ imap' = imap \ {n} /\ dinode' = [dinode EXCEPT ![n] = NoInode]
        /\ inode_table' = [tab EXCEPT ![s] =
               [i_num |-> n, i_cnt |-> pin.i_cnt - 1, i_mode |-> "none", i_start |-> 0]]
        /\ \/ /\ EntriesOf(n) = {} /\ halted' = "link.c:134" /\ smap' = FreeExtent(pin)
              /\ UNCHANGED <<dirVars, logged>>
           \/ /\ EntriesOf(n) # {} /\ DropEntry(Min(EntriesOf(n)))
              /\ dump_fd_graph(FreeExtent(pin))
    BY <1>1, <1>2, <1>3, <1>4, <1>11 DEF Unlink, Halt
  <2>2. pin.i_cnt - 1 = 0
    BY <1>8, <1>9
  <2>3. PICK r : r = [i_num |-> n, i_cnt |-> 0, i_mode |-> "none", i_start |-> 0]
    OBVIOUS
  <2>4. inode_table' = [tab EXCEPT ![s] = r]
    BY <2>1, <2>2, <2>3
  <2>5. inode_table' = [inode_table EXCEPT ![s] = r]
    BY <1>0, <1>6, <2>4 DEF CacheTypes
  <2>6. DescInv' /\ CacheInv'
    BY <1>0, <1>5, <1>6, <1>9, <2>1, <2>3, <2>5, UnlinkCache
  <2>7. CASE /\ EntriesOf(n) = {} /\ halted' = "link.c:134" /\ smap' = FreeExtent(pin)
             /\ UNCHANGED <<dirVars, logged>>
    <3>1. DirInv'
      BY <1>0, <2>7, SameDir
    <3>2. NoInode \in [i_mode : {"none", "dir", "char", "regular"}, i_start : Start \cup {0}]
      BY DEF NoInode
    <3>3. DiskTypes'
      BY <1>0, <1>9, <2>1, <2>7, <3>2 DEF DiskTypes
    <3>4. InodesAgree' /\ ExtentsApart' /\ MapsAgree'
      BY <2>7 DEF InodesAgree, ExtentsApart, MapsAgree
    <3>5. writes # 0 \/ cut
      BY <1>0, <1>9, <2>7, HasEntry
    <3>6. HaltInv'
      BY <2>7, <3>5 DEF HaltInv, dirVars
    <3> QED
      BY <2>6, <2>7, <3>1, <3>3, <3>4, <3>6 DEF IInv, DiskInv
  <2>8. CASE /\ EntriesOf(n) # {} /\ DropEntry(Min(EntriesOf(n)))
             /\ dump_fd_graph(FreeExtent(pin))
    <3>1. DirInv'
      BY <1>0, <1>5, <2>1, <2>8, DroppedEntry DEF DiskTypes
    <3>2. PICK map : map = smap \ Extent(n)
      OBVIOUS
    <3>3. disklog(map)
      BY <1>9, <2>8, <3>2 DEF dump_fd_graph
    <3>4. DiskInv' /\ halted' \in {"no", "disklog.c:52"}
      BY <1>0, <1>9, <2>1, <3>2, <3>3, UnlinkDisk
    <3> QED
      BY <2>6, <3>1, <3>4 DEF IInv, HaltInv
  <2> QED
    BY <2>1, <2>7, <2>8
<1> QED
  BY <1>10, <1>11

(* A step of the directory alone.                                           *)
LEMMA DirectoryStep ==
    ASSUME IInv, halted = "no", halted' = halted, DirInv',
           UNCHANGED <<alive, fork, filp, f_desc_table, opened, inode_table, dinode, imap, smap,
                       logged>>
    PROVE  IInv'
<1>0. DescInv /\ CacheInv /\ DiskInv
  BY DEF IInv
<1>1. DescInv' /\ \A t : UsersOf(t)' = UsersOf(t)
  BY <1>0, SameDescs
<1>2. CacheTypes' /\ CachedIsInode' /\ CacheCoherent' /\ Kept
  BY <1>0, SameCache
<1>3. /\ \A d \in Desc : Live(d) => inode_table[f_desc_table[d].fd_inode].i_num \in imap'
      /\ \A t \in Slot : inode_table'[t].i_cnt >= UsersOf(t)
  BY <1>0 DEF CacheInv, SlotsBacked, Backed
<1>4. SlotsBacked'
  BY <1>0, <1>1, <1>2, <1>3, BackedSame
<1>5. DiskInv'
  BY <1>0, SameDisk
<1>6. HaltInv'
  BY DEF IInv, HaltInv
<1> QED
  BY <1>1, <1>2, <1>4, <1>5, <1>6 DEF IInv, CacheInv

(* do_rdwt lengthens the directory.                                         *)
LEMMA ReadDirectoryStep == \A p \in Proc, f \in Fd : IInv /\ ReadDirectory(p, f) => IInv'
<1> SUFFICES ASSUME NEW p \in Proc, NEW f \in Fd, IInv, ReadDirectory(p, f) PROVE IInv'
  OBVIOUS
<1>0. /\ DirInv /\ DirTypes /\ EntriesMeanFiles /\ halted = "no" /\ halted' = halted
      /\ i_size' \in i_size + 1 .. NR_ENTRIES
      /\ UNCHANGED <<alive, fork, filp, f_desc_table, opened, inode_table, dinode, imap, smap,
                     logged>>
      /\ UNCHANGED <<dir, writes, cut>>
  BY DEF IInv, DirInv, ReadDirectory, Calling
<1>1. i_size \in Nat /\ i_size' \in 0 .. NR_ENTRIES /\ 1 .. i_size \subseteq 1 .. i_size'
  BY <1>0, DirSizes
<1>2. DirTypes'
  BY <1>0, <1>1 DEF DirTypes
<1>3. EntriesMeanFiles'
  BY <1>0, <1>1 DEF EntriesMeanFiles
<1> QED
  BY <1>0, <1>2, <1>3, DirectoryStep DEF DirInv

(* do_rdwt writes an entry: the directory is the processes' from now on.    *)
LEMMA WriteDirectoryStep == \A p \in Proc, f \in Fd : IInv /\ WriteDirectory(p, f) => IInv'
<1> SUFFICES ASSUME NEW p \in Proc, NEW f \in Fd, IInv, WriteDirectory(p, f) PROVE IInv'
  OBVIOUS
<1>0. /\ DirTypes /\ halted = "no" /\ halted' = halted
      /\ writes < MaxWrites /\ writes' = writes + 1 /\ cut' = cut
      /\ UNCHANGED <<alive, fork, filp, f_desc_table, opened, inode_table, dinode, imap, smap,
                     logged>>
  BY DEF IInv, DirInv, WriteDirectory, Calling
<1>1. PICK w \in Scribbles :
         /\ dir' = [dir EXCEPT ![w.at] = [inode_nr |-> w.inode_nr, name |-> w.name]]
         /\ i_size' = IF w.at > i_size THEN w.at ELSE i_size
  BY DEF WriteDirectory
<1>2. w.at \in Entry /\ w.inode_nr \in Inode \cup {0} /\ w.name \in Path \cup {""}
  BY FilesAssumption
<1>3. [inode_nr |-> w.inode_nr, name |-> w.name] \in [inode_nr : Inode \cup {0}, name : Path \cup {""}]
  BY <1>2
<1>4. i_size' \in 0 .. NR_ENTRIES
  <2>1. PICK at \in Entry : at = w.at
    BY <1>2
  <2>2. i_size' = IF at > i_size THEN at ELSE i_size
    BY <1>1, <2>1
  <2> QED
    BY <1>0, <2>2, DirSizes DEF Entry
<1>5. writes' \in 0 .. MaxWrites /\ writes' # 0
  BY <1>0, DirSizes
<1>6. DirTypes'
  BY <1>0, <1>1, <1>3, <1>4, <1>5 DEF DirTypes
<1>7. EntriesMeanFiles'
  BY <1>5 DEF EntriesMeanFiles
<1> QED
  BY <1>0, <1>6, <1>7, DirectoryStep DEF DirInv

-----------------------------------------------------------------------------
(* The invariant and what follows from it *)

(* The descriptors after boot.                                              *)
LEMMA InitDescs == Init => DescInv
<1> SUFFICES ASSUME Init PROVE DescInv
  OBVIOUS
<1>1. DescTypes
  <2>1. alive \subseteq Proc
    <3>1. alive = 1 .. NR_NATIVE_PROCS
      BY DEF Init
    <3>2. NR_PROCS \in Nat /\ NR_NATIVE_PROCS \in 0 .. NR_PROCS
      BY FilesAssumption
    <3> QED
      BY <3>1, <3>2 DEF Proc
  <2>2. f_desc_table \in [Desc -> [fd_inode : Slot \cup {0}, fd_cnt : Nat]]
    BY DEF Init
  <2>3. /\ filp \in [Proc -> [Fd -> Desc \cup {0}]] /\ opened \in [Desc -> Inode \cup {0}]
        /\ fork = <<>>
    BY DEF Init
  <2> QED
    BY <2>1, <2>2, <2>3 DEF DescTypes
<1>2. Forking
  BY DEF Init, Forking
<1>3. ASSUME NEW d \in Desc
      PROVE  /\ f_desc_table[d].fd_cnt = Cardinality(Users(d))
             /\ f_desc_table[d].fd_cnt = 0 /\ ~Live(d)
  <2>1. f_desc_table[d].fd_cnt = 0 /\ f_desc_table[d].fd_inode = 0
    BY DEF Init
  <2>2. d # 0
    BY Sizes DEF Desc
  <2>3. Users(d) = {}
    BY <1>1, <2>2 DEF Users, Init, DescTypes
  <2> QED
    BY <2>1, <2>3, FS_EmptySet DEF Live
<1>4. FdCountExact
  BY <1>3 DEF FdCountExact
<1> QED
  BY <1>1, <1>2, <1>4 DEF DescInv

(* The cached root directory after boot.                                    *)
LEMMA InitCache == Init => CacheInv
<1> SUFFICES ASSUME Init PROVE CacheInv
  OBVIOUS
<1>0. ROOT_INODE \in Inode /\ n_1st_sect \in Start
  <2>1. PICK M \in Nat : Start = n_1st_sect .. n_1st_sect + M
    BY BitRange
  <2> QED
    BY <2>1, Sizes DEF Init, Inode, ROOT_INODE
<1>1. PICK r : r = [i_num |-> ROOT_INODE, i_cnt |-> 1, i_mode |-> "dir", i_start |-> n_1st_sect]
  OBVIOUS
<1>2. PICK e : e = [i_num |-> 0, i_cnt |-> 0, i_mode |-> "none", i_start |-> 0]
  OBVIOUS
<1>3. inode_table = [s \in Slot |-> IF s = 1 THEN r ELSE e]
  BY <1>1, <1>2 DEF Init
<1>4. CacheTypes
  <2>1. {r, e} \subseteq [i_num : Inode \cup {0}, i_cnt : Nat,
               i_mode : {"none", "dir", "char", "regular"}, i_start : Start \cup {0}]
    BY <1>0, <1>1, <1>2
  <2> QED
    BY <1>3, <2>1 DEF CacheTypes
<1>5. \A s \in Slot : inode_table[s].i_cnt > 0 => s = 1 /\ inode_table[s] = r
  BY <1>2, <1>3
<1>6. dinode[ROOT_INODE] = [i_mode |-> "dir", i_start |-> n_1st_sect]
  <2>1. dinode = [n \in Inode |->
                   CASE n = ROOT_INODE -> [i_mode |-> "dir", i_start |-> n_1st_sect]
                     [] n = TTY_INODE  -> [i_mode |-> "char", i_start |-> 0]
                     [] OTHER          -> NoInode]
    BY DEF Init
  <2>2. ROOT_INODE # TTY_INODE
    BY DEF ROOT_INODE, TTY_INODE
  <2> QED
    BY <1>0, <2>1, <2>2
<1>7. CachedIsInode
  BY <1>0, <1>1, <1>5 DEF CachedIsInode
<1>8. CacheCoherent
  <2>1. ASSUME NEW s \in Slot, inode_table[s].i_cnt > 0
        PROVE  /\ Cached(inode_table[s].i_num) = {s}
               /\ dinode[inode_table[s].i_num] =
                     [i_mode |-> inode_table[s].i_mode, i_start |-> inode_table[s].i_start]
    <3>1. s = 1 /\ inode_table[s] = r
      BY <1>5, <2>1
    <3>2. Cached(inode_table[s].i_num) = {s}
      BY <1>5, <2>1, <3>1 DEF Cached
    <3> QED
      BY <1>1, <1>6, <3>1, <3>2
  <2> QED
    BY <2>1 DEF CacheCoherent
<1>9. SlotsBacked
  <2>1. \A d \in Desc : f_desc_table[d].fd_inode = 0
    BY DEF Init
  <2>2. ASSUME NEW s \in Slot
        PROVE  inode_table[s].i_cnt >= UsersOf(s)
    <3>1. DescsOf(s) = {}
      BY <2>1, Sizes DEF DescsOf, Slot
    <3>2. UsersOf(s) = 0
      BY <3>1, UsersOfIsSum, SumEmpty
    <3> QED
      BY <1>4, <3>2 DEF CacheTypes
  <2> QED
    BY <2>1, <2>2 DEF SlotsBacked, Live
<1> QED
  BY <1>4, <1>7, <1>8, <1>9 DEF CacheInv

(* The directory that mkfs writes.                                          *)
LEMMA InitDir == Init => DirInv
<1> SUFFICES ASSUME Init PROVE DirInv
  OBVIOUS
<1>0. {ROOT_INODE, TTY_INODE} \subseteq Inode /\ ROOT_INODE # TTY_INODE /\ 0 \notin Inode
  BY Sizes DEF Inode, ROOT_INODE, TTY_INODE
<1>1. PICK e1, e2 : /\ e1 = [inode_nr |-> ROOT_INODE, name |-> "."]
                    /\ e2 = [inode_nr |-> TTY_INODE, name |-> "dev_tty0"]
  OBVIOUS
<1>2. /\ {e1, e2, NoEntry} \subseteq [inode_nr : Inode \cup {0}, name : Path \cup {""}]
      /\ e1.inode_nr = ROOT_INODE /\ e2.inode_nr = TTY_INODE /\ NoEntry.inode_nr = 0
  BY <1>0, <1>1 DEF NoEntry, Path
<1>3. dir = [i \in Entry |-> CASE i = 1 -> e1 [] i = 2 -> e2 [] OTHER -> NoEntry]
  <2>1. dir = [i \in Entry |->
                CASE i = 1 -> [inode_nr |-> ROOT_INODE, name |-> "."]
                  [] i = 2 -> [inode_nr |-> TTY_INODE, name |-> "dev_tty0"]
                  [] OTHER -> NoEntry]
    BY DEF Init
  <2> QED
    BY <1>1, <2>1
<1>4. \A i \in Entry : /\ i = 1 => dir[i] = e1
                       /\ i = 2 => dir[i] = e2
                       /\ i # 1 /\ i # 2 => dir[i] = NoEntry
  BY <1>3
<1>5. imap = {ROOT_INODE, TTY_INODE}
  BY DEF Init
<1>6. EntriesMeanFiles
  <2>1. \A i \in Entry :
           dir[i].inode_nr = IF i = 1 THEN ROOT_INODE ELSE IF i = 2 THEN TTY_INODE ELSE 0
    BY <1>2, <1>4
  <2>2. 1 \in 1 .. i_size /\ 2 \in 1 .. i_size /\ 1 \in Entry /\ 2 \in Entry
    BY EntrySizes DEF Init, Entry
  <2>3. imap \subseteq {dir[i].inode_nr : i \in 1 .. i_size}
    BY <1>5, <2>1, <2>2
  <2>4. \A i \in Entry : dir[i].inode_nr # 0 =>
           /\ dir[i].inode_nr \in imap
           /\ \A j \in Entry : dir[j].inode_nr = dir[i].inode_nr => i = j
    BY <1>0, <1>5, <2>1
  <2> QED
    BY <2>3, <2>4 DEF EntriesMeanFiles
<1>7. DirTypes
  <2>1. dir \in [Entry -> [inode_nr : Inode \cup {0}, name : Path \cup {""}]]
    BY <1>2, <1>3
  <2>2. i_size = 2 /\ writes = 0 /\ cut = FALSE
    BY DEF Init
  <2>3. i_size \in 0 .. NR_ENTRIES /\ writes \in 0 .. MaxWrites
    BY <2>2, EntrySizes
  <2>4. cut \in BOOLEAN
    BY <2>2
  <2> QED
    BY <2>1, <2>3, <2>4 DEF DirTypes
<1> QED
  BY <1>6, <1>7 DEF DirInv

(* The maps and inodes that mkfs writes.                                    *)
LEMMA InitDisk == Init => DiskInv
<1> SUFFICES ASSUME Init PROVE DiskInv
  OBVIOUS
<1>0. {ROOT_INODE, TTY_INODE} \subseteq Inode /\ ROOT_INODE # TTY_INODE
  BY Sizes DEF Inode, ROOT_INODE, TTY_INODE
<1>1. PICK M \in Nat : /\ Bit = 0 .. M - 1 /\ Start = n_1st_sect .. n_1st_sect + M
                       /\ nr_sects < M
  BY BitRange
<1>2. PICK root, tty : /\ root = [i_mode |-> "dir", i_start |-> n_1st_sect]
                       /\ tty = [i_mode |-> "char", i_start |-> 0]
  OBVIOUS
<1>3. /\ dinode = [n \in Inode |-> CASE n = ROOT_INODE -> root [] n = TTY_INODE -> tty
                                     [] OTHER -> NoInode]
      /\ \A n \in Inode : dinode[n].i_mode =
            IF n = ROOT_INODE THEN "dir" ELSE IF n = TTY_INODE THEN "char" ELSE "none"
  <2>1. dinode = [n \in Inode |-> CASE n = ROOT_INODE -> root [] n = TTY_INODE -> tty
                                   [] OTHER -> NoInode]
    <3>1. dinode = [n \in Inode |->
                     CASE n = ROOT_INODE -> [i_mode |-> "dir", i_start |-> n_1st_sect]
                       [] n = TTY_INODE  -> [i_mode |-> "char", i_start |-> 0]
                       [] OTHER          -> NoInode]
      BY DEF Init
    <3> QED
      BY <1>2, <3>1
  <2>2. root.i_mode = "dir" /\ tty.i_mode = "char" /\ NoInode.i_mode = "none"
    BY <1>2 DEF NoInode
  <2> QED
    BY <1>0, <2>1, <2>2
<1>4. DiskTypes
  <2>1. n_1st_sect \in Start
    BY <1>1, Sizes
  <2>2. dinode \in [Inode -> [i_mode : {"none", "dir", "char", "regular"},
                              i_start : Start \cup {0}]]
    <3>1. {root, tty, NoInode} \subseteq [i_mode : {"none", "dir", "char", "regular"},
                                         i_start : Start \cup {0}]
      BY <1>2, <2>1 DEF NoInode
    <3> QED
      BY <1>3, <3>1
  <2>3. 0 .. NR_DEFAULT_FILE_SECTS \subseteq Bit
    BY <1>1, Sizes
  <2> QED
    BY <1>0, <2>2, <2>3 DEF Init, DiskTypes
<1>5. imap = {n \in Inode : dinode[n].i_mode # "none"}
  BY <1>0, <1>3 DEF Init
<1>6. Regular = {}
  BY <1>3 DEF Regular
<1>7. InodesAgree /\ ExtentsApart
  BY <1>0, <1>3, <1>5, <1>6 DEF InodesAgree, ExtentsApart, Init
<1>8. smap = Owned
  BY <1>6 DEF Owned, RootBits, Init
<1>9. Cardinality(smap) = SmapSize
  <2>1. PICK N \in Nat : N = NR_DEFAULT_FILE_SECTS
    BY Sizes
  <2>2. Cardinality(0 .. N) = N - 0 + 1
    BY FS_Interval
  <2>3. SmapSize = 1 + N * (1 + 0 + 0)
    BY <1>6, <2>1, FS_EmptySet DEF SmapSize, Init
  <2> QED
    BY <2>1, <2>2, <2>3 DEF Init
<1>10. MapsAgree
  BY <1>5, <1>8, <1>9 DEF MapsAgree, Owned, SmapSize, RootBits, LogBits, Extent
<1> QED
  BY <1>4, <1>7, <1>10 DEF DiskInv

(* The invariant holds after boot.                                          *)
LEMMA InitStep == Init => IInv
<1>1. Init => HaltInv
  BY DEF Init, HaltInv
<1> QED
  BY <1>1, InitDescs, InitCache, InitDir, InitDisk DEF IInv

(* Every step of the file system task and of fork keeps the invariant.      *)
LEMMA IInvStep == IInv /\ [Next]_vars => IInv'
<1> SUFFICES ASSUME IInv, [Next]_vars PROVE IInv'
  OBVIOUS
<1>1. CASE FsFork
  BY <1>1, FsForkStep
<1>2. ASSUME NEW p \in Proc, OpenPanics(p) PROVE IInv'
  BY <1>2, OpenPanicsStep
<1>3. ASSUME NEW p \in Proc, ForkCopies(p) PROVE IInv'
  BY <1>3, ForkCopiesStep
<1>4. ASSUME NEW p \in Proc, NEW f \in Fd, Close(p, f) PROVE IInv'
  BY <1>4, CloseStep
<1>5. ASSUME NEW p \in Proc, NEW path \in Path, Open(p, path) PROVE IInv'
  BY <1>5, OpenStep
<1>6. ASSUME NEW p \in Proc, NEW path \in Path, Create(p, path) PROVE IInv'
  BY <1>6, CreateStep
<1>7. ASSUME NEW p \in Proc, NEW path \in Path, UnlinkNothing(p, path) PROVE IInv'
  BY <1>7, UnlinkNothingStep
<1>8. ASSUME NEW p \in Proc, NEW path \in Path, UnlinkRefused(p, path) PROVE IInv'
  BY <1>8, UnlinkRefusedStep
<1>9. ASSUME NEW p \in Proc, NEW path \in Path, Unlink(p, path) PROVE IInv'
  BY <1>9, UnlinkStep
<1>10. ASSUME NEW p \in Proc, NEW f \in Fd, ReadDirectory(p, f) PROVE IInv'
  BY <1>10, ReadDirectoryStep
<1>11. ASSUME NEW p \in Proc, NEW f \in Fd, WriteDirectory(p, f) PROVE IInv'
  BY <1>11, WriteDirectoryStep
<1>12. CASE UNCHANGED vars
  <2>1. /\ alive' = alive /\ fork' = fork /\ filp' = filp /\ f_desc_table' = f_desc_table
        /\ opened' = opened /\ inode_table' = inode_table /\ dinode' = dinode /\ imap' = imap
        /\ smap' = smap /\ logged' = logged /\ dir' = dir /\ i_size' = i_size /\ writes' = writes
        /\ cut' = cut /\ halted' = halted
    BY <1>12 DEF vars, diskVars, dirVars
  <2>2. DescInv'
    BY <2>1, SameDescs DEF IInv
  <2>3. CacheInv'
    <3>1. CacheTypes' /\ CachedIsInode' /\ CacheCoherent'
      BY <2>1 DEF IInv, CacheInv, CacheTypes, CachedIsInode, CacheCoherent, Cached
    <3>2. SlotsBacked'
      BY <2>1 DEF IInv, CacheInv, SlotsBacked, Backed, Live, UsersOf, DescsOf
    <3> QED
      BY <3>1, <3>2 DEF CacheInv
  <2>4. DirInv' /\ HaltInv'
    BY <2>1 DEF IInv, DirInv, DirTypes, EntriesMeanFiles, HaltInv
  <2>5. DiskInv'
    BY <2>1 DEF IInv, DiskInv, DiskTypes, InodesAgree, ExtentsApart, MapsAgree, Regular, Extent
  <2> QED
    BY <2>2, <2>3, <2>4, <2>5 DEF IInv
<1> QED
  BY <1>1, <1>2, <1>3, <1>4, <1>5, <1>6, <1>7, <1>8, <1>9, <1>10, <1>11, <1>12
     DEF Next

(* The tables of the file system task keep the inductive invariant: the     *)
(* counts of descriptors and inodes, the cache, the directory and the maps. *)
THEOREM Invariant == Spec => []IInv
<1> QED
  BY InitStep, IInvStep, PTL DEF Spec

(* Every variable keeps its type: no handler writes outside its tables.     *)
THEOREM TypeCorrect == Spec => []TypeOK
<1>1. IInv => TypeOK
  BY DEF IInv, DescInv, CacheInv, DirInv, DiskInv, DescTypes, CacheTypes, DirTypes, DiskTypes,
         HaltInv, TypeOK
<1> QED
  BY <1>1, Invariant, PTL

(* fd_cnt of a descriptor is the number of files of processes that use it,  *)
(* so do_close frees it exactly when its last user closes it.               *)
THEOREM FdCountsExact == Spec => []FdCountExact
<1>1. IInv => FdCountExact
  BY DEF IInv, DescInv
<1> QED
  BY <1>1, Invariant, PTL

(* An open file stays what it was opened for: its descriptor is in use, its *)
(* slot holds its inode, the inode is allocated and counts all its users.   *)
THEOREM OpenFilesStay == Spec => []OpenFileStays
<1>1. ASSUME IInv, halted = "no" PROVE OpenFileStays
  <2>0. DescInv /\ CacheInv
    BY <1>1 DEF IInv
  <2>1. \A p \in Proc, f \in Fd : filp[p][f] # 0 => Live(filp[p][f])
    BY <2>0, FilpIsLive
  <2>2. ASSUME NEW d \in Desc, Live(d)
        PROVE  /\ Backed(d)
               /\ inode_table[f_desc_table[d].fd_inode].i_cnt >= UsersOf(f_desc_table[d].fd_inode)
    <3>1. f_desc_table[d].fd_inode \in Slot
      BY <2>0, <2>2, LiveIsUsed
    <3> QED
      BY <1>1, <2>0, <2>2, <3>1 DEF CacheInv, SlotsBacked
  <2> QED
    BY <2>1, <2>2 DEF OpenFileStays, Backed
<1>2. IInv => OpenFileStays
  BY <1>1 DEF OpenFileStays
<1> QED
  BY <1>2, Invariant, PTL

(* An inode is in one slot of inode_table at most, and what is cached is    *)
(* what the disk has.                                                       *)
THEOREM CacheIsCoherent == Spec => []CacheCoherent
<1>1. IInv => CacheCoherent
  BY DEF IInv, CacheInv
<1> QED
  BY <1>1, Invariant, PTL

(* The inode map and the sector map say what the inodes say, and no sector  *)
(* has two owners.                                                          *)
THEOREM MapsDoAgree == Spec => []MapsAgree
<1>1. IInv => MapsAgree
  BY DEF IInv, DiskInv
<1> QED
  BY <1>1, Invariant, PTL

(* As long as no process has written into the directory (do_rdwt accepts    *)
(* it), an entry names an allocated inode and no inode has two entries; and *)
(* until do_unlink cuts the size of the directory too short, every inode in *)
(* use has an entry where do_unlink looks for it.                           *)
THEOREM EntriesAreFiles == Spec => []EntriesMeanFiles
<1>1. IInv => EntriesMeanFiles
  BY DEF IInv, DirInv
<1> QED
  BY <1>1, Invariant, PTL

(* put_inode is never called for an inode that is not in use (the assert at *)
(* main.c:350), and the file that do_unlink removes has its bits set in     *)
(* both maps (the asserts of link.c that stand at link.c:58).  do_open      *)
(* comes to an inode without a mode only after a process has written into   *)
(* the directory, and do_unlink misses an entry only after that or after it *)
(* has cut the directory's size too short.                                  *)
THEOREM AssertsHold ==
    Spec => [](/\ halted \notin {"main.c:350", "link.c:58"}
               /\ halted = "open.c:105" => writes # 0
               /\ halted = "link.c:134" => writes # 0 \/ cut)
<1>1. IInv => /\ halted \notin {"main.c:350", "link.c:58"}
              /\ halted = "open.c:105" => writes # 0
              /\ halted = "link.c:134" => writes # 0 \/ cut
  BY DEF IInv, HaltInv
<1> QED
  BY <1>1, Invariant, PTL
=============================================================================
