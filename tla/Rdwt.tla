-------------------------------- MODULE Rdwt --------------------------------
(***************************************************************************)
(* Reading and writing a regular file: do_rdwt in fs/read_write.c.  The    *)
(* file has i_nr_sects sectors; behind them on the disk lie the sectors of *)
(* the next file.  task_fs serves one call at a time, so calls on several  *)
(* descriptors of the file only follow each other; a turn of the loop,     *)
(* with its calls of the disk driver, is one step.                         *)
(*                                                                         *)
(* Positions are relative to the start of the file.  What the bytes are    *)
(* decides nothing, so a byte is the place it had when the call began:     *)
(* a + 1 for the one at address a of the disk, -(k + 1) for the one at     *)
(* place k of the process's buffer.                                        *)
(***************************************************************************)
EXTENDS Integers

CONSTANTS Fd,           \* the descriptors of the file
          SECTOR_SIZE,
          i_nr_sects,   \* NR_DEFAULT_FILE_SECTS
          FSBUF_SECTS,  \* FSBUF_SIZE >> SECTOR_SIZE_SHIFT
          MaxLen,       \* bound on the length of a call
          MaxPos        \* bound: no call from a position behind it

ASSUME RdwtAssumption ==
    /\ SECTOR_SIZE \in Nat \ {0} /\ i_nr_sects \in Nat \ {0}
    /\ FSBUF_SECTS \in Nat \ {0} /\ MaxLen \in Nat /\ MaxPos \in Nat

Min2(a, b) == IF a <= b THEN a ELSE b
Max2(a, b) == IF a >= b THEN a ELSE b

(* The file, and as much behind it as a bounded call can reach. *)
Capacity == i_nr_sects * SECTOR_SIZE
Address == 0 .. MaxPos + MaxLen + (FSBUF_SECTS + 1) * SECTOR_SIZE
Offset == 0 .. MaxLen - 1
OnDisk(a) == a + 1
InBuf(k) == -(k + 1)

VARIABLES
    fd_pos,      \* of each descriptor
    i_size,      \* in the cached inode
    d_size,      \* in the inode on the disk
    disk,
    buf,         \* the buffer of the calling process
    pc,          \* "idle", "loop" or "return"
    type, fd, len,                         \* the call
    sect, chunk, off, bytes_rw, bytes_left, rw_sect_max, \* its locals
    before       \* history: pos and size when the call began
call == <<type, fd, len>>
locals == <<sect, chunk, off, bytes_rw, bytes_left, rw_sect_max>>
vars == <<fd_pos, i_size, d_size, disk, buf, pc, call, locals, before>>

TypeOK ==
    /\ fd_pos \in [Fd -> Nat]
    /\ i_size \in Nat /\ d_size \in Nat
    /\ disk \in [Address -> Int]
    /\ buf \in [Offset -> Int]
    /\ pc \in {"idle", "loop", "return"}
    /\ type \in {"READ", "WRITE"} /\ fd \in Fd /\ len \in 0 .. MaxLen
    /\ sect \in Nat /\ chunk \in Int /\ rw_sect_max \in Nat
    /\ off \in 0 .. SECTOR_SIZE - 1
    /\ bytes_rw \in 0 .. MaxLen /\ bytes_left \in 0 .. MaxLen
    /\ before \in [pos : Nat, size : Nat]

Init ==
    /\ fd_pos = [f \in Fd |-> 0]
    /\ i_size = 0 /\ d_size = 0
    /\ disk = [a \in Address |-> OnDisk(a)]
    /\ buf = [k \in Offset |-> InBuf(k)]
    /\ pc = "idle"
    /\ type = "READ" /\ fd \in Fd /\ len = 0
    /\ sect = 0 /\ chunk = 0 /\ off = 0 /\ bytes_rw = 0 /\ bytes_left = 0
    /\ rw_sect_max = 0
    /\ before = [pos |-> 0, size |-> 0]

-----------------------------------------------------------------------------
(* The file is opened again with a descriptor that was closed. *)
Reopen(f) ==
    /\ pc = "idle"
    /\ fd_pos' = [fd_pos EXCEPT ![f] = 0]
    /\ UNCHANGED <<i_size, d_size, disk, buf, pc, call, locals, before>>

(* Where the transfer is to end. *)
PosEnd(t, pos, n) ==
    Min2(pos + n, IF t = "READ" THEN i_size ELSE Capacity)

(* Mutant: the last sector is not counted. *)
Chunk_Short(first, last) == Min2(last - first, FSBUF_SECTS)

(* Sectors of one transfer; first and last are both transferred. *)
Chunk(first, last) == Min2(last - first + 1, FSBUF_SECTS)

(* The call of a read or write of n bytes, up to the loop.  The descriptor  *)
(* is open and for reading and writing: do_rdwt asserts the one and returns *)
(* -1 without the other, before it has changed anything.                    *)
Call(t, f, n) ==
    LET pos == fd_pos[f]
        rw_sect_min == pos \div SECTOR_SIZE
        last == PosEnd(t, pos, n) \div SECTOR_SIZE
    IN  /\ pc = "idle"
        /\ pos <= MaxPos
        /\ pc' = "loop"
        /\ type' = t /\ fd' = f /\ len' = n
        /\ sect' = rw_sect_min
        /\ rw_sect_max' = last
        /\ chunk' = Chunk(rw_sect_min, last)
        /\ off' = pos % SECTOR_SIZE
        /\ bytes_rw' = 0
        /\ bytes_left' = n
        /\ before' = [pos |-> pos, size |-> i_size]
        /\ UNCHANGED <<fd_pos, i_size, d_size, disk, buf>>

(* The bytes of this turn of the loop, and where they are on the disk. *)
Bytes == Min2(bytes_left, chunk * SECTOR_SIZE - off)
Start == sect * SECTOR_SIZE + off

(* Mutant: the offset is used again in the next sectors. *)
NextOff_Kept == off

NextOff == 0

(* rw_sector, and for a write the changed sectors go back. *)
Transfer ==
    /\ pc = "loop"
    /\ sect <= rw_sect_max
    /\ IF type = "READ"
       THEN /\ buf' = [k \in Offset |->
                         IF k - bytes_rw \in 0 .. Bytes - 1
                         THEN disk[Start + k - bytes_rw] ELSE buf[k]]
            /\ UNCHANGED disk
       ELSE /\ disk' = [a \in Address |->
                          IF a - Start \in 0 .. Bytes - 1
                          THEN buf[bytes_rw + a - Start] ELSE disk[a]]
            /\ UNCHANGED buf
    /\ off' = NextOff
    /\ bytes_rw' = bytes_rw + Bytes
    /\ fd_pos' = [fd_pos EXCEPT ![fd] = @ + Bytes]
    /\ bytes_left' = bytes_left - Bytes
    /\ sect' = sect + chunk
    /\ UNCHANGED <<i_size, d_size, pc, call, chunk, rw_sect_max, before>>

(* Mutant: the length of the file stays. *)
Grown_Never == i_size

(* The length of the file after the transfer. *)
Grown == Max2(fd_pos[fd], i_size)

(* Mutant: sync_inode is missing. *)
Synced_Never(s) == d_size

(* sync_inode is called when the length has changed. *)
Synced(s) == IF s # i_size THEN s ELSE d_size

Finish ==
    /\ pc = "loop"
    /\ sect > rw_sect_max
    /\ i_size' = Grown
    /\ d_size' = Synced(Grown)
    /\ pc' = "return"
    /\ UNCHANGED <<fd_pos, disk, buf, call, locals, before>>

(* task_fs replies, and the locals are gone.  The bytes get new names. *)
Reply ==
    /\ pc = "return"
    /\ pc' = "idle"
    /\ disk' = [a \in Address |-> OnDisk(a)]
    /\ buf' = [k \in Offset |-> InBuf(k)]
    /\ type' = "READ" /\ len' = 0
    /\ sect' = 0 /\ chunk' = 0 /\ off' = 0 /\ bytes_rw' = 0 /\ bytes_left' = 0
    /\ rw_sect_max' = 0
    /\ before' = [pos |-> 0, size |-> 0]
    /\ UNCHANGED <<fd_pos, i_size, d_size, fd>>

Next ==
    \/ \E f \in Fd : \/ Reopen(f)
                     \/ \E t \in {"READ", "WRITE"}, n \in 0 .. MaxLen : Call(t, f, n)
    \/ Transfer \/ Finish \/ Reply

(* task_fs and the disk driver go on. *)
Fairness == WF_vars(Transfer \/ Finish \/ Reply)

Spec == Init /\ [][Next]_vars /\ Fairness

-----------------------------------------------------------------------------
pos0 == before.pos

(***************************************************************************)
(* What a call reports is what it did: fd_pos has moved on by bytes_rw, a  *)
(* read has these bytes of the disk in its buffer and changed nothing, and *)
(* a write has put its bytes there and nowhere else, across sectors and    *)
(* turns of the loop.                                                      *)
(***************************************************************************)
Transferred ==
    pc = "return" =>
        /\ fd_pos[fd] = pos0 + bytes_rw
        /\ \A a \in Address :
              disk[a] = IF type = "WRITE" /\ a - pos0 \in 0 .. bytes_rw - 1
                        THEN InBuf(a - pos0) ELSE OnDisk(a)
        /\ \A k \in Offset :
              buf[k] = IF type = "READ" /\ k < bytes_rw THEN OnDisk(pos0 + k)
                                                       ELSE InBuf(k)

(***************************************************************************)
(* A call that stays inside the file (a read) or inside its sectors (a     *)
(* write) is done as a whole, and the file ends where it reaches furthest. *)
(***************************************************************************)
WholeRequest ==
    LET limit == IF type = "READ" THEN before.size ELSE Capacity
    IN  pc = "return" /\ pos0 + len <= limit =>
            bytes_rw = len /\ i_size = Max2(before.size, pos0 + len)

(***************************************************************************)
(* Between calls the length in the inode on the disk is the cached one,    *)
(* and no descriptor is behind the end of the file.                        *)
(***************************************************************************)
SizeSaved ==
    pc = "idle" => d_size = i_size /\ \A f \in Fd : fd_pos[f] <= i_size

(* Every call returns: the loop of do_rdwt ends for every position, length  *)
(* and size.                                                                *)
CallReturns == pc # "idle" ~> pc = "idle"

=============================================================================
