----------------------------- MODULE RdwtProofs -----------------------------
(***************************************************************************)
(* Proofs about Rdwt, for sectors, files, buffers, positions and lengths   *)
(* of any size: what a call transfers, that it transfers all it can, and   *)
(* that the length of the file is saved.                                   *)
(***************************************************************************)
EXTENDS Rdwt, TLAPS

-----------------------------------------------------------------------------
(* Sectors and bytes *)

(* A position is a sector and an offset in it, as do_rdwt splits it.        *)
LEMMA SplitPosition ==
    ASSUME NEW a \in Nat
    PROVE  /\ a \div SECTOR_SIZE \in Nat
           /\ a % SECTOR_SIZE \in 0 .. SECTOR_SIZE - 1
           /\ a = (a \div SECTOR_SIZE) * SECTOR_SIZE + (a % SECTOR_SIZE)
BY RdwtAssumption

(* The next sectors begin where the ones before end.                        *)
LEMMA SectorsAdd ==
    ASSUME NEW s \in Int, NEW c \in Int
    PROVE  (s + c) * SECTOR_SIZE = s * SECTOR_SIZE + c * SECTOR_SIZE
BY RdwtAssumption

(* A later sector begins a sector further on, at least.                     *)
LEMMA SectorsOrdered ==
    ASSUME NEW s \in Int, NEW m \in Int, m < s
    PROVE  m * SECTOR_SIZE + SECTOR_SIZE <= s * SECTOR_SIZE
<1>1. \A k \in Int : k >= 1 => k * SECTOR_SIZE >= SECTOR_SIZE
  BY RdwtAssumption
<1>2. s * SECTOR_SIZE = m * SECTOR_SIZE + (s - m) * SECTOR_SIZE
  BY RdwtAssumption
<1> QED
  BY <1>1, <1>2, RdwtAssumption

(* A number of at least one sector holds a byte behind any offset.          *)
LEMMA ChunkHoldsBytes ==
    ASSUME NEW c \in Int, c >= 1, NEW o \in 0 .. SECTOR_SIZE - 1
    PROVE  c * SECTOR_SIZE - o \in Nat \ {0}
<1>1. c * SECTOR_SIZE >= SECTOR_SIZE /\ c * SECTOR_SIZE \in Int
  BY RdwtAssumption
<1> QED
  BY <1>1, RdwtAssumption

-----------------------------------------------------------------------------
(***************************************************************************)
(* The loop invariant of do_rdwt.  As long as bytes are left, the sector   *)
(* and the offset in it are the place behind the bytes transferred so far, *)
(* which fd_pos points to as well; once none is left the loop may go on    *)
(* over sectors, with nothing to transfer.                                 *)
(***************************************************************************)
Place ==
    pc # "idle" =>
        /\ bytes_rw + bytes_left = len
        /\ fd_pos[fd] = pos0 + bytes_rw
        /\ pos0 <= MaxPos
        /\ bytes_left > 0 => Start = pos0 + bytes_rw

(* What has been transferred so far; between calls, nothing.                *)
Moved ==
    /\ \A a \in Address :
          disk[a] = IF pc # "idle" /\ type = "WRITE" /\ a - pos0 \in 0 .. bytes_rw - 1
                    THEN InBuf(a - pos0) ELSE OnDisk(a)
    /\ \A k \in Offset :
          buf[k] = IF pc # "idle" /\ type = "READ" /\ k < bytes_rw THEN OnDisk(pos0 + k)
                                                                  ELSE InBuf(k)

Limit(t, size) == IF t = "READ" THEN size ELSE Capacity

(* The sectors of the loop: a turn transfers at least one, and the last is  *)
(* the one in which the request or the file ends.                           *)
Sects ==
    pc = "loop" =>
        /\ sect <= rw_sect_max => chunk >= 1
        /\ i_size = before.size
        /\ pos0 + len <= Limit(type, before.size) =>
              rw_sect_max = (pos0 + len) \div SECTOR_SIZE

(* The length, which only the end of a call changes.                        *)
Saved ==
    /\ d_size = i_size
    /\ \A f \in Fd : (pc = "loop" => f # fd) => fd_pos[f] <= i_size

IInv == TypeOK /\ Place /\ Moved /\ Sects /\ Saved /\ WholeRequest

(* Everything that a call can reach has an address.                         *)
LEMMA ReachedAddress ==
    ASSUME NEW a \in Nat, a <= MaxPos + MaxLen
    PROVE  a \in Address
<1>1. (FSBUF_SECTS + 1) * SECTOR_SIZE \in Nat
  BY RdwtAssumption
<1> QED
  BY <1>1, RdwtAssumption DEF Address

LEMMA IInvInit == Init => IInv
BY RdwtAssumption
DEF Init, IInv, TypeOK, Place, Moved, Sects, Saved, WholeRequest, OnDisk, InBuf, Address,
    Offset

LEMMA ReopenStep ==
    ASSUME IInv, NEW f \in Fd, Reopen(f)
    PROVE  IInv'
<1> USE DEF IInv, Reopen, call, locals
<1>1. TypeOK'
  BY DEF TypeOK
<1>2. Place' /\ Sects' /\ WholeRequest'
  BY DEF Place, Sects, WholeRequest
<1>3. Moved'
  BY DEF Moved, pos0
<1>4. Saved'
  BY DEF TypeOK, Saved
<1> QED
  BY <1>1, <1>2, <1>3, <1>4

LEMMA CallStep ==
    ASSUME IInv, NEW t \in {"READ", "WRITE"}, NEW f \in Fd, NEW n \in 0 .. MaxLen,
           Call(t, f, n)
    PROVE  IInv'
<1> DEFINE pos == fd_pos[f]
           last == PosEnd(t, pos, n) \div SECTOR_SIZE
           first == pos \div SECTOR_SIZE
<1>1. /\ pc = "idle" /\ pc' = "loop" /\ pos <= MaxPos
      /\ type' = t /\ fd' = f /\ len' = n
      /\ sect' = first /\ rw_sect_max' = last
      /\ chunk' = Chunk(first, last)
      /\ off' = pos % SECTOR_SIZE /\ bytes_rw' = 0 /\ bytes_left' = n
      /\ before' = [pos |-> pos, size |-> i_size]
      /\ UNCHANGED <<fd_pos, i_size, d_size, disk, buf>>
  BY DEF Call
<1>2. pos \in Nat /\ i_size \in Nat /\ n \in Nat
  BY RdwtAssumption DEF IInv, TypeOK
<1>3. Capacity \in Nat
  BY RdwtAssumption DEF Capacity
<1>4. PosEnd(t, pos, n) \in Nat
  BY <1>2, <1>3 DEF PosEnd, Min2
<1>5. first \in Nat /\ last \in Nat /\ off' \in 0 .. SECTOR_SIZE - 1
      /\ pos = first * SECTOR_SIZE + off'
  BY <1>1, <1>2, <1>4, SplitPosition
<1> HIDE DEF first, last, pos
<1>6. chunk' \in Int /\ (first <= last => chunk' >= 1)
  BY <1>1, <1>5, RdwtAssumption DEF Chunk, Min2
<1>7. TypeOK'
  BY <1>1, <1>2, <1>5, <1>6, RdwtAssumption DEF IInv, TypeOK
<1>8. Place'
  BY <1>1, <1>2, <1>5 DEF Place, pos0, Start, pos
<1>9. Moved'
  BY <1>1, <1>2 DEF IInv, Moved, pos0, Offset, Address
<1>10. Sects'
  <2>1. pos + n <= Limit(t, i_size) => PosEnd(t, pos, n) = pos + n
    BY <1>2, <1>3 DEF Limit, PosEnd, Min2
  <2>2. pos + n <= Limit(t, i_size) => last = (pos + n) \div SECTOR_SIZE
    BY <2>1 DEF last
  <2>3. pos0' = pos /\ before'.size = i_size
    BY <1>1 DEF pos0
  <2> QED
    BY <1>1, <1>6, <2>2, <2>3 DEF Sects, Limit, Capacity
<1>11. Saved' /\ WholeRequest'
  BY <1>1 DEF IInv, Saved, WholeRequest
<1> QED
  BY <1>7, <1>8, <1>9, <1>10, <1>11 DEF IInv

LEMMA TransferStep ==
    ASSUME IInv, Transfer
    PROVE  IInv'
<1>0. /\ TypeOK /\ pc = "loop" /\ pc' = "loop" /\ sect <= rw_sect_max
      /\ UNCHANGED <<i_size, d_size, type, fd, len, chunk, rw_sect_max, before>>
  BY DEF IInv, Transfer, call
<1>1. /\ sect \in Nat /\ chunk \in Int /\ chunk >= 1 /\ off \in 0 .. SECTOR_SIZE - 1
      /\ bytes_rw \in Nat /\ bytes_left \in Nat /\ len \in 0 .. MaxLen /\ pos0 \in Nat
      /\ MaxLen \in Nat /\ MaxPos \in Nat /\ SECTOR_SIZE \in Nat \ {0}
  BY <1>0, RdwtAssumption DEF IInv, TypeOK, Sects, pos0
<1>2. /\ bytes_rw + bytes_left = len
      /\ fd_pos[fd] = pos0 + bytes_rw
      /\ pos0 <= MaxPos
      /\ bytes_left > 0 => Start = pos0 + bytes_rw
  BY <1>0 DEF IInv, Place
<1> DEFINE room == chunk * SECTOR_SIZE - off
<1>3. room \in Nat \ {0}
  BY <1>1, ChunkHoldsBytes
<1>4. Bytes \in Nat /\ Bytes <= bytes_left
      /\ (Bytes > 0 => bytes_left > 0) /\ (Bytes < bytes_left => Bytes = room)
  BY <1>1, <1>3 DEF Bytes, Min2
<1>5. /\ off' = 0 /\ sect' = sect + chunk
      /\ bytes_rw' = bytes_rw + Bytes /\ bytes_left' = bytes_left - Bytes
      /\ fd_pos' = [fd_pos EXCEPT ![fd] = @ + Bytes]
  BY DEF Transfer, NextOff
<1>6. sect * SECTOR_SIZE \in Int /\ chunk * SECTOR_SIZE \in Int
  BY <1>1
<1>7. Start' = sect * SECTOR_SIZE + chunk * SECTOR_SIZE
  BY <1>1, <1>5, <1>6, SectorsAdd DEF Start
<1>8. Start = sect * SECTOR_SIZE + off
  BY DEF Start
<1>9. pos0' = pos0
  BY <1>0 DEF pos0
<1>10. Place'
  <2>1. bytes_left' > 0 => Start' = pos0 + bytes_rw'
    BY <1>1, <1>2, <1>4, <1>5, <1>6, <1>7, <1>8
  <2>2. fd_pos'[fd] = pos0 + bytes_rw'
    BY <1>0, <1>1, <1>2, <1>4, <1>5 DEF TypeOK
  <2>3. bytes_rw' + bytes_left' = len
    BY <1>1, <1>2, <1>4, <1>5
  <2> QED
    BY <1>0, <1>2, <1>9, <2>1, <2>2, <2>3 DEF Place
<1>11. ASSUME type = "READ"
       PROVE  Moved' /\ disk' \in [Address -> Int] /\ buf' \in [Offset -> Int]
  <2>1. /\ UNCHANGED disk
        /\ buf' = [k \in Offset |-> IF k - bytes_rw \in 0 .. Bytes - 1
                                   THEN disk[Start + k - bytes_rw] ELSE buf[k]]
    BY <1>11 DEF Transfer
  <2>2. \A a \in Address : disk[a] = OnDisk(a)
    BY <1>11 DEF IInv, Moved
  <2>3. ASSUME NEW k \in Offset
        PROVE  /\ buf'[k] \in Int
               /\ buf'[k] = IF k < bytes_rw' THEN OnDisk(pos0 + k) ELSE InBuf(k)
    <3>1. k \in Nat /\ k <= MaxLen /\ buf[k] \in Int
      BY <1>0, <1>1 DEF Offset, TypeOK
    <3>2. buf[k] = IF k < bytes_rw THEN OnDisk(pos0 + k) ELSE InBuf(k)
      BY <1>0, <1>11 DEF IInv, Moved
    <3>3. CASE k - bytes_rw \in 0 .. Bytes - 1
      <4>1. Start + k - bytes_rw = pos0 + k
        BY <1>1, <1>2, <1>4, <3>1, <3>3
      <4>2. pos0 + k \in Address
        BY <1>1, <1>2, <3>1, ReachedAddress
      <4>3. buf'[k] = OnDisk(pos0 + k)
        BY <2>1, <2>2, <3>3, <4>1, <4>2
      <4>4. k < bytes_rw'
        BY <1>1, <1>4, <1>5, <3>1, <3>3
      <4> QED
        BY <4>3, <4>4, <1>1, <3>1 DEF OnDisk
    <3>4. CASE k - bytes_rw \notin 0 .. Bytes - 1
      <4>1. buf'[k] = buf[k]
        BY <2>1, <3>4
      <4>2. k < bytes_rw' <=> k < bytes_rw
        BY <1>1, <1>4, <1>5, <3>1, <3>4
      <4> QED
        BY <4>1, <4>2, <3>1, <3>2
    <3> QED
      BY <3>3, <3>4
  <2>4. buf' \in [Offset -> Int]
    BY <2>1, <2>3
  <2>5. Moved'
    BY <1>0, <1>9, <1>11, <2>1, <2>2, <2>3 DEF Moved
  <2> QED
    BY <1>0, <2>1, <2>4, <2>5 DEF TypeOK
<1>12. ASSUME type = "WRITE"
       PROVE  Moved' /\ disk' \in [Address -> Int] /\ buf' \in [Offset -> Int]
  <2>1. /\ UNCHANGED buf
        /\ disk' = [a \in Address |-> IF a - Start \in 0 .. Bytes - 1
                                     THEN buf[bytes_rw + a - Start] ELSE disk[a]]
    BY <1>12 DEF Transfer
  <2>2. \A k \in Offset : buf[k] = InBuf(k)
    BY <1>12 DEF IInv, Moved
  <2>3. ASSUME NEW a \in Address
        PROVE  /\ disk'[a] \in Int
               /\ disk'[a] = IF a - pos0 \in 0 .. bytes_rw' - 1
                            THEN InBuf(a - pos0) ELSE OnDisk(a)
    <3>1. a \in Nat /\ disk[a] \in Int
      <4>1. (FSBUF_SECTS + 1) * SECTOR_SIZE \in Nat
        BY RdwtAssumption
      <4>2. a \in Int /\ a >= 0
        BY <1>1, <4>1 DEF Address
      <4> QED
        BY <1>0, <4>2 DEF TypeOK
    <3>2. disk[a] = IF a - pos0 \in 0 .. bytes_rw - 1 THEN InBuf(a - pos0) ELSE OnDisk(a)
      BY <1>0, <1>12 DEF IInv, Moved
    <3>3. Start \in Int
      BY <1>1, <1>6, <1>8
    <3>4. CASE a - Start \in 0 .. Bytes - 1
      <4>1. bytes_rw + a - Start = a - pos0 /\ a - pos0 \in 0 .. bytes_rw' - 1
        BY <1>1, <1>2, <1>4, <1>5, <3>1, <3>3, <3>4
      <4>2. a - pos0 \in Offset
        BY <1>1, <1>2, <1>4, <1>5, <3>1, <4>1 DEF Offset
      <4>3. disk'[a] = InBuf(a - pos0)
        BY <2>1, <2>2, <3>4, <4>1, <4>2
      <4> QED
        BY <4>1, <4>3, <1>1, <3>1 DEF InBuf
    <3>5. CASE a - Start \notin 0 .. Bytes - 1
      <4>1. disk'[a] = disk[a]
        BY <2>1, <3>5
      <4>2. a - pos0 \in 0 .. bytes_rw' - 1 <=> a - pos0 \in 0 .. bytes_rw - 1
        BY <1>1, <1>2, <1>4, <1>5, <3>1, <3>3, <3>5
      <4> QED
        BY <4>1, <4>2, <3>1, <3>2
    <3> QED
      BY <3>4, <3>5
  <2>4. disk' \in [Address -> Int]
    BY <2>1, <2>3
  <2>5. Moved'
    BY <1>0, <1>9, <1>12, <2>1, <2>2, <2>3 DEF Moved
  <2> QED
    BY <1>0, <2>1, <2>4, <2>5 DEF TypeOK
<1>13. Moved' /\ disk' \in [Address -> Int] /\ buf' \in [Offset -> Int]
  BY <1>0, <1>11, <1>12 DEF TypeOK
<1>14. TypeOK'
  <2>1. fd_pos' \in [Fd -> Nat]
    BY <1>0, <1>4, <1>5 DEF TypeOK
  <2>2. sect' \in Nat /\ bytes_rw' \in 0 .. MaxLen /\ bytes_left' \in 0 .. MaxLen
        /\ off' \in 0 .. SECTOR_SIZE - 1
    BY <1>1, <1>2, <1>4, <1>5
  <2> QED
    BY <1>0, <1>13, <2>1, <2>2 DEF TypeOK
<1>15. Sects'
  BY <1>0, <1>1, <1>9 DEF IInv, Sects, Limit
<1>16. Saved'
  BY <1>0, <1>5 DEF IInv, Saved, TypeOK
<1>17. WholeRequest'
  BY <1>0 DEF WholeRequest
<1> QED
  BY <1>10, <1>13, <1>14, <1>15, <1>16, <1>17 DEF IInv

LEMMA FinishStep ==
    ASSUME IInv, Finish
    PROVE  IInv'
<1>0. /\ pc = "loop" /\ pc' = "return" /\ sect > rw_sect_max
      /\ i_size' = Grown /\ d_size' = Synced(Grown)
      /\ UNCHANGED <<fd_pos, disk, buf, type, fd, len, sect, chunk, off, bytes_rw,
                     bytes_left, rw_sect_max, before>>
  BY DEF Finish, call, locals
<1>1. /\ fd_pos \in [Fd -> Nat] /\ fd \in Fd /\ i_size \in Nat
      /\ Grown = Max2(fd_pos[fd], i_size) /\ Grown \in Nat
  BY DEF IInv, TypeOK, Grown, Max2
<1>2. d_size' = i_size' /\ i_size' \in Nat
  BY <1>0, <1>1 DEF IInv, Saved, Synced
<1>3. TypeOK'
  BY <1>0, <1>2 DEF IInv, TypeOK
<1>4. Place' /\ Moved' /\ Sects'
  BY <1>0 DEF IInv, Place, Moved, Sects, Start, pos0
<1>5. Saved'
  <2>1. fd_pos[fd] <= Grown /\ i_size <= Grown
    BY <1>1 DEF Max2
  <2>2. ASSUME NEW f \in Fd PROVE fd_pos[f] <= Grown
    <3>1. CASE f = fd
      BY <2>1, <3>1
    <3>2. CASE f # fd
      BY <1>1, <2>1, <3>2 DEF IInv, Saved
    <3> QED
      BY <3>1, <3>2
  <2> QED
    BY <1>0, <1>2, <2>2 DEF Saved
<1>6. WholeRequest'
  <2> SUFFICES ASSUME pos0 + len <= Limit(type, before.size)
               PROVE  bytes_rw = len /\ i_size' = Max2(before.size, pos0 + len)
    BY <1>0 DEF WholeRequest, Limit, pos0, Capacity
  <2>1. /\ sect \in Nat /\ rw_sect_max \in Nat /\ off \in Nat /\ pos0 \in Nat
        /\ len \in Nat /\ bytes_rw \in Nat /\ bytes_left \in Nat
        /\ before.size \in Nat /\ SECTOR_SIZE \in Nat
    BY RdwtAssumption DEF IInv, TypeOK, pos0
  <2>2. /\ bytes_rw + bytes_left = len /\ fd_pos[fd] = pos0 + bytes_rw
        /\ bytes_left > 0 => Start = pos0 + bytes_rw
        /\ i_size = before.size
        /\ rw_sect_max = (pos0 + len) \div SECTOR_SIZE
    BY <1>0 DEF IInv, Place, Sects
  <2>3. bytes_left = 0
    <3>1. SUFFICES ASSUME bytes_left > 0 PROVE FALSE
      BY <2>1
    <3>2. rw_sect_max * SECTOR_SIZE + SECTOR_SIZE <= sect * SECTOR_SIZE
      BY <1>0, <2>1, SectorsOrdered
    <3>3. pos0 + len < rw_sect_max * SECTOR_SIZE + SECTOR_SIZE
          /\ rw_sect_max * SECTOR_SIZE \in Int /\ sect * SECTOR_SIZE \in Int
      BY <2>1, <2>2, SplitPosition
    <3>4. sect * SECTOR_SIZE <= pos0 + bytes_rw
      BY <2>1, <2>2, <3>1, <3>3 DEF Start
    <3> QED
      BY <2>1, <2>2, <3>1, <3>2, <3>3, <3>4
  <2> QED
    BY <1>0, <1>1, <2>1, <2>2, <2>3 DEF Max2
<1> QED
  BY <1>3, <1>4, <1>5, <1>6 DEF IInv

LEMMA ReplyStep ==
    ASSUME IInv, Reply
    PROVE  IInv'
<1> USE RdwtAssumption DEF IInv, Reply
<1>1. TypeOK'
  BY DEF TypeOK, OnDisk, InBuf, Address, Offset
<1>2. Place' /\ Sects' /\ WholeRequest'
  BY DEF Place, Sects, WholeRequest
<1>3. Moved'
  BY DEF Moved
<1>4. Saved'
  BY DEF Saved
<1> QED
  BY <1>1, <1>2, <1>3, <1>4

LEMMA IInvStep == IInv /\ [Next]_vars => IInv'
<1> SUFFICES ASSUME IInv, [Next]_vars PROVE IInv'
  OBVIOUS
<1>1. CASE UNCHANGED vars
  BY <1>1
  DEF vars, call, locals, IInv, TypeOK, Place, Moved, Sects, Saved, WholeRequest, Start, pos0
<1> QED
  BY <1>1, ReopenStep, CallStep, TransferStep, FinishStep, ReplyStep DEF Next

(* Through every turn of do_rdwt's loop, place, position and copied bytes   *)
(* agree, and the length is saved before the reply.                         *)
THEOREM Invariant == Spec => []IInv
BY IInvInit, IInvStep, PTL DEF Spec

(* Positions, sizes and the locals of do_rdwt stay in their ranges.         *)
THEOREM TypeCorrect == Spec => []TypeOK
BY Invariant, PTL DEF IInv

(* What a call reports is what it did, for every position, length, sector   *)
(* size and buffer size: fd_pos moved on by the bytes transferred, and      *)
(* these bytes and no others were copied, each to its place.                *)
THEOREM CallTransfers == Spec => []Transferred
<1>1. IInv => Transferred
  BY DEF IInv, Place, Moved, Transferred
<1> QED
  BY <1>1, Invariant, PTL

(* A call that stays inside its limit is done as a whole: the loop over the *)
(* sectors does not end before the last byte.                               *)
THEOREM CallIsWhole == Spec => []WholeRequest
<1>1. IInv => WholeRequest
  BY DEF IInv
<1> QED
  BY <1>1, Invariant, PTL

(* Between calls the inode on the disk has the length of the cached one,    *)
(* and no position is behind it.                                            *)
THEOREM LengthIsSaved == Spec => []SizeSaved
<1>1. IInv => SizeSaved
  BY DEF IInv, Saved, SizeSaved
<1> QED
  BY <1>1, Invariant, PTL
=============================================================================
