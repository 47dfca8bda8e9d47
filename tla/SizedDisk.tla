----------------------------- MODULE SizedDisk -----------------------------
(***************************************************************************)
(* tools/nq-disk/src/sized_disk.rs: a raw device that refuses transfers    *)
(* which are not whole aligned sectors, presented as a file of bytes.      *)
(* Writes of parts of sectors read the sectors, patch and write them back. *)
(* Any transfer may fail: of those sectors some are written, others not.   *)
(***************************************************************************)
EXTENDS Integers

CONSTANTS
  Sector,    \* SECTOR, 512 in the code
  RawSize,   \* the size probe_size reports, not always whole sectors
  Byte,      \* contents of a byte
  MaxLen,    \* longest buffer of a caller
  MaxAt      \* greatest offset or seek distance of a caller

ASSUME SectorAssumption  == Sector \in Nat \ {0}
ASSUME RawSizeAssumption == RawSize \in Nat
ASSUME BoundsAssumption  == MaxLen \in Nat /\ MaxAt \in Nat

VARIABLES
  device,  \* the bytes of the device
  pos,     \* SizedDisk.pos
  got,     \* what the last call returned
  refused  \* history: the device was asked for a transfer it refuses

vars == <<device, pos, got, refused>>

Down(x) == (x \div Sector) * Sector
Up(x)   == ((x + Sector - 1) \div Sector) * Sector

\* Seeded defect: the size as it was probed.
SizeProbed == RawSize

\* open_with rounds the size down.
Size == Down(RawSize)

NoData       == [k \in {} |-> 0]
Error        == [ok |-> FALSE, n |-> 0, data |-> NoData]
Done(n)      == [ok |-> TRUE, n |-> n, data |-> NoData]
Least(a, b)  == IF a < b THEN a ELSE b

Buffer == UNION {[0..(n - 1) -> Byte] : n \in 0..MaxLen}
Result == [ok : BOOLEAN, n : 0..RawSize, data : Buffer]

TypeOK ==
  /\ device \in [0..(RawSize - 1) -> Byte]
  /\ pos \in 0..Size
  /\ got \in Result
  /\ refused \in BOOLEAN

Init ==
  /\ device \in [0..(RawSize - 1) -> Byte]
  /\ pos = 0
  /\ got = Done(0)
  /\ refused = FALSE

-----------------------------------------------------------------------------
(***************************************************************************)
(* Transfers with the device.                                              *)
(***************************************************************************)

Transferable(at, n) == at % Sector = 0 /\ n % Sector = 0 /\ at + n <= RawSize

Transfer(at, n) == refused' = (refused \/ ~Transferable(at, n))

RawRead(at, n) == [k \in 0..(n - 1) |-> device[at + k]]

AllSectors == {i \div Sector : i \in 0..(RawSize - 1)}

\* done: the sectors that are written before the device fails; all if it does not.
RawWrite(at, n, data, done) ==
  device' = [i \in 0..(RawSize - 1) |->
               IF i \in at..(at + n - 1) /\ i \div Sector \in done THEN data[i - at] ELSE device[i]]

\* The whole sectors around a range; the end is cut off at the end of the disk.
Start(at)   == Down(at)
End(at, n)  == Least(Up(at + n), Size)

-----------------------------------------------------------------------------
(***************************************************************************)
(* read_at and write_at, for a range the caller has not found too long.    *)
(***************************************************************************)

Gather(at, n) ==
  LET len == End(at, n) - Start(at)
      tmp == RawRead(Start(at), len)
      off == at - Start(at)
  IN  [k \in 0..(n - 1) |-> tmp[off + k]]

\* Seeded defect: a buffer of whole sectors counts as aligned wherever it starts.
FullyAlignedByLength(at, n) == n % Sector = 0

FullyAligned(at, n) == at % Sector = 0 /\ n % Sector = 0

\* Seeded defect: the sectors are not read before they are patched.
PatchZeroes(at, n, buf, done) ==
  LET len == End(at, n) - Start(at)
      off == at - Start(at)
  IN  /\ RawWrite(Start(at), len,
            [k \in 0..(len - 1) |-> IF k \in off..(off + n - 1) THEN buf[k - off] ELSE CHOOSE b \in Byte : TRUE], done)
      /\ Transfer(Start(at), len)

\* Read, patch, write back.
Patch(at, n, buf, done) ==
  LET len == End(at, n) - Start(at)
      tmp == RawRead(Start(at), len)
      off == at - Start(at)
  IN  /\ RawWrite(Start(at), len,
            [k \in 0..(len - 1) |-> IF k \in off..(off + n - 1) THEN buf[k - off] ELSE tmp[k]], done)
      /\ Transfer(Start(at), len)

Store(at, n, buf, done) ==
  IF FullyAligned(at, n)
  THEN RawWrite(at, n, buf, done) /\ Transfer(at, n)
  ELSE Patch(at, n, buf, done)

BeyondEnd(at, n) == at + n > Size

ReadAt(at, n) ==
  /\ IF BeyondEnd(at, n)
     THEN got' = Error /\ UNCHANGED refused
     ELSE /\ got' = [ok |-> TRUE, n |-> n, data |-> Gather(at, n)]
          /\ Transfer(Start(at), End(at, n) - Start(at))
  /\ UNCHANGED <<device, pos>>

WriteAt(at, n, buf) ==
  /\ IF BeyondEnd(at, n)
     THEN got' = Error /\ UNCHANGED <<device, refused>>
     ELSE got' = Done(n) /\ Store(at, n, buf, AllSectors)
  /\ UNCHANGED pos

\* The device fails to read the sectors, or to write them.
ReadFails(at, n) ==
  /\ n > 0 /\ ~BeyondEnd(at, n)
  /\ got' = Error
  /\ Transfer(Start(at), End(at, n) - Start(at))
  /\ UNCHANGED <<device, pos>>

WriteFails(at, n, buf) ==
  /\ n > 0 /\ ~BeyondEnd(at, n)
  /\ got' = Error
  /\ \E done \in SUBSET AllSectors : Store(at, n, buf, done)
  /\ UNCHANGED pos

-----------------------------------------------------------------------------
(***************************************************************************)
(* Read, Write and Seek of the stream.                                     *)
(***************************************************************************)

\* Zero bytes at the end of the disk or for an empty buffer; else what there is
\* room for.
Room(n) == Least(Size - pos, n)

Read(n) ==
  /\ IF Room(n) = 0
     THEN got' = Done(0) /\ UNCHANGED refused
     ELSE /\ got' = [ok |-> TRUE, n |-> Room(n), data |-> Gather(pos, Room(n))]
          /\ Transfer(Start(pos), End(pos, Room(n)) - Start(pos))
  /\ pos' = pos + Room(n)
  /\ UNCHANGED device

Write(n, buf) ==
  /\ IF Room(n) = 0 THEN UNCHANGED <<device, refused>> ELSE Store(pos, Room(n), buf, AllSectors)
  /\ got' = Done(Room(n))
  /\ pos' = pos + Room(n)

\* Seeded defect: the end of the disk before it was rounded down.
SeekToRaw(target) ==
  /\ IF target < 0 \/ target > RawSize
     THEN got' = Error /\ UNCHANGED pos
     ELSE got' = Done(target) /\ pos' = target
  /\ UNCHANGED <<device, refused>>

SeekTo(target) ==
  /\ IF target < 0 \/ target > Size
     THEN got' = Error /\ UNCHANGED pos
     ELSE got' = Done(target) /\ pos' = target
  /\ UNCHANGED <<device, refused>>

Seek ==
  \E off \in -MaxAt..MaxAt, from \in {"start", "current", "end"} :
    /\ from = "start" => off >= 0
    /\ SeekTo(CASE from = "start" -> off [] from = "current" -> pos + off [] from = "end" -> Size + off)

Next ==
  \/ \E at \in 0..MaxAt, n \in 1..MaxLen : ReadAt(at, n) \/ ReadFails(at, n)
  \/ \E at \in 0..MaxAt, n \in 1..MaxLen :
       \E buf \in [0..(n - 1) -> Byte] : WriteAt(at, n, buf) \/ WriteFails(at, n, buf)
  \/ \E n \in 0..MaxLen : Read(n) \/ ReadFails(pos, Room(n))
  \/ \E n \in 0..MaxLen :
       \E buf \in [0..(n - 1) -> Byte] : Write(n, buf) \/ WriteFails(pos, Room(n), buf)
  \/ Seek

Spec == Init /\ [][Next]_vars

-----------------------------------------------------------------------------
(***************************************************************************)
(* Properties.                                                             *)
(***************************************************************************)

\* "Unaligned or non-multiple-of-sector R/W -> EINVAL" (sized_disk.rs:6-7): no
\* call, at whatever offset and of whatever length, makes such a transfer.
NeverRefused == ~refused

\* "never I/O past a partial trailing sector" (sized_disk.rs:51): what follows
\* the last whole sector keeps its contents.
TrailingKept == [][\A i \in Down(RawSize)..(RawSize - 1) : device'[i] = device[i]]_vars

File ==
  INSTANCE ByteFile
    WITH bytes <- [i \in 0..(Size - 1) |-> device[i]],
         Lengths <- 0..MaxLen, Offsets <- 0..MaxAt, Targets <- -MaxAt..(Size + MaxAt)

\* Every call does what it does on a plain file: it reads what is there, writes
\* what it is given and nothing beside it, and ends at the right position; one that
\* fails half-way has written nothing but a part of what it was given, and the
\* position stays (sized_disk.rs:80-163).
ImplementsByteFile == File!Spec

=============================================================================
