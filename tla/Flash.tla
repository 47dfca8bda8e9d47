-------------------------------- MODULE Flash --------------------------------
(***************************************************************************)
(* flash_iso (tools/nq-disk/src/flash.rs) on one USB disk: the ISO is      *)
(* written and verified, a data partition is added to its partition table, *)
(* and a file system is made and seeded there.  The operating system may   *)
(* mount the disk again whenever it is not open, which makes it busy; the  *)
(* last two steps are then tried again.  Sectors may go bad silently, any  *)
(* step may fail, and the user may interrupt the tool and start it again.  *)
(***************************************************************************)
EXTENDS GptPlan

CONSTANTS
  Sizes,        \* sectors of the disks there are
  Chunk,        \* sectors of the buffer the ISO is copied with
  Need,         \* sectors preflight_flash asks for behind the ISO: 256 MiB
  MaxAttempts,  \* attempts of with_busy_retry, 10 in the code
  MaxFaults     \* bad writes, failing steps and interruptions

ASSUME SizesAssumption == Sizes \subseteq Nat \ {0}
ASSUME FlashAssumption ==
  /\ Chunk \in Nat \ {0} /\ Need \in Nat
  /\ MaxAttempts \in Nat \ {0} /\ MaxFaults \in Nat

VARIABLES
  size,     \* sectors of the disk
  content,  \* content[s]: what sector s holds
  primary,  \* the partitions of the primary table this tool wrote
  backup,   \* the partitions of the backup table
  pc,       \* the step of flash_iso
  at,       \* sectors of the ISO written
  part,     \* the DataPartition returned by ensure_data_partition
  tries,    \* failed attempts of with_busy_retry
  faults,
  cause     \* history: an error other than a busy device or a full disk

vars == <<size, content, primary, backup, pc, at, part, tries, faults, cause>>

Kind == {"old", "iso", "table", "torn", "fs"}

NoPart == [name |-> "native-qemu", first |-> 0, last |-> 0]

TypeOK ==
  /\ size \in Sizes
  /\ content \in [0..(size - 1) -> Kind]
  /\ primary \subseteq Partition /\ backup \subseteq Partition
  /\ pc \in {"idle", "write", "verify", "table", "format", "seed", "done", "failed"}
  /\ at \in 0..IsoLba
  /\ part \in Partition
  /\ tries \in 0..(MaxAttempts - 1)
  /\ faults \in 0..MaxFaults
  /\ cause \in {"none", "error"}

\* A disk with anything on it.
Init ==
  /\ size \in Sizes
  /\ content = [s \in 0..(size - 1) |-> "old"]
  /\ primary = {} /\ backup = {}
  /\ pc = "idle"
  /\ at = 0
  /\ part = NoPart
  /\ tries = 0
  /\ faults = 0
  /\ cause = "none"

Fault == faults < MaxFaults /\ faults' = faults + 1

Put(f, ss, what)  == [s \in 0..(size - 1) |-> IF s \in ss THEN what ELSE f[s]]
Written(ss, what) == Put(content, ss, what)

-----------------------------------------------------------------------------
(***************************************************************************)
(* The ISO.                                                                *)
(***************************************************************************)

\* preflight_flash refuses a disk without room for data.
Begin ==
  /\ pc = "idle"
  /\ pc' = IF size < IsoLba + Need THEN "failed" ELSE "write"
  /\ at' = 0
  /\ part' = NoPart
  /\ tries' = 0
  /\ cause' = "none"
  /\ UNCHANGED <<size, content, primary, backup, faults>>

ChunkEnd == IF at + Chunk < IsoLba THEN at + Chunk ELSE IsoLba

\* The buffer is filled, or the end of the ISO reached.
Advance ==
  /\ at' = ChunkEnd
  /\ pc' = IF ChunkEnd = IsoLba THEN "verify" ELSE "write"
  /\ UNCHANGED <<size, primary, backup, part, tries, cause>>

WriteChunk ==
  /\ pc = "write"
  /\ content' = Written(at..(ChunkEnd - 1), "iso")
  /\ Advance
  /\ UNCHANGED faults

\* The device loses what it is given for a sector, and does not say so.
LoseSector ==
  /\ pc = "write"
  /\ Fault
  /\ \E lost \in at..(ChunkEnd - 1) : content' = Written((at..(ChunkEnd - 1)) \ {lost}, "iso")
  /\ Advance

\* A buffer not filled ends the loop wherever it is.
ShortRead ==
  /\ pc = "write"
  /\ Fault
  /\ \E end \in at..(at + Chunk - 1) :
       /\ end < IsoLba
       /\ content' = Written(at..(end - 1), "iso")
       /\ at' = end
  /\ pc' = "verify"
  /\ UNCHANGED <<size, primary, backup, part, tries, cause>>

\* The disk is read back and compared with the whole ISO.
Verified == \A s \in 0..(IsoLba - 1) : content[s] = "iso"

\* Seeded defect: compared with as much of the ISO as was written.
VerifyWritten ==
  /\ pc = "verify"
  /\ IF \A s \in 0..(at - 1) : content[s] = "iso"
     THEN pc' = "table" /\ UNCHANGED cause ELSE pc' = "failed" /\ cause' = "error"
  /\ UNCHANGED <<size, content, primary, backup, at, part, tries, faults>>

Verify ==
  /\ pc = "verify"
  /\ IF Verified THEN pc' = "table" /\ UNCHANGED cause ELSE pc' = "failed" /\ cause' = "error"
  /\ UNCHANGED <<size, content, primary, backup, at, part, tries, faults>>

-----------------------------------------------------------------------------
(***************************************************************************)
(* with_busy_retry.                                                        *)
(***************************************************************************)

\* Seeded defect: one attempt more.
EndAttemptLate(error) ==
  /\ IF error = "busy" /\ tries < MaxAttempts THEN pc' = pc /\ tries' = tries + 1
                                    ELSE pc' = "failed" /\ UNCHANGED tries
  /\ cause' = IF error = "busy" THEN cause ELSE "error"

\* Seeded defect: tried again from the partition table on, whose success
\* starts the count over.
EndAttemptEarlier(error) ==
  /\ IF error = "busy" /\ tries + 1 < MaxAttempts THEN pc' = "table" /\ tries' = tries + 1
                                        ELSE pc' = "failed" /\ UNCHANGED tries
  /\ cause' = IF error = "busy" THEN cause ELSE "error"

\* A busy device is tried again, from the start of the step; any other error
\* and the last attempt end the flash.
EndAttempt(error) ==
  /\ IF error = "busy" /\ tries + 1 < MaxAttempts
     THEN pc' = (IF pc = "seed" THEN "format" ELSE pc) /\ tries' = tries + 1
     ELSE pc' = "failed" /\ UNCHANGED tries
  /\ cause' = IF error = "busy" THEN cause ELSE "error"

\* open_raw has tried to unmount and open the disk twelve times, for the table,
\* for mkfs or once more behind it; nothing is written.
Busy ==
  /\ pc \in {"table", "format", "seed"}
  /\ EndAttempt("busy")
  /\ UNCHANGED <<size, content, primary, backup, at, part, faults>>

-----------------------------------------------------------------------------
(***************************************************************************)
(* ensure_data_partition.                                                  *)
(***************************************************************************)

\* Behind the protective MBR: the header and the entries.
PrimarySectors == 1..(FirstUsable - 1)
BackupSectors  == (size - Tail)..(size - 1)

Holds(ss, what) == \A s \in ss : content[s] = what

Readable == Holds(PrimarySectors, "iso") \/ Holds(PrimarySectors, "table") \/ Holds(BackupSectors, "table")

\* The primary table if it is whole, else the backup.
Table ==
  IF Holds(PrimarySectors, "iso") THEN IsoParts
  ELSE IF Holds(PrimarySectors, "table") THEN primary ELSE backup

\* Seeded defect: an earlier attempt's partition is left where it is.
OthersAll(ps) == ps

\* Without the data partition of an earlier flash or attempt.
Others(ps) == {p \in ps : p.name # "native-qemu"}

\* Which partition the table is to have besides the others.
Planned == {DataPartition(c) : c \in Chosen(Others(Table), size)}

\* Neither table is whole: the second failed write hit the other one.
Unreadable ==
  /\ pc = "table" /\ ~Readable
  /\ EndAttempt("other")
  /\ UNCHANGED <<size, content, primary, backup, at, part, faults>>

NoRoom ==
  /\ pc = "table" /\ Readable
  /\ Planned = {}
  /\ pc' = "failed"
  /\ UNCHANGED <<size, content, primary, backup, at, part, tries, faults, cause>>

\* The backup is written before the primary table.
AddPartition ==
  /\ pc = "table" /\ Readable
  /\ \E p \in Planned :
       /\ primary' = Others(Table) \cup {p}
       /\ backup' = Others(Table) \cup {p}
       /\ content' = Written(PrimarySectors \cup BackupSectors, "table")
       /\ part' = p
  /\ pc' = "format"
  /\ tries' = 0
  /\ UNCHANGED <<size, at, faults, cause>>

\* The write fails, in the backup or in the primary table, with whatever error.
TableTorn ==
  /\ pc = "table" /\ Readable
  /\ Fault
  /\ \E p \in Planned, error \in {"busy", "other"} :
       /\ EndAttempt(error)
       /\ \/ content' = Written(BackupSectors, "torn") /\ UNCHANGED backup
          \/ /\ backup' = Others(Table) \cup {p}
             /\ content' = Put(Written(BackupSectors, "table"), {1}, "torn")
  /\ UNCHANGED <<size, primary, at, part>>

-----------------------------------------------------------------------------
(***************************************************************************)
(* seed_partition_slice.                                                   *)
(***************************************************************************)

\* Seeded defect: the last sector counted twice.
BlockCountOver(p) == p.last - p.first + 2

\* open_slice: the blocks of the slice, addressed from its start.
BlockCount(p) == p.last - p.first + 1

\* write_blocks refuses what does not fit in the slice.
Blocks(from, n) == IF from + n > BlockCount(part) THEN {} ELSE (part.first + from)..(part.first + from + n - 1)

\* mkfs writes anywhere in the slice.
Format ==
  /\ pc = "format"
  /\ content' = Written(Blocks(0, BlockCount(part)), "fs")
  /\ pc' = "seed"
  /\ UNCHANGED <<size, primary, backup, at, part, tries, faults, cause>>

\* The configuration and the image, if there is one, are written and the file
\* system is unmounted.
Seed ==
  /\ pc = "seed"
  /\ content' = Written(Blocks(0, BlockCount(part)), "fs")
  /\ pc' = "done"
  /\ UNCHANGED <<size, primary, backup, at, part, tries, faults, cause>>

SeedFails ==
  /\ pc \in {"format", "seed"}
  /\ Fault
  /\ \E n \in 0..BlockCount(part), error \in {"busy", "other"} :
       content' = Written(Blocks(0, n), "fs") /\ EndAttempt(error)
  /\ UNCHANGED <<size, primary, backup, at, part>>

-----------------------------------------------------------------------------
Working == pc \in {"write", "verify", "table", "format", "seed"}

\* The disk cannot be opened, read or written.
OpenFails ==
  /\ pc \in {"write", "verify", "table", "format"}
  /\ Fault
  /\ pc' = "failed"
  /\ cause' = "error"
  /\ UNCHANGED <<size, content, primary, backup, at, part, tries>>

\* The user ends the tool, and may start it again, as after its end.
Interrupt ==
  /\ Working
  /\ Fault
  /\ pc' = "idle"
  /\ UNCHANGED <<size, content, primary, backup, at, part, tries, cause>>

Again ==
  /\ pc \in {"done", "failed"}
  /\ pc' = "idle"
  /\ UNCHANGED <<size, content, primary, backup, at, part, tries, faults, cause>>

FlashStep ==
  \/ Begin \/ WriteChunk \/ Verify
  \/ Unreadable \/ NoRoom \/ AddPartition \/ Format \/ Seed \/ Busy

Next == FlashStep \/ LoseSector \/ ShortRead \/ OpenFails \/ TableTorn \/ SeedFails \/ Interrupt \/ Again

Spec == Init /\ [][Next]_vars

\* The tool runs; what the device, the system and the user do is left open.
FairSpec == Spec /\ WF_vars(FlashStep)

-----------------------------------------------------------------------------
(***************************************************************************)
(* Properties.                                                             *)
(***************************************************************************)

\* "ISO verification failed" (flash.rs:516) is not the last word: from the
\* verification to the end the ISO stays whole on the disk, but for its
\* partition table, which the data partition is added to, whatever attempts fail
\* (flash.rs:329-393).
IsoOnDisk ==
  pc \in {"table", "format", "seed", "done"} =>
    Holds((0..(IsoLba - 1)) \ PrimarySectors, "iso")

\* When the file system is made and when the flash is done, the disk has the
\* ISO's partitions and one data partition, the one the file system is in; it
\* overlaps neither them nor the tables, starts aligned, and both tables say so
\* (partition.rs:44-131, blockdev.rs:48-120).
OneVolume ==
  pc \in {"format", "seed", "done"} =>
    /\ Holds(PrimarySectors, "table") /\ Holds(BackupSectors, "table")
    /\ primary = IsoParts \cup {part} /\ backup = primary
    /\ part.name = "native-qemu"
    /\ part.first <= part.last /\ Sectors(part) \subseteq Usable(size)
    /\ Sectors(part) \cap Taken(IsoParts) = {}
    /\ part.first % Align = 0

\* Busy devices are tried again (flash.rs:395-422): a flash fails only if the
\* disk is too small for the ISO and a first data partition, something other than
\* a busy device went wrong, or the last attempt was used up.  What an earlier
\* attempt left on the disk is in no later one's way (partition.rs:55-63).
FailsWithCause ==
  pc = "failed" =>
    \/ cause = "error"
    \/ tries = MaxAttempts - 1
    \/ size < IsoLba + Need
    \/ Candidates(IsoParts, size) = {}

\* A flash ends, however often the system mounts the disk again (flash.rs:401).
FlashEnds == Working ~> ~Working
=============================================================================
