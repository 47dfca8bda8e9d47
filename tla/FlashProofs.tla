----------------------------- MODULE FlashProofs -----------------------------
(***************************************************************************)
(* Flash never harms the verified ISO and ends with one data partition, for *)
(* every disk, every ISO and every bound, with the alignment of the code.  *)
(***************************************************************************)
EXTENDS Flash, WellFoundedInduction, TLAPS

\* Rounding up to 2048 sectors.
LEMMA Aligned ==
  ASSUME Align = 2048, NEW s \in Nat
  PROVE  AlignUp(s) \in Nat /\ s <= AlignUp(s) /\ AlignUp(s) % Align = 0
BY DEF AlignUp

\* A set of natural numbers has a least one.
LEMMA Least ==
  ASSUME NEW T, T \subseteq Nat, T # {}
  PROVE  \E x \in T : \A y \in T : x <= y
<1>. DEFINE R == {ss \in Nat \X Nat : ss[1] < ss[2]}
<1>1. IsWellFoundedOn(R, Nat)
  BY NatLessThanWellFounded DEF OpToRel
<1>. HIDE DEF R
<1>2. PICK x \in T : \A y \in T : ~(<<y, x>> \in R)
  BY <1>1, WFMin
<1>3. ASSUME NEW y \in T PROVE x <= y
  <2>1. x \in Nat /\ y \in Nat /\ ~(<<y, x>> \in R)
    BY <1>2
  <2>2. ~(y < x)
    BY <2>1 DEF R
  <2>. QED
    BY <2>1, <2>2
<1>. QED
  BY <1>3

\* A candidate lies behind the ISO, on free sectors, is aligned, and is no
\* longer than the disk.
LEMMA CandidateFits ==
  ASSUME Align = 2048, NEW ps, NEW sz \in Nat, NEW c \in Candidates(ps, sz)
  PROVE  /\ c.start \in Nat /\ c.len \in 1..sz
         /\ IsoLba <= c.start /\ c.start % Align = 0
         /\ \A s \in c.start..(c.start + c.len - 1) : s \in Usable(sz) /\ s \notin Taken(ps)
<1>1. PICK r \in Free(ps, sz) : c = Trimmed(r) /\ c.len > 4096
  BY DEF Candidates
<1>. DEFINE end == r.start + r.len
            s   == AlignUp(IF r.start < IsoLba THEN IsoLba ELSE r.start)
<1>2. r.start \in Nat /\ r.len \in Nat
  BY LayoutAssumption, IsoPartsAssumption DEF Free, FreeRuns, Usable
<1>3. ~(end <= IsoLba \/ s >= end)
  <2>. SUFFICES ASSUME end <= IsoLba \/ s >= end PROVE FALSE
    OBVIOUS
  <2>1. c = [start |-> r.start, len |-> 0]
    BY <1>1 DEF Trimmed
  <2>. QED
    BY <1>1, <2>1
<1>4. c = [start |-> s, len |-> end - s]
  BY <1>1, <1>3 DEF Trimmed
<1>5. r \in FreeRuns(ps, sz)
  BY <1>3, IsoPartsAssumption DEF Free
<1>6. s \in Nat /\ s % Align = 0 /\ IsoLba <= s /\ r.start <= s
  <2>1. CASE r.start < IsoLba
    BY <2>1, <1>2, Aligned, LayoutAssumption
  <2>2. CASE ~(r.start < IsoLba)
    BY <2>2, <1>2, Aligned, LayoutAssumption
  <2>. QED
    BY <2>1, <2>2
<1>7. end \in Nat /\ s < end
  BY <1>2, <1>3, <1>6, LayoutAssumption
<1>8. c.start = s /\ c.len = end - s /\ c.start + c.len = end
  BY <1>4, <1>6, <1>7
<1>9. ASSUME NEW x \in s..(end - 1) PROVE x \in Usable(sz) /\ x \notin Taken(ps)
  <2>1. x \in r.start..(r.start + r.len - 1)
    BY <1>2, <1>6, <1>7
  <2>. QED
    BY <1>5, <2>1 DEF FreeRuns
<1>10. c.len <= sz
  <2>1. r.len \in 1..sz
    BY <1>5 DEF FreeRuns
  <2>. QED
    BY <1>2, <1>6, <1>7, <1>8, <2>1
<1>. QED
  BY <1>6, <1>7, <1>8, <1>9, <1>10

\* If there is a candidate, one of them is longest: the filter and max_by_key
\* of ensure_data_partition (partition.rs:93-100) find no room only where
\* there is none.
LEMMA ChosenExists ==
  ASSUME Align = 2048, NEW ps, NEW sz \in Nat, Candidates(ps, sz) # {}
  PROVE  Chosen(ps, sz) # {}
<1>. DEFINE T == {sz - c.len : c \in Candidates(ps, sz)}
<1>1. \A c \in Candidates(ps, sz) : c.len \in 1..sz
  BY CandidateFits
<1>2. T \subseteq Nat /\ T # {}
  BY <1>1
<1>3. PICK x \in T : \A y \in T : x <= y
  BY <1>2, Least
<1>4. PICK c \in Candidates(ps, sz) : x = sz - c.len
  OBVIOUS
<1>5. ASSUME NEW d \in Candidates(ps, sz) PROVE d.len <= c.len
  <2>1. sz - c.len <= sz - d.len
    BY <1>3, <1>4
  <2>. QED
    BY <1>1, <2>1
<1>. QED
  BY <1>5 DEF Chosen

-----------------------------------------------------------------------------
(***************************************************************************)
(* The inductive invariant.  With a torn primary table the way back to the *)
(* ISO's own partitions is the backup, which holds them and nothing else   *)
(* but this tool's partition; and the partition lies behind the ISO, so    *)
(* that making the file system does not reach it.                          *)
(***************************************************************************)

Recoverable ==
  pc = "table" =>
    \/ Holds(PrimarySectors, "iso")
    \/ content[1] = "torn" /\ Others(backup) = IsoParts

BehindIso == pc \in {"format", "seed"} => IsoLba <= part.first

IInv == TypeOK /\ IsoOnDisk /\ OneVolume /\ Recoverable /\ BehindIso

\* Partitions named by this tool are the only ones set aside.
LEMMA OthersFacts ==
  ASSUME NEW ps, NEW p, p.name = "native-qemu"
  PROVE  /\ Others(IsoParts) = IsoParts
         /\ Others(ps) \subseteq ps
         /\ Others(ps \cup {p}) = Others(ps)
         /\ Others(Others(ps)) = Others(ps)
BY IsoPartsAssumption DEF Others

\* When the partition is planned, the table read is one with the ISO's
\* partitions.
LEMMA TableIsIso ==
  ASSUME IInv, pc = "table"
  PROVE  Others(Table) = IsoParts
<1>1. 1 \in PrimarySectors
  BY LayoutAssumption DEF PrimarySectors
<1>2. Others(IsoParts) = IsoParts
  BY IsoPartsAssumption DEF Others
<1>3. CASE Holds(PrimarySectors, "iso")
  BY <1>2, <1>3 DEF Table
<1>4. CASE ~Holds(PrimarySectors, "iso")
  <2>1. content[1] = "torn" /\ Others(backup) = IsoParts
    BY <1>4 DEF IInv, Recoverable
  <2>2. ~Holds(PrimarySectors, "table")
    BY <1>1, <2>1 DEF Holds
  <2>. QED
    BY <1>4, <2>1, <2>2 DEF Table
<1>. QED
  BY <1>3, <1>4

\* A planned partition on this disk: behind the ISO, in front of the backup
\* table, apart from the ISO's partitions.
LEMMA PlannedFits ==
  ASSUME Align = 2048, IInv, pc = "table", NEW p \in Planned
  PROVE  /\ p \in Partition /\ p.name = "native-qemu"
         /\ p.first <= p.last /\ IsoLba <= p.first /\ p.first % Align = 0
         /\ Sectors(p) \subseteq Usable(size)
         /\ Sectors(p) \cap Taken(IsoParts) = {}
         /\ IsoLba < size - Tail
<1>1. PICK c \in Chosen(IsoParts, size) : p = DataPartition(c)
  BY TableIsIso DEF Planned
<1>2. size \in Nat
  BY SizesAssumption DEF IInv, TypeOK
<1>3. /\ c.start \in Nat /\ c.len \in Nat \ {0}
      /\ IsoLba <= c.start /\ c.start % Align = 0
      /\ \A s \in c.start..(c.start + c.len - 1) : s \in Usable(size) /\ s \notin Taken(IsoParts)
  BY <1>2, CandidateFits DEF Chosen
<1>4. p.name = "native-qemu" /\ p.first = c.start /\ p.last = c.start + c.len - 1
  BY <1>1 DEF DataPartition
<1>5. p \in Partition
  <2>1. c.start + c.len - 1 \in Nat
    BY <1>3
  <2>. QED
    BY <1>1, <1>3, <2>1 DEF DataPartition, Partition
<1>6. p.first <= p.last
  BY <1>3, <1>4
<1>7. Sectors(p) \subseteq Usable(size) /\ Sectors(p) \cap Taken(IsoParts) = {}
  BY <1>3, <1>4 DEF Sectors
<1>8. IsoLba < size - Tail
  <2>1. c.start \in Usable(size)
    BY <1>3
  <2>. QED
    BY <1>2, <1>3, <2>1, LayoutAssumption DEF Usable
<1>. QED
  BY <1>3, <1>4, <1>5, <1>6, <1>7, <1>8

\* What is written into the sectors of the partition.
LEMMA BlocksInside ==
  ASSUME TypeOK, part.first <= part.last, NEW n \in 0..BlockCount(part)
  PROVE  Blocks(0, n) \subseteq Sectors(part)
<1>1. part.first \in Nat /\ part.last \in Nat
  BY DEF TypeOK, Partition
<1>2. n \in Nat /\ n <= part.last - part.first + 1
  BY <1>1 DEF BlockCount
<1>. QED
  BY <1>1, <1>2 DEF Blocks, BlockCount, Sectors

\* A write to a set of sectors changes those and no others.
LEMMA WrittenIs ==
  ASSUME NEW ss, NEW what, NEW s \in 0..(size - 1)
  PROVE  /\ s \in ss => Written(ss, what)[s] = what
         /\ s \notin ss => Written(ss, what)[s] = content[s]
BY DEF Written, Put

\* Putting something on some sectors leaves every sector of some kind.
LEMMA PutTyped ==
  ASSUME NEW f \in [0..(size - 1) -> Kind], NEW ss, NEW what \in Kind
  PROVE  Put(f, ss, what) \in [0..(size - 1) -> Kind]
BY DEF Put

\* So does a write.
LEMMA WrittenTyped ==
  ASSUME TypeOK, NEW ss, NEW what \in Kind
  PROVE  Written(ss, what) \in [0..(size - 1) -> Kind]
BY PutTyped DEF Written, TypeOK

-----------------------------------------------------------------------------
\* The end of an attempt: the same step again, or format again for seed, or
\* the end of the flash.
LEMMA AttemptTyped ==
  ASSUME TypeOK, NEW error \in {"busy", "other"}, EndAttempt(error)
  PROVE  /\ pc' \in {pc, "failed"} \/ (pc = "seed" /\ pc' = "format")
         /\ tries' \in 0..(MaxAttempts - 1)
         /\ cause' \in {"none", "error"}
<1>1. pc' \in {pc, "failed"} \/ (pc = "seed" /\ pc' = "format")
  BY DEF EndAttempt
<1>2. tries' \in 0..(MaxAttempts - 1)
  <2>1. CASE error = "busy" /\ tries + 1 < MaxAttempts
    BY <2>1, FlashAssumption DEF EndAttempt, TypeOK
  <2>2. CASE ~(error = "busy" /\ tries + 1 < MaxAttempts)
    <3>1. tries' = tries
      BY <2>2 DEF EndAttempt
    <3>. QED
      BY <3>1 DEF TypeOK
  <2>. QED
    BY <2>1, <2>2
<1>3. cause' = cause \/ cause' = "error"
  BY DEF EndAttempt
<1>. QED
  BY <1>1, <1>2, <1>3 DEF TypeOK

\* The partitions of a table that gets a planned one.
LEMMA TableTyped ==
  ASSUME TypeOK, NEW p \in Partition
  PROVE  Others(Table) \cup {p} \subseteq Partition
<1>1. IsoParts \subseteq Partition
  BY IsoPartsAssumption DEF Partition
<1>2. Table \subseteq Partition
  BY <1>1 DEF Table, TypeOK
<1>. QED
  BY <1>2 DEF Others

\* Every step keeps the types.
LEMMA StepType ==
  ASSUME Align = 2048, IInv, [Next]_vars
  PROVE  TypeOK'
<1>. USE SizesAssumption, FlashAssumption, LayoutAssumption DEF Kind
<1>0. TypeOK
  BY DEF IInv
<1>a. ASSUME Fault PROVE faults' \in 0..MaxFaults
  BY <1>0, <1>a DEF Fault, TypeOK
<1>1. CASE Begin
  <2>1. NoPart \in Partition
    BY DEF NoPart, Partition
  <2>2. pc' \in {"failed", "write"}
    BY <1>1 DEF Begin
  <2>3. at' \in 0..IsoLba /\ tries' \in 0..(MaxAttempts - 1)
    BY <1>1 DEF Begin
  <2>6. cause' \in {"none", "error"}
    <3>1. cause' = "none"
      BY <1>1 DEF Begin
    <3>. QED
      BY <3>1
  <2>4. part' \in Partition
    BY <1>1, <2>1 DEF Begin
  <2>5. UNCHANGED <<size, content, primary, backup, faults>>
    BY <1>1 DEF Begin
  <2>. QED
    BY <1>0, <2>2, <2>3, <2>4, <2>5, <2>6 DEF TypeOK
<1>b. ASSUME pc = "write", Advance
      PROVE  at' \in 0..IsoLba /\ pc' \in {"verify", "write"}
  BY <1>0, <1>b DEF Advance, ChunkEnd, TypeOK
<1>2. CASE WriteChunk
  <2>1. content' \in [0..(size - 1) -> Kind]
    BY <1>0, <1>2, WrittenTyped DEF WriteChunk
  <2>2. at' \in 0..IsoLba /\ pc' \in {"verify", "write"}
    BY <1>2, <1>b DEF WriteChunk
  <2>. QED
    BY <1>0, <1>2, <2>1, <2>2 DEF WriteChunk, Advance, TypeOK
<1>17. CASE LoseSector
  <2>1. content' \in [0..(size - 1) -> Kind]
    BY <1>0, <1>17, WrittenTyped DEF LoseSector
  <2>2. at' \in 0..IsoLba /\ pc' \in {"verify", "write"}
    BY <1>17, <1>b DEF LoseSector
  <2>3. faults' \in 0..MaxFaults
    BY <1>17, <1>a DEF LoseSector
  <2>4. UNCHANGED <<size, primary, backup, part, tries, cause>>
    BY <1>17 DEF LoseSector, Advance
  <2>. QED
    BY <1>0, <2>1, <2>2, <2>3, <2>4 DEF TypeOK
<1>3. CASE ShortRead
  <2>1. faults' \in 0..MaxFaults
    BY <1>3, <1>a DEF ShortRead
  <2>2. content' \in [0..(size - 1) -> Kind]
    BY <1>0, <1>3, WrittenTyped DEF ShortRead
  <2>3. at' \in 0..IsoLba
    BY <1>0, <1>3 DEF ShortRead, TypeOK
  <2>. QED
    BY <1>0, <1>3, <2>1, <2>2, <2>3 DEF ShortRead, TypeOK
<1>4. CASE Verify
  <2>1. CASE Verified
    BY <1>0, <1>4, <2>1 DEF Verify, TypeOK
  <2>2. CASE ~Verified
    <3>1. pc' = "failed" /\ cause' = "error"
      BY <1>4, <2>2 DEF Verify
    <3>. QED
      BY <1>0, <1>4, <3>1 DEF Verify, TypeOK
  <2>. QED
    BY <2>1, <2>2
<1>5. CASE Unreadable
  <2>a. PICK error \in {"busy", "other"} : EndAttempt(error)
    BY <1>5 DEF Unreadable
  <2>1. pc' \in {pc, "failed"} \/ (pc = "seed" /\ pc' = "format")
    BY <1>0, <2>a, AttemptTyped
  <2>2. tries' \in 0..(MaxAttempts - 1) /\ cause' \in {"none", "error"}
    BY <1>0, <2>a, AttemptTyped
  <2>. QED
    BY <1>0, <1>5, <2>1, <2>2 DEF Unreadable, TypeOK
<1>6. CASE NoRoom
  BY <1>0, <1>6 DEF NoRoom, TypeOK
<1>7. CASE AddPartition
  <2>1. PICK p \in Planned :
          /\ primary' = Others(Table) \cup {p} /\ backup' = Others(Table) \cup {p}
          /\ content' = Written(PrimarySectors \cup BackupSectors, "table")
          /\ part' = p
    BY <1>7 DEF AddPartition
  <2>2. p \in Partition
    BY <1>7, PlannedFits DEF AddPartition
  <2>3. Others(Table) \cup {p} \subseteq Partition
    BY <1>0, <2>2, TableTyped
  <2>4. content' \in [0..(size - 1) -> Kind]
    BY <1>0, <2>1, WrittenTyped
  <2>5. tries' \in 0..(MaxAttempts - 1)
    BY <1>7 DEF AddPartition
  <2>6. part' \in Partition /\ primary' \subseteq Partition /\ backup' \subseteq Partition
    BY <2>1, <2>2, <2>3
  <2>7. pc' = "format" /\ UNCHANGED <<size, at, faults, cause>>
    BY <1>7 DEF AddPartition
  <2>. QED
    BY <1>0, <2>4, <2>5, <2>6, <2>7 DEF TypeOK
<1>8. CASE TableTorn
  <2>1. PICK p \in Planned, error \in {"busy", "other"} :
          /\ EndAttempt(error)
          /\ \/ content' = Written(BackupSectors, "torn") /\ UNCHANGED backup
             \/ /\ backup' = Others(Table) \cup {p}
                /\ content' = Put(Written(BackupSectors, "table"), {1}, "torn")
    BY <1>8 DEF TableTorn
  <2>2. p \in Partition
    BY <1>8, PlannedFits DEF TableTorn
  <2>3. backup' \subseteq Partition
    BY <1>0, <2>1, <2>2, TableTyped DEF TypeOK
  <2>a. /\ Written(BackupSectors, "table") \in [0..(size - 1) -> Kind]
        /\ Written(BackupSectors, "torn") \in [0..(size - 1) -> Kind]
    BY <1>0, WrittenTyped
  <2>4. content' \in [0..(size - 1) -> Kind]
    <3>1. CASE content' = Written(BackupSectors, "torn")
      BY <2>a, <3>1
    <3>2. CASE content' = Put(Written(BackupSectors, "table"), {1}, "torn")
      <4>1. "torn" \in Kind
        BY DEF Kind
      <4>. QED
        BY <2>a, <3>2, <4>1, PutTyped
    <3>. QED
      BY <2>1, <3>1, <3>2
  <2>5. faults' \in 0..MaxFaults
    BY <1>8, <1>a DEF TableTorn
  <2>6. /\ pc' \in {pc, "failed"} \/ (pc = "seed" /\ pc' = "format")
        /\ tries' \in 0..(MaxAttempts - 1) /\ cause' \in {"none", "error"}
    BY <1>0, <2>1, AttemptTyped
  <2>. QED
    BY <1>0, <1>8, <2>3, <2>4, <2>5, <2>6 DEF TableTorn, TypeOK
<1>9. CASE Busy
  <2>1. /\ pc' \in {pc, "failed"} \/ (pc = "seed" /\ pc' = "format")
        /\ tries' \in 0..(MaxAttempts - 1) /\ cause' \in {"none", "error"}
    <3>1. PICK error \in {"busy", "other"} : EndAttempt(error)
      BY <1>9 DEF Busy
    <3>. QED
      BY <1>0, <3>1, AttemptTyped
  <2>. QED
    BY <1>0, <1>9, <2>1 DEF Busy, TypeOK
<1>10. CASE Format
  <2>1. content' \in [0..(size - 1) -> Kind]
    BY <1>0, <1>10, WrittenTyped DEF Format
  <2>. QED
    BY <1>0, <1>10, <2>1 DEF Format, TypeOK
<1>11. CASE Seed
  <2>1. content' \in [0..(size - 1) -> Kind]
    BY <1>0, <1>11, WrittenTyped DEF Seed
  <2>. QED
    BY <1>0, <1>11, <2>1 DEF Seed, TypeOK
<1>12. CASE SeedFails
  <2>1. content' \in [0..(size - 1) -> Kind]
    BY <1>0, <1>12, WrittenTyped DEF SeedFails
  <2>2. faults' \in 0..MaxFaults
    BY <1>12, <1>a DEF SeedFails
  <2>3. /\ pc' \in {pc, "failed"} \/ (pc = "seed" /\ pc' = "format")
        /\ tries' \in 0..(MaxAttempts - 1) /\ cause' \in {"none", "error"}
    BY <1>0, <1>12, AttemptTyped DEF SeedFails
  <2>. QED
    BY <1>0, <1>12, <2>1, <2>2, <2>3 DEF SeedFails, TypeOK
<1>13. CASE OpenFails
  <2>1. faults' \in 0..MaxFaults
    BY <1>13, <1>a DEF OpenFails
  <2>. QED
    BY <1>0, <1>13, <2>1 DEF OpenFails, TypeOK
<1>14. CASE Interrupt
  <2>1. faults' \in 0..MaxFaults
    BY <1>14, <1>a DEF Interrupt
  <2>. QED
    BY <1>0, <1>14, <2>1 DEF Interrupt, TypeOK
<1>15. CASE Again
  BY <1>0, <1>15 DEF Again, TypeOK
<1>16. CASE UNCHANGED vars
  BY <1>0, <1>16 DEF vars, TypeOK
<1>. QED
  BY <1>1, <1>2, <1>3, <1>4, <1>5, <1>6, <1>7, <1>8, <1>9, <1>10, <1>11, <1>12, <1>13,
     <1>14, <1>15, <1>16, <1>17 DEF Next, FlashStep

-----------------------------------------------------------------------------
\* How the disk is laid out around a partition behind the ISO.
LEMMA Layout ==
  ASSUME TypeOK, NEW p \in Partition, p.first <= p.last, IsoLba <= p.first,
         Sectors(p) \subseteq Usable(size)
  PROVE  /\ 1 \in PrimarySectors
         /\ PrimarySectors \subseteq 0..(IsoLba - 1)
         /\ 0..(IsoLba - 1) \subseteq 0..(size - 1)
         /\ BackupSectors \subseteq 0..(size - 1)
         /\ BackupSectors \cap 0..(IsoLba - 1) = {}
         /\ Sectors(p) \cap 0..(IsoLba - 1) = {}
         /\ Sectors(p) \cap BackupSectors = {}
<1>1. size \in Nat /\ p.first \in Nat /\ p.last \in Nat
  BY SizesAssumption DEF TypeOK, Partition
<1>2. p.last \in Usable(size)
  BY <1>1 DEF Sectors
<1>3. p.last <= size - Tail - 1
  BY <1>1, <1>2, LayoutAssumption DEF Usable
<1>. USE LayoutAssumption DEF PrimarySectors, BackupSectors, Sectors
<1>4. 1 \in PrimarySectors /\ PrimarySectors \subseteq 0..(IsoLba - 1)
  OBVIOUS
<1>5. 0..(IsoLba - 1) \subseteq 0..(size - 1) /\ BackupSectors \subseteq 0..(size - 1)
  BY <1>1, <1>3
<1>6. BackupSectors \cap 0..(IsoLba - 1) = {} /\ Sectors(p) \cap 0..(IsoLba - 1) = {}
  BY <1>1, <1>3
<1>7. Sectors(p) \cap BackupSectors = {}
  BY <1>1, <1>3
<1>. QED
  BY <1>4, <1>5, <1>6, <1>7

\* The part of the invariant that is not about types.
Sound == IsoOnDisk /\ OneVolume /\ Recoverable /\ BehindIso

\* Nothing is claimed before the verification and after a failure.
LEMMA NothingClaimed ==
  ASSUME pc' \in {"idle", "write", "verify", "failed"}
  PROVE  Sound'
BY DEF Sound, IsoOnDisk, OneVolume, Recoverable, BehindIso

\* The verification establishes what the later steps rely on.
LEMMA VerifySound ==
  ASSUME IInv, Verify
  PROVE  Sound'
<1>1. CASE ~Verified
  <2>1. pc' = "failed"
    BY <1>1 DEF Verify
  <2>. QED
    BY <2>1, NothingClaimed
<1>2. CASE Verified
  <2>1. pc' = "table" /\ UNCHANGED <<size, content>>
    BY <1>2 DEF Verify
  <2>2. PrimarySectors \subseteq 0..(IsoLba - 1)
    BY LayoutAssumption DEF PrimarySectors
  <2>3. \A s \in 0..(IsoLba - 1) : content'[s] = "iso"
    BY <1>2, <2>1 DEF Verified
  <2>. QED
    BY <2>1, <2>2, <2>3 DEF Sound, IsoOnDisk, OneVolume, Recoverable, BehindIso, Holds, PrimarySectors
<1>. QED
  BY <1>1, <1>2

\* An attempt that wrote nothing leaves everything as it was.
LEMMA BusySound ==
  ASSUME IInv, pc \in {"table", "format", "seed"},
         pc' \in {pc, "failed"} \/ (pc = "seed" /\ pc' = "format"),
         UNCHANGED <<size, content, primary, backup, part>>
  PROVE  Sound'
<1>1. CASE pc' = "failed"
  BY <1>1, NothingClaimed
<1>2. CASE pc' = pc \/ (pc = "seed" /\ pc' = "format")
  BY <1>2 DEF IInv, Sound, IsoOnDisk, OneVolume, Recoverable, BehindIso, Holds, PrimarySectors,
     BackupSectors, Others, Usable
<1>. QED
  BY <1>1, <1>2

\* The tables are written around the ISO's other sectors, and say what they are
\* to say.
LEMMA AddPartitionSound ==
  ASSUME Align = 2048, IInv, AddPartition
  PROVE  Sound'
<1>1. PICK p \in Planned :
        /\ primary' = Others(Table) \cup {p} /\ backup' = Others(Table) \cup {p}
        /\ content' = Written(PrimarySectors \cup BackupSectors, "table")
        /\ part' = p
  BY DEF AddPartition
<1>2. pc = "table" /\ pc' = "format" /\ UNCHANGED size
  BY DEF AddPartition
<1>3. /\ p \in Partition /\ p.name = "native-qemu"
      /\ p.first <= p.last /\ IsoLba <= p.first /\ p.first % Align = 0
      /\ Sectors(p) \subseteq Usable(size)
      /\ Sectors(p) \cap Taken(IsoParts) = {}
  BY <1>2, PlannedFits
<1>4. /\ PrimarySectors \subseteq 0..(IsoLba - 1)
      /\ 0..(IsoLba - 1) \subseteq 0..(size - 1)
      /\ BackupSectors \subseteq 0..(size - 1)
      /\ BackupSectors \cap 0..(IsoLba - 1) = {}
  BY <1>3, Layout DEF IInv
<1>5. primary' = IsoParts \cup {p} /\ backup' = primary'
  BY <1>1, <1>2, TableIsIso
<1>6. PrimarySectors' = PrimarySectors /\ BackupSectors' = BackupSectors /\ Usable(size)' = Usable(size)
  BY <1>2 DEF PrimarySectors, BackupSectors, Usable
<1>7. \A s \in PrimarySectors \cup BackupSectors : content'[s] = "table"
  BY <1>1, <1>4, WrittenIs
<1>8. IsoOnDisk'
  <2>1. ASSUME NEW s \in (0..(IsoLba - 1)) \ PrimarySectors PROVE content'[s] = "iso"
    <3>1. content[s] = "iso"
      BY <1>2 DEF IInv, IsoOnDisk, Holds
    <3>2. s \in 0..(size - 1) /\ s \notin PrimarySectors \cup BackupSectors
      BY <1>4
    <3>. QED
      BY <1>1, <3>1, <3>2, WrittenIs
  <2>. QED
    BY <1>6, <2>1 DEF IsoOnDisk, Holds
<1>9. OneVolume'
  <2>1. Holds(PrimarySectors, "table")' /\ Holds(BackupSectors, "table")'
    BY <1>6, <1>7 DEF Holds
  <2>2. primary' = IsoParts \cup {part'} /\ backup' = primary'
    BY <1>1, <1>5
  <2>3. /\ part'.name = "native-qemu" /\ part'.first <= part'.last
        /\ Sectors(part') \subseteq Usable(size')
        /\ Sectors(part') \cap Taken(IsoParts) = {} /\ part'.first % Align = 0
    BY <1>1, <1>2, <1>3
  <2>. QED
    BY <2>1, <2>2, <2>3 DEF OneVolume
<1>10. Recoverable' /\ BehindIso'
  BY <1>1, <1>2, <1>3 DEF Recoverable, BehindIso
<1>. QED
  BY <1>8, <1>9, <1>10 DEF Sound

\* A failed write leaves one of the tables to go by.
LEMMA TableTornSound ==
  ASSUME Align = 2048, IInv, TableTorn
  PROVE  Sound'
<1>1. PICK p \in Planned, error \in {"busy", "other"} :
        /\ EndAttempt(error)
        /\ \/ content' = Written(BackupSectors, "torn") /\ UNCHANGED backup
           \/ /\ backup' = Others(Table) \cup {p}
              /\ content' = Put(Written(BackupSectors, "table"), {1}, "torn")
  BY DEF TableTorn
<1>2. pc = "table" /\ UNCHANGED size
  BY DEF TableTorn
<1>3. pc' \in {"table", "failed"}
  BY <1>1, <1>2, AttemptTyped DEF IInv
<1>4. /\ p \in Partition /\ p.name = "native-qemu"
      /\ p.first <= p.last /\ IsoLba <= p.first
      /\ Sectors(p) \subseteq Usable(size)
  BY <1>2, PlannedFits
<1>5. /\ 1 \in PrimarySectors
      /\ PrimarySectors \subseteq 0..(IsoLba - 1)
      /\ 0..(IsoLba - 1) \subseteq 0..(size - 1)
      /\ BackupSectors \cap 0..(IsoLba - 1) = {}
  BY <1>4, Layout DEF IInv
<1>6. PrimarySectors' = PrimarySectors
  BY DEF PrimarySectors
<1>7. ASSUME NEW s \in (0..(IsoLba - 1)) \ {1} PROVE content'[s] = content[s]
  <2>1. s \in 0..(size - 1) /\ s \notin BackupSectors /\ s # 1
    BY <1>5
  <2>2. CASE content' = Written(BackupSectors, "torn")
    BY <2>1, <2>2, WrittenIs
  <2>3. CASE content' = Put(Written(BackupSectors, "table"), {1}, "torn")
    <3>1. content'[s] = Written(BackupSectors, "table")[s]
      BY <2>1, <2>3 DEF Put
    <3>. QED
      BY <2>1, <3>1, WrittenIs
  <2>. QED
    BY <1>1, <2>2, <2>3
<1>8. IsoOnDisk'
  <2>1. ASSUME NEW s \in (0..(IsoLba - 1)) \ PrimarySectors PROVE content'[s] = "iso"
    <3>1. content[s] = "iso"
      BY <1>2 DEF IInv, IsoOnDisk, Holds
    <3>. QED
      BY <1>5, <1>7, <3>1
  <2>. QED
    BY <1>6, <2>1 DEF IsoOnDisk, Holds
<1>9. Recoverable'
  <2>1. CASE content' = Written(BackupSectors, "torn") /\ UNCHANGED backup
    <3>1. content'[1] = content[1]
      BY <1>5, <2>1, WrittenIs
    <3>2. CASE Holds(PrimarySectors, "iso")
      <4>1. Holds(PrimarySectors, "iso")'
        BY <1>5, <1>6, <1>7, <3>1, <3>2 DEF Holds
      <4>. QED
        BY <4>1 DEF Recoverable
    <3>3. CASE content[1] = "torn" /\ Others(backup) = IsoParts
      <4>1. Others(backup') = IsoParts
        BY <2>1, <3>3
      <4>. QED
        BY <3>1, <3>3, <4>1 DEF Recoverable
    <3>. QED
      BY <1>2, <3>2, <3>3 DEF IInv, Recoverable
  <2>2. CASE /\ backup' = Others(Table) \cup {p}
             /\ content' = Put(Written(BackupSectors, "table"), {1}, "torn")
    <3>1. content'[1] = "torn"
      BY <1>5, <2>2 DEF Put
    <3>2. Others(backup') = IsoParts
      <4>1. backup' = IsoParts \cup {p}
        BY <1>2, <2>2, TableIsIso
      <4>. QED
        BY <1>4, <4>1, OthersFacts
    <3>. QED
      BY <3>1, <3>2 DEF Recoverable
  <2>. QED
    BY <1>1, <2>1, <2>2
<1>10. OneVolume' /\ BehindIso'
  BY <1>3 DEF OneVolume, BehindIso
<1>. QED
  BY <1>8, <1>9, <1>10 DEF Sound

\* Making and seeding the file system changes sectors of the partition only.
LEMMA InsideSound ==
  ASSUME IInv, pc \in {"format", "seed"}, pc' \in {"format", "seed", "done", "failed"},
         NEW n \in 0..BlockCount(part), content' = Written(Blocks(0, n), "fs"),
         UNCHANGED <<size, primary, backup, part>>
  PROVE  Sound'
<1>1. /\ part \in Partition /\ part.first <= part.last /\ IsoLba <= part.first
      /\ Sectors(part) \subseteq Usable(size)
  BY DEF IInv, TypeOK, OneVolume, BehindIso
<1>2. /\ PrimarySectors \subseteq 0..(IsoLba - 1)
      /\ 0..(IsoLba - 1) \subseteq 0..(size - 1)
      /\ BackupSectors \subseteq 0..(size - 1)
      /\ Sectors(part) \cap 0..(IsoLba - 1) = {}
      /\ Sectors(part) \cap BackupSectors = {}
  BY <1>1, Layout DEF IInv
<1>3. Blocks(0, n) \subseteq Sectors(part)
  BY <1>1, BlocksInside DEF IInv
<1>4. ASSUME NEW s \in 0..(IsoLba - 1) \cup BackupSectors PROVE content'[s] = content[s]
  <2>1. s \in 0..(size - 1) /\ s \notin Blocks(0, n)
    BY <1>2, <1>3
  <2>. QED
    BY <2>1, WrittenIs
<1>5. PrimarySectors' = PrimarySectors /\ BackupSectors' = BackupSectors
  BY DEF PrimarySectors, BackupSectors
<1>6. IsoOnDisk'
  BY <1>2, <1>4, <1>5 DEF IInv, IsoOnDisk, Holds
<1>7. OneVolume'
  <2>1. Holds(PrimarySectors, "table")' /\ Holds(BackupSectors, "table")'
    BY <1>2, <1>4, <1>5 DEF IInv, OneVolume, Holds
  <2>. QED
    BY <2>1 DEF IInv, OneVolume
<1>8. Recoverable' /\ BehindIso'
  BY <1>1 DEF Recoverable, BehindIso
<1>. QED
  BY <1>6, <1>7, <1>8 DEF Sound

\* Every step keeps the rest of the invariant.
LEMMA StepSound ==
  ASSUME Align = 2048, IInv, [Next]_vars
  PROVE  Sound'
<1>1. CASE Begin \/ WriteChunk \/ LoseSector \/ ShortRead
  <2>1. pc' \in {"idle", "write", "verify", "failed"}
    BY <1>1 DEF Begin, WriteChunk, LoseSector, ShortRead, Advance
  <2>. QED
    BY <2>1, NothingClaimed
<1>2. CASE NoRoom \/ OpenFails \/ Interrupt \/ Again
  <2>1. pc' \in {"idle", "write", "verify", "failed"}
    BY <1>2 DEF NoRoom, OpenFails, Interrupt, Again
  <2>. QED
    BY <2>1, NothingClaimed
<1>3. CASE Verify
  BY <1>3, VerifySound
<1>4. CASE Unreadable \/ Busy
  <2>1. pc \in {"table", "format", "seed"} /\ UNCHANGED <<size, content, primary, backup, part>>
    BY <1>4 DEF Unreadable, Busy
  <2>2. PICK error \in {"busy", "other"} : EndAttempt(error)
    BY <1>4 DEF Unreadable, Busy
  <2>3. pc' \in {pc, "failed"} \/ (pc = "seed" /\ pc' = "format")
    BY <2>1, <2>2, AttemptTyped DEF IInv
  <2>. QED
    BY <2>1, <2>3, BusySound
<1>5. CASE AddPartition
  BY <1>5, AddPartitionSound
<1>6. CASE TableTorn
  BY <1>6, TableTornSound
<1>7. CASE Format \/ Seed
  <2>1. pc \in {"format", "seed"} /\ pc' \in {"seed", "done"} /\ UNCHANGED <<size, primary, backup, part>>
    BY <1>7 DEF Format, Seed
  <2>2. content' = Written(Blocks(0, BlockCount(part)), "fs")
    BY <1>7 DEF Format, Seed
  <2>3. BlockCount(part) \in 0..BlockCount(part)
    BY <2>1 DEF IInv, TypeOK, OneVolume, Partition, BlockCount
  <2>. QED
    BY <2>1, <2>2, <2>3, InsideSound
<1>8. CASE SeedFails
  <2>1. PICK n \in 0..BlockCount(part), error \in {"busy", "other"} :
          content' = Written(Blocks(0, n), "fs") /\ EndAttempt(error)
    BY <1>8 DEF SeedFails
  <2>2. pc \in {"format", "seed"} /\ UNCHANGED <<size, primary, backup, part>>
    BY <1>8 DEF SeedFails
  <2>3. pc' \in {"format", "seed", "failed"}
    BY <2>1, <2>2, AttemptTyped DEF IInv
  <2>. QED
    BY <2>1, <2>2, <2>3, InsideSound
<1>9. CASE UNCHANGED vars
  <2>1. UNCHANGED <<size, content, primary, backup, part, pc>>
    BY <1>9 DEF vars
  <2>. QED
    BY <2>1 DEF IInv, Sound, IsoOnDisk, OneVolume, Recoverable, BehindIso, Holds, PrimarySectors,
       BackupSectors, Others, Usable
<1>. QED
  BY <1>1, <1>2, <1>3, <1>4, <1>5, <1>6, <1>7, <1>8, <1>9 DEF Next, FlashStep

\* The initial state satisfies the invariant.
LEMMA InitIInv == Init => IInv
<1>. SUFFICES ASSUME Init PROVE IInv
  OBVIOUS
<1>. USE SizesAssumption, FlashAssumption, LayoutAssumption DEF Init
<1>1. content \in [0..(size - 1) -> Kind]
  BY DEF Kind
<1>2. part \in Partition
  BY DEF NoPart, Partition
<1>3. TypeOK
  BY <1>1, <1>2 DEF TypeOK
<1>4. IsoOnDisk /\ OneVolume /\ Recoverable /\ BehindIso
  BY DEF IsoOnDisk, OneVolume, Recoverable, BehindIso
<1>. QED
  BY <1>3, <1>4 DEF IInv

-----------------------------------------------------------------------------
\* The last attempt, and any error but a busy device, end the flash.
LEMMA AttemptCause ==
  ASSUME TypeOK, NEW error \in {"busy", "other"}, EndAttempt(error),
         pc \in {"table", "format", "seed"}, pc' = "failed"
  PROVE  cause' = "error" \/ tries' = MaxAttempts - 1
<1>1. CASE error = "busy"
  <2>1. ~(tries + 1 < MaxAttempts) /\ tries' = tries
    BY <1>1 DEF EndAttempt
  <2>. QED
    BY <2>1, FlashAssumption DEF TypeOK
<1>2. CASE error # "busy"
  BY <1>2 DEF EndAttempt
<1>. QED
  BY <1>1, <1>2

\* No room is found only where the ISO's own partitions leave none: what an
\* earlier attempt left is not among the partitions gone by.
LEMMA NoRoomCause ==
  ASSUME Align = 2048, IInv, NoRoom
  PROVE  Candidates(IsoParts, size) = {}
<1>1. Planned = {} /\ pc = "table"
  BY DEF NoRoom
<1>2. size \in Nat
  BY SizesAssumption DEF IInv, TypeOK
<1>3. Chosen(IsoParts, size) = {}
  BY <1>1, TableIsIso DEF Planned
<1>. QED
  BY <1>2, <1>3, ChosenExists

\* Every step that fails has a cause.
LEMMA StepCause ==
  ASSUME Align = 2048, IInv, FailsWithCause, [Next]_vars
  PROVE  FailsWithCause'
<1>. USE DEF FailsWithCause
<1>0. TypeOK
  BY DEF IInv
<1>1. CASE Begin
  BY <1>1 DEF Begin
<1>2. CASE WriteChunk \/ LoseSector \/ ShortRead
  BY <1>2 DEF WriteChunk, LoseSector, ShortRead, Advance
<1>3. CASE Verify
  BY <1>3 DEF Verify
<1>4. CASE Unreadable \/ Busy
  <2>1. PICK error \in {"busy", "other"} : EndAttempt(error)
    BY <1>4 DEF Unreadable, Busy
  <2>. QED
    BY <1>0, <1>4, <2>1, AttemptCause DEF Unreadable, Busy
<1>5. CASE TableTorn
  <2>1. PICK error \in {"busy", "other"} : EndAttempt(error)
    BY <1>5 DEF TableTorn
  <2>. QED
    BY <1>0, <1>5, <2>1, AttemptCause DEF TableTorn
<1>6. CASE SeedFails
  <2>1. PICK error \in {"busy", "other"} : EndAttempt(error)
    BY <1>6 DEF SeedFails
  <2>. QED
    BY <1>0, <1>6, <2>1, AttemptCause DEF SeedFails
<1>7. CASE NoRoom
  BY <1>7, NoRoomCause DEF NoRoom
<1>8. CASE OpenFails
  BY <1>8 DEF OpenFails
<1>9. CASE AddPartition \/ Format \/ Seed \/ Interrupt \/ Again
  BY <1>9 DEF AddPartition, Format, Seed, Interrupt, Again
<1>10. CASE UNCHANGED vars
  BY <1>10 DEF vars
<1>. QED
  BY <1>1, <1>2, <1>3, <1>4, <1>5, <1>6, <1>7, <1>8, <1>9, <1>10 DEF Next, FlashStep

-----------------------------------------------------------------------------
(***************************************************************************)
(* The theorems.                                                           *)
(***************************************************************************)

\* The inductive invariant of flash_iso.
THEOREM InvariantHolds ==
  ASSUME Align = 2048
  PROVE  Spec => []IInv
<1>1. IInv /\ [Next]_vars => IInv'
  BY StepType, StepSound DEF IInv, Sound
<1>. QED
  BY <1>1, InitIInv, PTL DEF Spec

\* Every variable keeps its type, whatever is on the disk.
THEOREM TypeCorrect ==
  ASSUME Align = 2048
  PROVE  Spec => []TypeOK
<1>1. IInv => TypeOK
  BY DEF IInv
<1>. QED
  BY <1>1, InvariantHolds, PTL

\* Nothing behind the verification writes over the ISO but its partition table
\* (flash.rs:329-393).
THEOREM IsoSafe ==
  ASSUME Align = 2048
  PROVE  Spec => []IsoOnDisk
<1>1. IInv => IsoOnDisk
  BY DEF IInv
<1>. QED
  BY <1>1, InvariantHolds, PTL

\* The file system is made in the one data partition both tables have, however
\* often steps were tried again (partition.rs:44-131).
THEOREM VolumeSafe ==
  ASSUME Align = 2048
  PROVE  Spec => []OneVolume
<1>1. IInv => OneVolume
  BY DEF IInv
<1>. QED
  BY <1>1, InvariantHolds, PTL

\* A flash fails only on a disk too small for this ISO, because of something
\* other than a busy device, or with the attempts used up; what earlier
\* attempts wrote is never the reason (flash.rs:395-422, partition.rs:55-63).
THEOREM FailureHasCause ==
  ASSUME Align = 2048
  PROVE  Spec => []FailsWithCause
<1>1. Init => FailsWithCause
  BY DEF Init, FailsWithCause
<1>2. IInv /\ FailsWithCause /\ [Next]_vars => FailsWithCause'
  BY StepCause
<1>. QED
  BY <1>1, <1>2, InvariantHolds, PTL DEF Spec

=============================================================================
