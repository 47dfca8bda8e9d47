------------------------------- MODULE GptPlan -------------------------------
(***************************************************************************)
(* Where the data partition goes (tools/nq-disk/src/partition.rs): of the  *)
(* free runs of the partition table, the longest part behind the ISO that  *)
(* starts on a multiple of the alignment.  All positions are in sectors.   *)
(***************************************************************************)
EXTENDS Integers

CONSTANTS
  IsoLba,       \* sectors of the ISO, the last one possibly padded
  Align,        \* ALIGN_LBA: 2048 sectors, one MiB
  FirstUsable,  \* first sector behind the primary table
  Tail,         \* sectors of the backup table at the end of the disk
  IsoParts,     \* partitions in the ISO's own table
  Overlaps      \* runs reported free although partitions of the ISO overlap there

ASSUME LayoutAssumption ==
  /\ IsoLba \in Nat /\ Align \in Nat \ {0}
  /\ FirstUsable \in Nat \ {0, 1} /\ Tail \in Nat \ {0}
  /\ FirstUsable <= IsoLba

Partition == [name : {"iso", "native-qemu"}, first : Nat, last : Nat]

\* An ISO's partitions, and what is between their borders, are on the ISO.
ASSUME IsoPartsAssumption ==
  /\ IsoParts \subseteq [name : {"iso"}, first : Nat, last : Nat]
  /\ \A p \in IsoParts : p.last < IsoLba
  /\ Overlaps \subseteq [start : Nat, len : Nat]
  /\ \A r \in Overlaps : r.start + r.len <= IsoLba

-----------------------------------------------------------------------------
(***************************************************************************)
(* find_free_sectors of the gpt crate, on a disk of size sectors.  It pairs *)
(* up the sorted borders of the partitions, and is wrong where they        *)
(* overlap, as they do on hybrid ISOs.                                     *)
(***************************************************************************)

Sectors(p) == p.first..p.last
Taken(ps)  == UNION {Sectors(p) : p \in ps}

Usable(size) == FirstUsable..(size - Tail - 1)

FreeRuns(ps, size) ==
  {r \in [start : Usable(size), len : 1..size] :
     /\ \A s \in r.start..(r.start + r.len - 1) : s \in Usable(size) /\ s \notin Taken(ps)
     /\ \A s \in {r.start - 1, r.start + r.len} : s \in Usable(size) => s \in Taken(ps)}

Free(ps, size) == FreeRuns(ps, size) \cup Overlaps

-----------------------------------------------------------------------------
(***************************************************************************)
(* The choice of ensure_data_partition.                                    *)
(***************************************************************************)

AlignUp(s) == ((s + Align - 1) \div Align) * Align

\* The aligned part of a run behind the ISO.
Trimmed(r) ==
  LET end == r.start + r.len
      s   == AlignUp(IF r.start < IsoLba THEN IsoLba ELSE r.start)
  IN  IF end <= IsoLba \/ s >= end THEN [start |-> r.start, len |-> 0]
                                   ELSE [start |-> s, len |-> end - s]

Candidates(ps, size) == {c \in {Trimmed(r) : r \in Free(ps, size)} : c.len > Align * 2}

\* A longest one; the code takes the last of several.
Chosen(ps, size) ==
  {c \in Candidates(ps, size) : \A d \in Candidates(ps, size) : d.len <= c.len}

DataPartition(c) == [name |-> "native-qemu", first |-> c.start, last |-> c.start + c.len - 1]
=============================================================================
