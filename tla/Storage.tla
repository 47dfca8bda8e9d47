------------------------------- MODULE Storage -------------------------------
(***************************************************************************)
(* Where the guest's disk comes from (agent/src/storage.rs and the part of *)
(* run_one_vm_lifecycle that uses it): a storage index of the              *)
(* configuration is resolved to a mounted directory, and on first boot the *)
(* image on the boot media is copied there.  Disks come and go, the copy   *)
(* may fail half-way, a file may look absent because it cannot be read,    *)
(* and the host may lose power at any time; mounts and the page cache are  *)
(* lost then, and what is on the disks stays.                              *)
(*                                                                         *)
(* A disk is the rank of its kernel name, and stands for its first         *)
(* partition; the data volume and the boot media are on the boot disk.     *)
(***************************************************************************)
EXTENDS Naturals, FiniteSets

CONSTANTS
  Internal,      \* whole disks that are not removable
  External,      \* whole disks that are
  Boot,          \* the disk the host booted from
  OnMedia,       \* are the boot media mounted under /media/ ?
  HasSeed,       \* do the boot media hold images/image.qcow2?
  MaxIndex,      \* greatest storage index in use
  MaxFaults,     \* failing mounts, copies and looks at files, power losses
  MaxSwaps,      \* disks plugged in or unplugged
  Data, Media,   \* the data volume, and the boot media as a directory
  None           \* no volume

Disks   == Internal \cup External
Volumes == Disks \cup {Data, Media}

ASSUME DisksAssumption ==
  /\ Disks \subseteq Nat /\ IsFiniteSet(Disks)
  /\ Internal \cap External = {}
  /\ Boot \in Disks
  /\ {Data, Media, None} \cap Disks = {}
  /\ Data # Media /\ Data # None /\ Media # None
ASSUME BoundsAssumption ==
  /\ OnMedia \in BOOLEAN /\ HasSeed \in BOOLEAN
  /\ MaxIndex \in Nat /\ MaxFaults \in Nat /\ MaxSwaps \in Nat

VARIABLES
  index,    \* vm.disk.storage
  present,  \* disks the kernel sees
  hasData,  \* does the boot disk carry a data volume?
  data,     \* where the data volume is mounted
  mounted,  \* mounted[i]: the disk mounted at /mnt/native-qemu/storage<i>
  dead,     \* indexes whose mounted disk has been unplugged since
  image,    \* image[v]: the file at vm.disk.path of volume v
  cached,   \* volumes whose image was copied and is not all on the disk yet
  pc,       \* where run_one_vm_lifecycle is
  dir,      \* the volume of the directory it has resolved
  used      \* faults and swaps so far

vars == <<index, present, hasData, data, mounted, dead, image, cached, pc, dir, used>>

TypeOK ==
  /\ index \in 0..MaxIndex
  /\ present \subseteq Disks
  /\ hasData \in BOOLEAN
  /\ data \in {"unmounted", "own", "elsewhere"}
  /\ mounted \in [1..MaxIndex -> Disks \cup {None}]
  /\ dead \subseteq 1..MaxIndex
  /\ image \in [Volumes -> {"none", "partial", "seed", "guest"}]
  /\ cached \subseteq Volumes
  /\ pc \in {"resolve", "check", "copying", "running", "fatal"}
  /\ dir \in IF pc \in {"resolve", "fatal"} THEN Volumes \cup {None} ELSE Volumes
  /\ used \in [faults : 0..MaxFaults, swaps : 0..MaxSwaps]

\* Volumes may hold an image of an earlier life; the media are read-only.
Init ==
  /\ index \in 0..MaxIndex
  /\ present \in {ds \in SUBSET Disks : Boot \in ds}
  /\ hasData \in BOOLEAN
  /\ data \in IF hasData THEN {"unmounted", "elsewhere"} ELSE {"unmounted"}
  /\ mounted = [i \in 1..MaxIndex |-> None]
  /\ dead = {}
  /\ \E old \in SUBSET Volumes :
       image = [v \in Volumes |-> IF v \in old THEN "guest" ELSE "none"]
  /\ cached = {}
  /\ pc = "resolve"
  /\ dir = None
  /\ used = [faults |-> 0, swaps |-> 0]

disks == <<index, hasData>>
Spend(what, max) == used[what] < max /\ used' = [used EXCEPT ![what] = @ + 1]

-----------------------------------------------------------------------------
(***************************************************************************)
(* The numbering of enumerate().                                           *)
(***************************************************************************)

\* boot_disk_name: the disk behind a mount under /media/, if there is one.
BootDisk == IF OnMedia THEN {Boot} ELSE {}

\* The disk of that number in the order of names; at most one.
Nth(ds, n) == {d \in ds : Cardinality({e \in ds : e < d}) = n - 1}

\* 1 is the first internal disk, 2 and on are the external ones in order.
Numbered(i) ==
  IF i = 1 THEN Nth((Internal \cap present) \ BootDisk, 1)
  ELSE Nth((External \cap present) \ BootDisk, i - 1)

-----------------------------------------------------------------------------
(***************************************************************************)
(* resolve(index)                                                          *)
(***************************************************************************)

Resolved(v)   == dir' = v /\ pc' = "check"
Unresolved    == dir' = None /\ pc' = "fatal"

\* ensure_data_volume: mounted already, here or elsewhere, or mounted now.
UseDataVolume ==
  /\ pc = "resolve" /\ index = 0
  /\ data # "unmounted" \/ (hasData /\ Boot \in present)
  /\ data' = IF data = "unmounted" THEN "own" ELSE data
  /\ Resolved(Data)
  /\ UNCHANGED <<disks, present, mounted, dead, image, cached, used>>

\* Without it, the first of the boot media, or nothing.
UseMedia ==
  /\ pc = "resolve" /\ index = 0
  /\ data = "unmounted"
  /\ IF hasData /\ Boot \in present THEN Spend("faults", MaxFaults) ELSE UNCHANGED used
  /\ IF OnMedia THEN Resolved(Media) ELSE Unresolved
  /\ UNCHANGED <<disks, present, data, mounted, dead, image, cached>>

\* A disk must have the number; then a directory that is mounted already is
\* returned as it is, and otherwise the disk is mounted there.
UseMounted ==
  /\ pc = "resolve" /\ index > 0
  /\ Numbered(index) # {}
  /\ mounted[index] # None
  /\ Resolved(mounted[index])
  /\ UNCHANGED <<disks, present, data, mounted, dead, image, cached, used>>

MountDisk ==
  /\ pc = "resolve" /\ index > 0
  /\ mounted[index] = None
  /\ \E d \in Numbered(index) :
       /\ mounted' = [mounted EXCEPT ![index] = d]
       /\ Resolved(d)
  /\ UNCHANGED <<disks, present, data, dead, image, cached, used>>

\* Seeded defect: the exit status of mount is not looked at.
MountFailsUnnoticed ==
  /\ pc = "resolve" /\ index > 0
  /\ Numbered(index) # {} /\ mounted[index] = None
  /\ Spend("faults", MaxFaults)
  /\ dir' = None /\ pc' = "running"
  /\ UNCHANGED <<disks, present, data, mounted, dead, image, cached>>

MountFails ==
  /\ pc = "resolve" /\ index > 0
  /\ Numbered(index) # {} /\ mounted[index] = None
  /\ Spend("faults", MaxFaults)
  /\ Unresolved
  /\ UNCHANGED <<disks, present, data, mounted, dead, image, cached>>

NoSuchDisk ==
  /\ pc = "resolve" /\ index > 0
  /\ Numbered(index) = {}
  /\ Unresolved
  /\ UNCHANGED <<disks, present, data, mounted, dead, image, cached, used>>

-----------------------------------------------------------------------------
(***************************************************************************)
(* The image and its seed.                                                 *)
(***************************************************************************)

\* Files of a volume are seen while its disk is there; a mount does not come
\* back with a disk that does.
There(v) ==
  /\ (IF v \in Disks THEN v ELSE Boot) \in present
  /\ v \in Disks => index \notin dead

\* Seeded defect: an image the guest has changed is not taken for the image.
ExistsUnchanged(v) == There(v) /\ image[v] = "seed"

Exists(v) == There(v) /\ image[v] # "none"

Launch ==
  /\ pc = "check" /\ Exists(dir)
  /\ pc' = "running"
  /\ UNCHANGED <<disks, present, data, mounted, dead, image, cached, dir, used>>

\* The seed is there, and a writable volume to copy it to.
Seedable == OnMedia /\ HasSeed /\ Boot \in present /\ dir # Media /\ There(dir)

\* exists() takes every error for an absent file: one that is there is missed
\* when it cannot be looked at, and is copied over.
Missed(v) == IF Exists(v) THEN Spend("faults", MaxFaults) ELSE UNCHANGED used

\* fs::copy creates or truncates the file under its final name, and then fills it.
StartCopy ==
  /\ pc = "check" /\ Seedable
  /\ Missed(dir)
  /\ image' = [image EXCEPT ![dir] = "partial"]
  /\ cached' = cached \cup {dir}
  /\ pc' = "copying"
  /\ UNCHANGED <<disks, present, data, mounted, dead, dir>>

\* No image and no seed; or one of the looks at the image or the seed fails.
NoSeed ==
  /\ pc = "check"
  /\ IF Exists(dir) \/ Seedable THEN Spend("faults", MaxFaults) ELSE UNCHANGED used
  /\ pc' = "fatal"
  /\ UNCHANGED <<disks, present, data, mounted, dead, image, cached, dir>>

\* The copy is complete, but not synced; the image is looked for once more.
FinishCopy ==
  /\ pc = "copying"
  /\ There(dir) /\ Boot \in present
  /\ image' = [image EXCEPT ![dir] = "seed"]
  /\ cached' = cached \cup {dir}
  /\ \/ pc' = "running" /\ UNCHANGED used
     \/ pc' = "fatal" /\ Spend("faults", MaxFaults)
  /\ UNCHANGED <<disks, present, data, mounted, dead, dir>>

\* No space, a bad read, a disk gone: what has been copied is left there.
CopyFails ==
  /\ pc = "copying"
  /\ IF There(dir) /\ Boot \in present THEN Spend("faults", MaxFaults) ELSE UNCHANGED used
  /\ pc' = "fatal"
  /\ UNCHANGED <<disks, present, data, mounted, dead, image, cached, dir>>

-----------------------------------------------------------------------------
(***************************************************************************)
(* The guest, the operator and the host.                                   *)
(***************************************************************************)

\* The guest writes to an image it can use.
GuestWrites ==
  /\ pc = "running" /\ dir # None /\ There(dir)
  /\ image[dir] = "seed"
  /\ image' = [image EXCEPT ![dir] = "guest"]
  /\ UNCHANGED <<disks, present, data, mounted, dead, cached, pc, dir, used>>

\* The VM ends and is started again, or the operator leaves the rescue shell.
Again ==
  /\ pc \in {"running", "fatal"}
  /\ pc' = "resolve"
  /\ dir' = None
  /\ UNCHANGED <<disks, present, data, mounted, dead, image, cached, used>>

\* In time, or because the guest flushes, all of a copy is on its disk.
WriteBack(v) ==
  /\ v \in cached
  /\ cached' = cached \ {v}
  /\ UNCHANGED <<disks, present, data, mounted, dead, image, pc, dir, used>>

Swap(d) ==
  /\ d \in External \ {Boot}
  /\ Spend("swaps", MaxSwaps)
  /\ present' = IF d \in present THEN present \ {d} ELSE present \cup {d}
  /\ dead' = dead \cup {i \in 1..MaxIndex : mounted[i] = d}
  /\ UNCHANGED <<disks, data, mounted, image, cached, pc, dir>>

\* The host starts afresh.  Of a copy still in the page cache all, some or nothing
\* is on the disk, also when a guest runs on it.
PowerLoss ==
  /\ Spend("faults", MaxFaults)
  /\ \E lost \in SUBSET cached : \E left \in [lost -> {"none", "partial"}] :
       image' = [v \in Volumes |-> IF v \in lost THEN left[v] ELSE image[v]]
  /\ cached' = {}
  /\ mounted' = [i \in 1..MaxIndex |-> None]
  /\ dead' = {}
  /\ data' = "unmounted"
  /\ pc' = "resolve"
  /\ dir' = None
  /\ UNCHANGED <<disks, present>>

Next ==
  \/ UseDataVolume \/ UseMedia \/ UseMounted \/ MountDisk \/ MountFails \/ NoSuchDisk
  \/ Launch \/ StartCopy \/ NoSeed \/ FinishCopy \/ CopyFails
  \/ GuestWrites \/ Again \/ PowerLoss
  \/ (\E v \in Volumes : WriteBack(v)) \/ (\E d \in Disks : Swap(d))

Spec == Init /\ [][Next]_vars

-----------------------------------------------------------------------------
(***************************************************************************)
(* Properties.                                                             *)
(***************************************************************************)

\* Seeding happens "if dest is missing" (storage.rs:293).  Whatever disks come and
\* go, whichever mounts and copies fail, a guest's disk is replaced by one of two
\* faults only: the power goes before the copy it runs on has been written back,
\* which nothing makes sure of (storage.rs:314), or the look at it fails, which
\* passes for its absence (storage.rs:298, main.rs:228).
GuestDiskKept ==
  [][ \A v \in Volumes : image[v] = "guest" /\ image'[v] # "guest" =>
        /\ used'.faults = used.faults + 1
        /\ \/ v \in cached /\ pc' = "resolve"
           \/ v = dir /\ pc' = "copying" ]_vars

\* A VM runs on a directory with a volume mounted on it, never on the bare
\* mount point in the root file system, which is lost with the power
\* (storage.rs:345-365, main.rs:221-227).
VolumeBehindDirectory ==
  pc \in {"check", "copying", "running"} =>
    CASE dir = Data  -> data # "unmounted"
      [] dir = Media -> OnMedia
      [] OTHER       -> index > 0 /\ dir # None /\ mounted[index] = dir

\* "copy images/image.qcow2 from the ISO boot media onto the data volume path
\* once, then continue" (main.rs:230-231): a guest is started with the whole
\* seed or with a disk of its own.
SeedIsWhole == pc = "running" => image[dir] # "partial"

\* "1 = first internal disk, 2.. = external disks in stable order"
\* (storage.rs:320-324): the directory resolved is that of the disk so numbered.
ResolvedIsNumbered ==
  [][ pc = "resolve" /\ pc' = "check" /\ index > 0 => dir' \in Numbered(index) ]_vars

=============================================================================
