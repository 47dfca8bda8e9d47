---------------------------- MODULE StorageProofs ----------------------------
(***************************************************************************)
(* What Storage promises for every set of disks, however they are swapped, *)
(* and however often mounts, copies, looks at files and the power fail.    *)
(***************************************************************************)
EXTENDS Storage, TLAPS

\* A copy under way writes to a file of its own: that is why a guest's disk,
\* which exists when it is looked for, is not overwritten at the end of one.
CopyIsPartial == pc = "copying" => image[dir] = "partial"

IInv == TypeOK /\ CopyIsPartial

-----------------------------------------------------------------------------
\* A number is given to disks that are there.
LEMMA NumberedDisks ==
  ASSUME TypeOK, NEW i
  PROVE  Numbered(i) \subseteq present
BY DEF Numbered, Nth, TypeOK

\* The initial state satisfies the invariant.
LEMMA InitIInv == Init => IInv
<1> SUFFICES ASSUME Init PROVE IInv
  OBVIOUS
<1> USE DisksAssumption, BoundsAssumption
<1>1. index \in 0..MaxIndex /\ present \subseteq Disks /\ hasData \in BOOLEAN
  BY DEF Init
<1>2. data \in {"unmounted", "own", "elsewhere"}
  BY DEF Init
<1>3. image \in [Volumes -> {"none", "partial", "seed", "guest"}]
  BY DEF Init
<1>4. used \in [faults : 0..MaxFaults, swaps : 0..MaxSwaps]
  BY DEF Init
<1> QED
  BY <1>1, <1>2, <1>3, <1>4 DEF Init, IInv, TypeOK, CopyIsPartial

\* Spending a fault or a swap stays within its bound.
LEMMA SpendTyped ==
  ASSUME TypeOK, NEW what \in {"faults", "swaps"}, NEW max, Spend(what, max),
         max = IF what = "faults" THEN MaxFaults ELSE MaxSwaps
  PROVE  used' \in [faults : 0..MaxFaults, swaps : 0..MaxSwaps]
BY BoundsAssumption DEF Spend, TypeOK

\* Every step keeps the types.
LEMMA StepType == TypeOK /\ [Next]_vars => TypeOK'
<1> SUFFICES ASSUME TypeOK, [Next]_vars PROVE TypeOK'
  OBVIOUS
<1> USE DisksAssumption, BoundsAssumption DEF TypeOK, disks, Volumes, Resolved, Unresolved
<1>1. CASE UseDataVolume
  BY <1>1 DEF UseDataVolume
<1>2. CASE UseMedia
  <2>1. used' \in [faults : 0..MaxFaults, swaps : 0..MaxSwaps]
    BY <1>2, SpendTyped DEF UseMedia
  <2> QED
    BY <1>2, <2>1 DEF UseMedia
<1>3. CASE UseMounted
  <2>1. mounted[index] \in Disks
    BY <1>3 DEF UseMounted
  <2> QED
    BY <1>3, <2>1 DEF UseMounted
<1>4. CASE MountDisk
  <2>1. PICK d \in Numbered(index) : mounted' = [mounted EXCEPT ![index] = d] /\ Resolved(d)
    BY <1>4 DEF MountDisk
  <2>2. d \in Disks
    BY NumberedDisks
  <2> QED
    BY <1>4, <2>1, <2>2 DEF MountDisk
<1>5. CASE MountFails
  BY <1>5, SpendTyped DEF MountFails
<1>6. CASE NoSuchDisk
  BY <1>6 DEF NoSuchDisk
<1>7. CASE Launch
  BY <1>7 DEF Launch
<1>8. CASE StartCopy
  <2>1. used' \in [faults : 0..MaxFaults, swaps : 0..MaxSwaps]
    BY <1>8, SpendTyped DEF StartCopy, Missed
  <2> QED
    BY <1>8, <2>1 DEF StartCopy
<1>9. CASE NoSeed
  <2>1. used' \in [faults : 0..MaxFaults, swaps : 0..MaxSwaps]
    BY <1>9, SpendTyped DEF NoSeed
  <2> QED
    BY <1>9, <2>1 DEF NoSeed
<1>10. CASE FinishCopy
  <2>1. used' \in [faults : 0..MaxFaults, swaps : 0..MaxSwaps]
    BY <1>10, SpendTyped DEF FinishCopy
  <2> QED
    BY <1>10, <2>1 DEF FinishCopy
<1>11. CASE CopyFails
  <2>1. used' \in [faults : 0..MaxFaults, swaps : 0..MaxSwaps]
    BY <1>11, SpendTyped DEF CopyFails
  <2> QED
    BY <1>11, <2>1 DEF CopyFails
<1>12. CASE GuestWrites
  BY <1>12 DEF GuestWrites
<1>13. CASE Again
  BY <1>13 DEF Again
<1>14. CASE \E v \in Volumes : WriteBack(v)
  BY <1>14 DEF WriteBack
<1>15. CASE PowerLoss
  <2>1. image' \in [Volumes -> {"none", "partial", "seed", "guest"}]
    <3>1. PICK lost \in SUBSET cached : \E left \in [lost -> {"none", "partial"}] :
            image' = [v \in Volumes |-> IF v \in lost THEN left[v] ELSE image[v]]
      BY <1>15 DEF PowerLoss
    <3>2. PICK left \in [lost -> {"none", "partial"}] :
            image' = [v \in Volumes |-> IF v \in lost THEN left[v] ELSE image[v]]
      BY <3>1
    <3> QED
      BY <3>2
  <2>2. used' \in [faults : 0..MaxFaults, swaps : 0..MaxSwaps]
    BY <1>15, SpendTyped DEF PowerLoss
  <2> QED
    BY <1>15, <2>1, <2>2 DEF PowerLoss
<1>16. CASE \E d \in Disks : Swap(d)
  BY <1>16, SpendTyped DEF Swap
<1>17. CASE UNCHANGED vars
  BY <1>17 DEF vars
<1> QED
  BY <1>1, <1>2, <1>3, <1>4, <1>5, <1>6, <1>7, <1>8, <1>9, <1>10, <1>11, <1>12, <1>13,
     <1>14, <1>15, <1>16, <1>17 DEF Next

\* While a copy runs nothing else touches its file.
LEMMA StepCopy == IInv /\ [Next]_vars => CopyIsPartial'
<1> SUFFICES ASSUME TypeOK, CopyIsPartial, [Next]_vars PROVE CopyIsPartial'
  BY DEF IInv
<1>1. CASE StartCopy
  BY <1>1 DEF StartCopy, CopyIsPartial, TypeOK
<1>2. CASE (\E v \in Volumes : WriteBack(v)) \/ (\E d \in Disks : Swap(d)) \/ UNCHANGED vars
  BY <1>2 DEF WriteBack, Swap, vars, CopyIsPartial
<1>3. CASE \/ UseDataVolume \/ UseMedia \/ UseMounted \/ MountDisk \/ MountFails \/ NoSuchDisk
           \/ Launch \/ NoSeed \/ FinishCopy \/ CopyFails \/ GuestWrites \/ Again \/ PowerLoss
  <2>1. pc' # "copying"
    BY <1>3 DEF UseDataVolume, UseMedia, UseMounted, MountDisk, MountFails, NoSuchDisk, Launch,
                NoSeed, FinishCopy, CopyFails, GuestWrites, Again, PowerLoss, Resolved, Unresolved
  <2> QED
    BY <2>1 DEF CopyIsPartial
<1> QED
  BY <1>1, <1>2, <1>3 DEF Next

\* What replaces a guest's disk.
Excused(v) == /\ used'.faults = used.faults + 1
              /\ \/ v \in cached /\ pc' = "resolve"
                 \/ v = dir /\ pc' = "copying"

\* No other step takes a guest's disk away.
LEMMA StepKeepsGuests ==
  ASSUME IInv, [Next]_vars, NEW v \in Volumes, image[v] = "guest", image'[v] # "guest"
  PROVE  Excused(v)
<1> USE DEF IInv, TypeOK
<1>0. Spend("faults", MaxFaults) => used'.faults = used.faults + 1
  BY DEF Spend
<1>1. CASE StartCopy
  <2>1. v = dir
    BY <1>1 DEF StartCopy
  <2>2. Exists(dir)
    BY <1>1, <2>1 DEF StartCopy, Seedable, Exists
  <2> QED
    BY <1>0, <1>1, <2>1, <2>2 DEF StartCopy, Missed, Excused
<1>2. CASE FinishCopy
  BY <1>2 DEF FinishCopy, CopyIsPartial
<1>3. CASE GuestWrites
  BY <1>3 DEF GuestWrites
<1>4. CASE PowerLoss
  <2>1. PICK lost \in SUBSET cached : \E left \in [lost -> {"none", "partial"}] :
          image' = [u \in Volumes |-> IF u \in lost THEN left[u] ELSE image[u]]
    BY <1>4 DEF PowerLoss
  <2>2. PICK left \in [lost -> {"none", "partial"}] :
          image' = [u \in Volumes |-> IF u \in lost THEN left[u] ELSE image[u]]
    BY <2>1
  <2>3. v \in cached
    BY <2>2
  <2>4. used'.faults = used.faults + 1 /\ pc' = "resolve"
    BY <1>0, <1>4 DEF PowerLoss
  <2> QED
    BY <2>3, <2>4 DEF Excused
<1>5. CASE UNCHANGED image
  BY <1>5
<1> QED
  BY <1>1, <1>2, <1>3, <1>4, <1>5
  DEF Next, UseDataVolume, UseMedia, UseMounted, MountDisk, MountFails, NoSuchDisk, Launch,
      NoSeed, CopyFails, Again, WriteBack, Swap, vars

-----------------------------------------------------------------------------
\* The inductive invariant.
LEMMA IInvKept == Spec => []IInv
<1>1. IInv /\ [Next]_vars => IInv'
  BY StepType, StepCopy DEF IInv
<1> QED
  BY InitIInv, <1>1, PTL DEF Spec

\* The state of Storage is well-typed.
THEOREM TypeCorrect == Spec => []TypeOK
BY IInvKept, PTL DEF IInv

\* A guest's disk is replaced only when the power goes before the copy it runs on
\* has been written back, or when a look at it fails: by no swap of disks, failing
\* mount or copy, restart of the guest, or power loss after that
\* (storage.rs:293-318, main.rs:228).
THEOREM GuestDiskSafe == Spec => GuestDiskKept
<1>1. IInv /\ [Next]_vars
      => [\A v \in Volumes : image[v] = "guest" /\ image'[v] # "guest" =>
            /\ used'.faults = used.faults + 1
            /\ \/ v \in cached /\ pc' = "resolve"
               \/ v = dir /\ pc' = "copying"]_vars
  <2> SUFFICES ASSUME IInv, [Next]_vars, NEW v \in Volumes, image[v] = "guest", image'[v] # "guest"
               PROVE  Excused(v)
    BY DEF Excused
  <2> QED
    BY StepKeepsGuests
<1> QED
  BY IInvKept, <1>1, PTL DEF Spec, GuestDiskKept

\* A guest runs, and its image is looked for and copied, on the volume that is
\* mounted at the directory the storage index was resolved to (storage.rs:345-365).
THEOREM DirectoryBacked == Spec => []VolumeBehindDirectory
<1>1. Init => VolumeBehindDirectory
  BY DEF Init, VolumeBehindDirectory
<1>2. TypeOK /\ VolumeBehindDirectory /\ [Next]_vars => VolumeBehindDirectory'
  <2> SUFFICES ASSUME TypeOK, VolumeBehindDirectory, [Next]_vars PROVE VolumeBehindDirectory'
    OBVIOUS
  <2> USE DEF VolumeBehindDirectory
  <2>1. CASE UseDataVolume
    <3>1. data' # "unmounted"
      BY <2>1 DEF UseDataVolume
    <3>2. dir' = Data
      BY <2>1 DEF UseDataVolume, Resolved
    <3> QED
      BY <3>1, <3>2, DisksAssumption
  <2>2. CASE UseMedia
    BY <2>2, DisksAssumption DEF UseMedia, Resolved, Unresolved
  <2>3. CASE UseMounted
    <3>1. index \in 1..MaxIndex /\ mounted[index] \in Disks
      BY <2>3, BoundsAssumption DEF UseMounted, TypeOK
    <3> QED
      BY <2>3, <3>1, DisksAssumption DEF UseMounted, Resolved, disks
  <2>4. CASE MountDisk
    <3>1. PICK d \in Numbered(index) : mounted' = [mounted EXCEPT ![index] = d] /\ Resolved(d)
      BY <2>4 DEF MountDisk
    <3>2. d \in Disks /\ index \in 1..MaxIndex
      BY <2>4, NumberedDisks, BoundsAssumption DEF MountDisk, TypeOK
    <3>3. mounted'[index] = d
      BY <3>1, <3>2 DEF TypeOK
    <3> QED
      BY <2>4, <3>1, <3>2, <3>3, DisksAssumption DEF MountDisk, Resolved, disks
  <2>5. CASE MountFails \/ NoSuchDisk \/ NoSeed \/ CopyFails \/ Again \/ PowerLoss
    BY <2>5 DEF MountFails, NoSuchDisk, NoSeed, CopyFails, Again, PowerLoss, Unresolved
  <2>6. CASE Launch \/ StartCopy \/ FinishCopy \/ GuestWrites \/ \E v \in Volumes : WriteBack(v)
    BY <2>6 DEF Launch, StartCopy, FinishCopy, GuestWrites, WriteBack, disks
  <2>7. CASE \E d \in Disks : Swap(d)
    BY <2>7 DEF Swap, disks
  <2>8. CASE UNCHANGED vars
    BY <2>8 DEF vars
  <2> QED
    BY <2>1, <2>2, <2>3, <2>4, <2>5, <2>6, <2>7, <2>8 DEF Next
<1> QED
  BY <1>1, <1>2, TypeCorrect, PTL DEF Spec

=============================================================================
