--------------------------- MODULE SizedDiskProofs ---------------------------
(***************************************************************************)
(* SizedDisk implements a plain file of bytes, for every device size and   *)
(* contents, with the sector size of the code.                             *)
(***************************************************************************)
EXTENDS SizedDisk, TLAPS

\* Rounding to sectors of 512 bytes.
LEMMA Rounding ==
  ASSUME Sector = 512, NEW x \in Nat
  PROVE  /\ Down(x) \in Nat /\ Down(x) <= x /\ x < Down(x) + Sector /\ Down(x) % Sector = 0
         /\ Up(x) \in Nat /\ x <= Up(x) /\ Up(x) < x + Sector /\ Up(x) % Sector = 0
BY DEF Down, Up

\* The smallest multiple of the sector size not below x is below any other.
LEMMA UpLeast ==
  ASSUME Sector = 512, NEW x \in Nat, NEW y \in Nat, x <= y, y % Sector = 0
  PROVE  Up(x) <= y
BY DEF Up

\* The size is whole sectors, and no more than the device has.
LEMMA SizeFacts ==
  ASSUME Sector = 512
  PROVE  Size \in Nat /\ Size <= RawSize /\ Size % Sector = 0
BY Rounding, RawSizeAssumption DEF Size

\* The whole sectors around a range of the disk: they hold the range, end on the
\* disk and may be transferred.
LEMMA Sectors ==
  ASSUME Sector = 512, NEW at \in Nat, NEW n \in Nat \ {0}, at + n <= Size
  PROVE  /\ Start(at) \in Nat /\ End(at, n) \in Nat
         /\ Start(at) <= at /\ at + n <= End(at, n) /\ End(at, n) <= RawSize
         /\ Transferable(Start(at), End(at, n) - Start(at))
<1>1. Start(at) \in Nat /\ Start(at) <= at /\ Start(at) % 512 = 0
  BY DEF Start, Down
<1>2. Up(at + n) \in Nat /\ at + n <= Up(at + n) /\ Up(at + n) % 512 = 0 /\ Up(at + n) <= Size
  BY Rounding, UpLeast, SizeFacts
<1>3. End(at, n) = Up(at + n)
  BY <1>2, SizeFacts DEF End, Least
<1>4. (End(at, n) - Start(at)) % 512 = 0
  BY <1>1, <1>2, <1>3
<1>5. Start(at) + (End(at, n) - Start(at)) <= RawSize
  BY <1>1, <1>2, <1>3, SizeFacts, RawSizeAssumption
<1>. QED
  BY <1>1, <1>2, <1>3, <1>4, <1>5, SizeFacts, RawSizeAssumption DEF Transferable

\* What read_at returns is what is on the disk.
LEMMA Gathered ==
  ASSUME Sector = 512, NEW at \in Nat, NEW n \in Nat \ {0}, at + n <= Size
  PROVE  Gather(at, n) = [k \in 0..(n - 1) |-> device[at + k]]
<1>. DEFINE len == End(at, n) - Start(at)
            off == at - Start(at)
            tmp == RawRead(Start(at), len)
<1>1. SUFFICES ASSUME NEW k \in 0..(n - 1)
               PROVE  tmp[off + k] = device[at + k]
  BY DEF Gather
<1>2. off + k \in 0..(len - 1) /\ Start(at) + (off + k) = at + k
  <2>1. /\ Start(at) \in Nat /\ End(at, n) \in Nat
        /\ Start(at) <= at /\ at + n <= End(at, n)
    BY Sectors
  <2>. QED
    BY <2>1
<1>. QED
  BY <1>2 DEF RawRead

\* What write_at leaves is the old contents with the buffer over it, as far as the
\* sectors were written, and the device did not refuse.
LEMMA Stored ==
  ASSUME Sector = 512, NEW at \in Nat, NEW n \in Nat \ {0}, at + n <= Size, NEW buf, NEW done,
         device \in [0..(RawSize - 1) -> Byte], refused = FALSE, Store(at, n, buf, done)
  PROVE  /\ device' = [i \in 0..(RawSize - 1) |->
                         IF i \in at..(at + n - 1) /\ i \div Sector \in done THEN buf[i - at] ELSE device[i]]
         /\ refused' = FALSE
<1>1. CASE FullyAligned(at, n)
  <2>1. RawWrite(at, n, buf, done) /\ Transfer(at, n)
    BY <1>1 DEF Store
  <2>2. Transferable(at, n)
    BY <1>1, SizeFacts, RawSizeAssumption DEF FullyAligned, Transferable
  <2>. QED
    BY <2>1, <2>2 DEF RawWrite, Transfer
<1>2. CASE ~FullyAligned(at, n)
  <2>. DEFINE len == End(at, n) - Start(at)
              off == at - Start(at)
              tmp == RawRead(Start(at), len)
              out == [k \in 0..(len - 1) |-> IF k \in off..(off + n - 1) THEN buf[k - off] ELSE tmp[k]]
  <2>1. RawWrite(Start(at), len, out, done) /\ Transfer(Start(at), len)
    BY <1>2 DEF Store, Patch
  <2>2. refused' = FALSE
    BY <2>1, Sectors DEF Transfer
  <2>3. SUFFICES ASSUME NEW i \in 0..(RawSize - 1)
                 PROVE  (IF i \in Start(at)..(Start(at) + len - 1) /\ i \div Sector \in done
                         THEN out[i - Start(at)] ELSE device[i])
                        = (IF i \in at..(at + n - 1) /\ i \div Sector \in done THEN buf[i - at] ELSE device[i])
    BY <2>1, <2>2 DEF RawWrite
  <2>4. CASE i \in Start(at)..(Start(at) + len - 1)
    <3>1. i - Start(at) \in 0..(len - 1) /\ Start(at) + (i - Start(at)) = i
      BY <2>4, Sectors, RawSizeAssumption
    <3>2. tmp[i - Start(at)] = device[i]
      BY <3>1 DEF RawRead
    <3>3. (i - Start(at) \in off..(off + n - 1)) <=> (i \in at..(at + n - 1))
      <4>1. \A x, y, z \in Int : (x - z \in (y - z)..((y - z) + n - 1)) <=> (x \in y..(y + n - 1))
        OBVIOUS
      <4>2. i \in Int /\ at \in Int /\ Start(at) \in Int
        BY Sectors, RawSizeAssumption
      <4>. QED
        BY <4>1, <4>2
    <3>4. (i - Start(at)) - off = i - at
      BY Sectors, RawSizeAssumption
    <3>5. out[i - Start(at)] = IF i - Start(at) \in off..(off + n - 1)
                              THEN buf[(i - Start(at)) - off] ELSE tmp[i - Start(at)]
      BY <3>1
    <3>. QED
      BY <2>4, <3>2, <3>3, <3>4, <3>5
  <2>5. CASE i \notin Start(at)..(Start(at) + len - 1)
    <3>1. i \notin at..(at + n - 1)
      BY <2>5, Sectors, RawSizeAssumption
    <3>. QED
      BY <2>5, <3>1
  <2>. QED
    BY <2>4, <2>5
<1>. QED
  BY <1>1, <1>2

-----------------------------------------------------------------------------
(***************************************************************************)
(* The inductive invariant.                                                *)
(***************************************************************************)

Sound ==
  /\ device \in [0..(RawSize - 1) -> Byte]
  /\ pos \in 0..Size
  /\ refused = FALSE

Correct == Sound /\ got \in Result

\* The effect of storing a buffer at a range of the disk, of which only the bytes
\* in the sectors of done are written.
Stores(at, n, buf, done) ==
  /\ device' = [i \in 0..(RawSize - 1) |->
                  IF i \in at..(at + n - 1) /\ i \div Sector \in done THEN buf[i - at] ELSE device[i]]
  /\ refused' = FALSE

\* The bytes of a range that are.
Reached(at, n, done) == {i \in at..(at + n - 1) : i \div Sector \in done}

\* All of them, if the device does not fail.
LEMMA AllReached ==
  ASSUME Sector = 512, NEW at \in Nat, NEW n \in Nat, at + n <= Size
  PROVE  Reached(at, n, AllSectors) = at..(at + n - 1)
<1>1. ASSUME NEW i \in at..(at + n - 1) PROVE i \div Sector \in AllSectors
  <2>1. i \in 0..(RawSize - 1)
    BY SizeFacts, RawSizeAssumption
  <2>. QED
    BY <2>1 DEF AllSectors
<1>. QED
  BY <1>1 DEF Reached

\* A transfer is cut to what is left of the disk.
LEMMA RoomFacts ==
  ASSUME Sector = 512, Sound, NEW n \in Nat
  PROVE  Room(n) \in Nat /\ Room(n) <= n /\ pos + Room(n) <= Size /\ pos + Room(n) \in 0..Size
BY SizeFacts DEF Room, Least, Sound

\* A read inside the disk is in whole sectors, which the device does not refuse.
LEMMA ReadEffect ==
  ASSUME Sector = 512, Sound, NEW at \in Nat, NEW n \in Nat \ {0}, at + n <= Size,
         Transfer(Start(at), End(at, n) - Start(at))
  PROVE  refused' = refused
BY Sectors DEF Transfer, Sound

\* A buffer stored in the whole sectors leaves a well-formed device, and what
\* follows the whole sectors as it was.
LEMMA StoresSound ==
  ASSUME Sector = 512, Sound, NEW at \in Nat, NEW n \in Nat, at + n <= Size, NEW m \in Nat, n <= m,
         NEW buf \in [0..(m - 1) -> Byte], NEW done, Stores(at, n, buf, done)
  PROVE  /\ device' \in [0..(RawSize - 1) -> Byte]
         /\ \A i \in Size..(RawSize - 1) : device'[i] = device[i]
<1>1. ASSUME NEW i \in 0..(RawSize - 1)
      PROVE  (IF i \in at..(at + n - 1) /\ i \div Sector \in done THEN buf[i - at] ELSE device[i]) \in Byte
  <2>1. CASE i \in at..(at + n - 1) /\ i \div Sector \in done
    <3>1. i - at \in 0..(m - 1)
      BY <2>1, RawSizeAssumption
    <3>. QED
      BY <2>1, <3>1
  <2>2. CASE ~(i \in at..(at + n - 1) /\ i \div Sector \in done)
    BY <2>2 DEF Sound
  <2>. QED
    BY <2>1, <2>2
<1>2. ASSUME NEW i \in Size..(RawSize - 1)
      PROVE  i \in 0..(RawSize - 1) /\ i \notin at..(at + n - 1)
  BY SizeFacts, RawSizeAssumption
<1>. QED
  BY <1>1, <1>2 DEF Stores

\* Results are well-formed.
LEMMA DoneTyped ==
  ASSUME Sector = 512, NEW n \in 0..Size
  PROVE  Done(n) \in Result /\ Error \in Result
<1>1. NoData \in [0..(0 - 1) -> Byte]
  BY DEF NoData
<1>2. NoData \in Buffer
  BY <1>1, BoundsAssumption DEF Buffer
<1>. QED
  BY <1>2, SizeFacts, RawSizeAssumption DEF Done, Error, Result

\* What a read gathers is a result.
LEMMA GatheredTyped ==
  ASSUME Sector = 512, Sound, NEW at \in Nat, NEW n \in 1..MaxLen, at + n <= Size
  PROVE  [ok |-> TRUE, n |-> n, data |-> Gather(at, n)] \in Result
<1>1. n \in Nat \ {0}
  BY BoundsAssumption
<1>2. Gather(at, n) = [k \in 0..(n - 1) |-> device[at + k]]
  BY <1>1, Gathered
<1>3. ASSUME NEW k \in 0..(n - 1) PROVE device[at + k] \in Byte
  <2>1. at + k \in 0..(RawSize - 1)
    BY <1>1, SizeFacts, RawSizeAssumption
  <2>. QED
    BY <2>1 DEF Sound
<1>4. Gather(at, n) \in [0..(n - 1) -> Byte]
  BY <1>2, <1>3
<1>5. Gather(at, n) \in Buffer
  BY <1>4, BoundsAssumption DEF Buffer
<1>. QED
  BY <1>1, <1>5, SizeFacts, RawSizeAssumption DEF Result

-----------------------------------------------------------------------------
(***************************************************************************)
(* Each operation keeps the invariant and the trailing bytes, and is the   *)
(* operation of ByteFile on the whole sectors.                             *)
(***************************************************************************)

Good ==
  /\ Sound'
  /\ got' \in Result
  /\ \A i \in Size..(RawSize - 1) : device'[i] = device[i]

\* The whole sectors, as ByteFile's contents.
Whole == [i \in 0..(Size - 1) |-> device[i]]

\* A call that leaves the device alone is good.
LEMMA KeptGood ==
  ASSUME Sound, UNCHANGED <<device, refused>>, pos' \in 0..Size, got' \in Result
  PROVE  Good
BY DEF Good, Sound

\* A positioned read returns what the file has there.
LEMMA ReadAtGood ==
  ASSUME Sector = 512, Sound, NEW at \in 0..MaxAt, NEW n \in 1..MaxLen, ReadAt(at, n)
  PROVE  Good /\ File!ReadAt(at, n)
<1>. n \in Nat \ {0} /\ at \in Nat
  BY BoundsAssumption
<1>1. CASE BeyondEnd(at, n)
  <2>1. got' = Error /\ UNCHANGED <<device, refused, pos>>
    BY <1>1 DEF ReadAt
  <2>2. got' \in Result
    BY <2>1, DoneTyped, SizeFacts DEF Sound
  <2>3. Good
    BY <2>1, <2>2, KeptGood DEF Sound
  <2>4. at + n > Size
    BY <1>1 DEF BeyondEnd
  <2>. QED
    BY <2>1, <2>3, <2>4 DEF File!ReadAt, File!Error, Error, NoData
<1>2. CASE ~BeyondEnd(at, n)
  <2>1. /\ got' = [ok |-> TRUE, n |-> n, data |-> Gather(at, n)]
        /\ Transfer(Start(at), End(at, n) - Start(at)) /\ UNCHANGED <<device, pos>>
    BY <1>2 DEF ReadAt
  <2>2. at + n <= Size
    BY <1>2, SizeFacts DEF BeyondEnd
  <2>3. UNCHANGED refused
    BY <2>1, <2>2, ReadEffect
  <2>4. got' \in Result
    BY <2>1, <2>2, GatheredTyped
  <2>5. Good
    BY <2>1, <2>3, <2>4, KeptGood DEF Sound
  <2>6. Gather(at, n) = [k \in 0..(n - 1) |-> device[at + k]]
    BY <2>2, Gathered
  <2>7. \A k \in 0..(n - 1) : Whole[at + k] = device[at + k]
    BY <2>2, SizeFacts DEF Whole
  <2>8. [k \in 0..(n - 1) |-> device[at + k]] = [k \in 0..(n - 1) |-> Whole[at + k]]
    BY <2>7
  <2>9. ~(at + n > Size)
    BY <2>2, SizeFacts
  <2>10. File!Slice(at, n) = got'
    BY <2>1, <2>6, <2>8 DEF File!Slice, Whole
  <2>. QED
    BY <2>1, <2>5, <2>9, <2>10 DEF File!ReadAt
<1>. QED
  BY <1>1, <1>2

\* A store on the disk is the overwriting of ByteFile's contents.
LEMMA StoresOverwrites ==
  ASSUME Sector = 512, NEW at \in Nat, NEW n \in Nat, at + n <= Size, NEW buf, NEW done,
         Stores(at, n, buf, done)
  PROVE  Whole' = File!Overwritten(at, buf, Reached(at, n, done))
<1>1. ASSUME NEW i \in 0..(Size - 1)
      PROVE  device'[i] = IF i \in Reached(at, n, done) THEN buf[i - at] ELSE Whole[i]
  <2>1. i \in 0..(RawSize - 1)
    BY SizeFacts, RawSizeAssumption
  <2>. QED
    BY <2>1 DEF Stores, Whole, Reached
<1>. QED
  BY <1>1 DEF Whole, File!Overwritten

\* A positioned write leaves the file with the bytes, and the rest as it was.
LEMMA WriteAtGood ==
  ASSUME Sector = 512, Sound, NEW at \in 0..MaxAt, NEW n \in 1..MaxLen,
         NEW buf \in [0..(n - 1) -> Byte], WriteAt(at, n, buf)
  PROVE  Good /\ File!WriteAt(at, n, buf)
<1>. n \in Nat \ {0} /\ at \in Nat
  BY BoundsAssumption
<1>1. CASE BeyondEnd(at, n)
  <2>1. got' = Error /\ UNCHANGED <<device, refused, pos>>
    BY <1>1 DEF WriteAt
  <2>2. got' \in Result
    BY <2>1, DoneTyped, SizeFacts DEF Sound
  <2>3. Good
    BY <2>1, <2>2, KeptGood DEF Sound
  <2>4. at + n > Size
    BY <1>1 DEF BeyondEnd
  <2>. QED
    BY <2>1, <2>3, <2>4 DEF File!WriteAt, File!Error, Error, NoData
<1>2. CASE ~BeyondEnd(at, n)
  <2>1. got' = Done(n) /\ Store(at, n, buf, AllSectors) /\ UNCHANGED pos
    BY <1>2 DEF WriteAt
  <2>2. at + n <= Size
    BY <1>2, SizeFacts DEF BeyondEnd
  <2>3. Stores(at, n, buf, AllSectors)
    BY <2>1, <2>2, Stored DEF Stores, Sound
  <2>4. n \in 0..Size
    BY <2>2, SizeFacts
  <2>5. got' \in Result
    BY <2>1, <2>4, DoneTyped
  <2>6. /\ device' \in [0..(RawSize - 1) -> Byte]
        /\ \A i \in Size..(RawSize - 1) : device'[i] = device[i]
    <3>1. n <= n
      OBVIOUS
    <3>. QED
      BY <2>2, <2>3, <3>1, StoresSound
  <2>9. Good
    <3>1. refused' = FALSE /\ pos' \in 0..Size
      BY <2>1, <2>3 DEF Stores, Sound
    <3>. QED
      BY <2>5, <2>6, <3>1 DEF Good, Sound
  <2>7. Whole' = File!Overwritten(at, buf, at..(at + n - 1))
    BY <2>2, <2>3, StoresOverwrites, AllReached
  <2>8. ~(at + n > Size)
    BY <2>2, SizeFacts
  <2>. QED
    BY <2>1, <2>7, <2>8, <2>9 DEF File!WriteAt, File!Done, Done, NoData, Whole
<1>. QED
  BY <1>1, <1>2

\* A read that fails changes nothing.
LEMMA ReadFailsGood ==
  ASSUME Sector = 512, Sound, NEW at \in Nat, NEW n \in Nat, ReadFails(at, n)
  PROVE  Good /\ File!ReadFails
<1>1. /\ n \in Nat \ {0} /\ at + n <= Size
      /\ got' = Error /\ UNCHANGED <<device, pos>>
      /\ Transfer(Start(at), End(at, n) - Start(at))
  BY SizeFacts DEF ReadFails, BeyondEnd
<1>2. UNCHANGED refused
  BY <1>1, ReadEffect
<1>3. got' \in Result
  BY <1>1, DoneTyped, SizeFacts
<1>4. Good
  BY <1>1, <1>2, <1>3, KeptGood DEF Sound
<1>. QED
  BY <1>1, <1>4 DEF File!ReadFails, File!Error, Error, NoData

\* A write that fails has written a part of its buffer and nothing beside it.
LEMMA WriteFailsGood ==
  ASSUME Sector = 512, Sound, NEW at \in Nat, NEW n \in Nat, NEW m \in Nat, n <= m,
         NEW buf \in [0..(m - 1) -> Byte], WriteFails(at, n, buf)
  PROVE  Good /\ File!WriteFails(at, n, buf)
<1>1. n \in Nat \ {0} /\ at + n <= Size /\ got' = Error /\ UNCHANGED pos
  BY SizeFacts DEF WriteFails, BeyondEnd
<1>2. PICK done \in SUBSET AllSectors : Store(at, n, buf, done)
  BY DEF WriteFails
<1>3. Stores(at, n, buf, done)
  BY <1>1, <1>2, Stored DEF Stores, Sound
<1>4. /\ device' \in [0..(RawSize - 1) -> Byte]
      /\ \A i \in Size..(RawSize - 1) : device'[i] = device[i]
  BY <1>1, <1>3, StoresSound
<1>5. Good
  <2>1. refused' = FALSE /\ pos' \in 0..Size
    BY <1>1, <1>3 DEF Stores, Sound
  <2>2. got' \in Result
    BY <1>1, DoneTyped, SizeFacts
  <2>. QED
    BY <1>4, <2>1, <2>2 DEF Good, Sound
<1>6. Whole' = File!Overwritten(at, buf, Reached(at, n, done))
  BY <1>1, <1>3, StoresOverwrites
<1>7. Reached(at, n, done) \in SUBSET (at..(at + n - 1))
  BY DEF Reached
<1>. QED
  BY <1>1, <1>5, <1>6, <1>7 DEF File!WriteFails, File!Error, Error, NoData, Whole

\* A read at the position goes no further than the end.
LEMMA ReadGood ==
  ASSUME Sector = 512, Sound, NEW n \in 0..MaxLen, Read(n)
  PROVE  Good /\ File!Read(n)
<1>. DEFINE r == Room(n)
<1>0. n \in Nat /\ pos \in Nat /\ r \in Nat /\ r <= n /\ pos + r <= Size /\ pos + r \in 0..Size
  <2>1. n \in Nat
    BY BoundsAssumption
  <2>2. pos \in Nat
    BY SizeFacts DEF Sound
  <2>3. r \in Nat /\ r <= n /\ pos + r <= Size /\ pos + r \in 0..Size
    BY <2>1, RoomFacts
  <2>. QED
    BY <2>1, <2>2, <2>3, SizeFacts
<1>1. File!Room(n) = r
  BY DEF File!Room, Room, File!Least, Least
<1>2. pos' = pos + r /\ UNCHANGED device
  BY DEF Read
<1>3. CASE r = 0
  <2>1. got' = Done(0) /\ UNCHANGED refused
    BY <1>3 DEF Read
  <2>2. got' \in Result
    BY <2>1, DoneTyped, SizeFacts
  <2>3. Good
    BY <1>0, <1>2, <2>1, <2>2, KeptGood
  <2>4. NoData = [k \in 0..(r - 1) |-> Whole[pos + k]]
    BY <1>3 DEF NoData
  <2>5. got' = File!Slice(pos, r)
    BY <1>3, <2>1, <2>4 DEF File!Slice, Done, Whole
  <2>. QED
    BY <1>1, <1>2, <2>3, <2>5 DEF File!Read
<1>4. CASE r # 0
  <2>1. /\ got' = [ok |-> TRUE, n |-> r, data |-> Gather(pos, r)]
        /\ Transfer(Start(pos), End(pos, r) - Start(pos))
    BY <1>4 DEF Read
  <2>2. r \in Nat \ {0} /\ r \in 1..MaxLen
    BY <1>0, <1>4, BoundsAssumption
  <2>3. UNCHANGED refused
    BY <1>0, <2>1, <2>2, ReadEffect
  <2>4. got' \in Result
    BY <1>0, <2>1, <2>2, GatheredTyped
  <2>5. Good
    BY <1>0, <1>2, <2>3, <2>4, KeptGood
  <2>6. Gather(pos, r) = [k \in 0..(r - 1) |-> device[pos + k]]
    BY <1>0, <2>2, Gathered
  <2>7. \A k \in 0..(r - 1) : Whole[pos + k] = device[pos + k]
    BY <1>0, SizeFacts DEF Whole
  <2>8. [k \in 0..(r - 1) |-> device[pos + k]] = [k \in 0..(r - 1) |-> Whole[pos + k]]
    BY <2>7
  <2>9. got' = File!Slice(pos, r)
    BY <2>1, <2>6, <2>8 DEF File!Slice, Whole
  <2>. QED
    BY <1>1, <1>2, <2>5, <2>9 DEF File!Read
<1>. QED
  BY <1>3, <1>4

\* Nor does a write.
LEMMA WriteGood ==
  ASSUME Sector = 512, Sound, NEW n \in 0..MaxLen, NEW buf \in [0..(n - 1) -> Byte], Write(n, buf)
  PROVE  Good /\ File!Write(n, buf)
<1>. DEFINE r == Room(n)
<1>0. n \in Nat /\ pos \in Nat /\ r \in Nat /\ r <= n /\ pos + r <= Size /\ pos + r \in 0..Size /\ r \in 0..Size
  <2>1. n \in Nat
    BY BoundsAssumption
  <2>2. pos \in Nat
    BY SizeFacts DEF Sound
  <2>3. r \in Nat /\ r <= n /\ pos + r <= Size /\ pos + r \in 0..Size
    BY <2>1, RoomFacts
  <2>. QED
    BY <2>1, <2>2, <2>3, SizeFacts
<1>1. File!Room(n) = r
  BY DEF File!Room, Room, File!Least, Least
<1>2. got' = Done(r) /\ pos' = pos + r
  BY DEF Write
<1>3. got' \in Result
  BY <1>0, <1>2, DoneTyped
<1>4. Stores(pos, r, buf, AllSectors)
  <2>1. CASE r = 0
    <3>1. UNCHANGED <<device, refused>>
      BY <2>1 DEF Write
    <3>2. \A i \in 0..(RawSize - 1) : i \notin pos..(pos + r - 1)
      BY <1>0, <2>1, RawSizeAssumption
    <3>3. device = [i \in 0..(RawSize - 1) |->
                      IF i \in pos..(pos + r - 1) /\ i \div Sector \in AllSectors THEN buf[i - pos] ELSE device[i]]
      BY <3>2 DEF Sound
    <3>. QED
      BY <3>1, <3>3 DEF Stores, Sound
  <2>2. CASE r # 0
    <3>1. Store(pos, r, buf, AllSectors)
      BY <2>2 DEF Write
    <3>2. r \in Nat \ {0}
      BY <1>0, <2>2
    <3>. QED
      BY <1>0, <3>1, <3>2, Stored DEF Stores, Sound
  <2>. QED
    BY <2>1, <2>2
<1>5. /\ device' \in [0..(RawSize - 1) -> Byte]
      /\ \A i \in Size..(RawSize - 1) : device'[i] = device[i]
  BY <1>0, <1>4, StoresSound
<1>6. Good
  <2>1. refused' = FALSE /\ pos' \in 0..Size
    BY <1>0, <1>2, <1>4 DEF Stores
  <2>. QED
    BY <1>3, <1>5, <2>1 DEF Good, Sound
<1>7. Whole' = File!Overwritten(pos, buf, pos..(pos + r - 1))
  BY <1>0, <1>4, StoresOverwrites, AllReached
<1>. QED
  BY <1>1, <1>2, <1>6, <1>7 DEF File!Write, File!Done, Done, NoData, Whole

\* A seek goes where the file goes, or is refused where it is.
LEMMA SeekToGood ==
  ASSUME Sector = 512, Sound, NEW target \in Int, SeekTo(target)
  PROVE  Good /\ File!Seek(target)
<1>1. UNCHANGED <<device, refused>>
  BY DEF SeekTo
<1>2. CASE target \in 0..Size
  <2>1. ~(target < 0 \/ target > Size)
    BY <1>2, SizeFacts
  <2>2. got' = Done(target) /\ pos' = target
    BY <2>1 DEF SeekTo
  <2>3. Good
    BY <1>1, <1>2, <2>2, DoneTyped, KeptGood
  <2>. QED
    BY <1>1, <1>2, <2>2, <2>3 DEF File!Seek, File!Done, Done, NoData
<1>3. CASE target \notin 0..Size
  <2>1. target < 0 \/ target > Size
    BY <1>3, SizeFacts
  <2>2. got' = Error /\ pos' = pos
    BY <2>1 DEF SeekTo
  <2>3. Good
    BY <1>1, <2>2, DoneTyped, SizeFacts, KeptGood DEF Sound
  <2>. QED
    BY <1>1, <1>3, <2>2, <2>3 DEF File!Seek, File!Error, Error, NoData
<1>. QED
  BY <1>2, <1>3

\* Every target of a seek is one ByteFile has.
LEMMA SeekGood ==
  ASSUME Sector = 512, Sound, Seek
  PROVE  Good /\ \E target \in -MaxAt..(Size + MaxAt) : File!Seek(target)
<1>1. PICK off \in -MaxAt..MaxAt, from \in {"start", "current", "end"} :
        /\ from = "start" => off >= 0
        /\ SeekTo(CASE from = "start" -> off [] from = "current" -> pos + off [] from = "end" -> Size + off)
  BY DEF Seek
<1>2. PICK target \in -MaxAt..(Size + MaxAt) : SeekTo(target)
  <2>1. off \in Int /\ pos \in 0..Size /\ Size \in Nat
    BY SizeFacts, BoundsAssumption DEF Sound
  <2>2. CASE from = "start"
    BY <1>1, <2>1, <2>2, BoundsAssumption
  <2>3. CASE from = "current"
    BY <1>1, <2>1, <2>3, BoundsAssumption
  <2>4. CASE from = "end"
    BY <1>1, <2>1, <2>4, BoundsAssumption
  <2>. QED
    BY <2>2, <2>3, <2>4
<1>3. target \in Int
  BY SizeFacts, BoundsAssumption
<1>. QED
  BY <1>2, <1>3, SeekToGood

-----------------------------------------------------------------------------

\* So every call is one of the file.
LEMMA StepGood ==
  ASSUME Sector = 512, Sound, Next
  PROVE  Good /\ File!Next
<1>0. /\ 1..MaxLen = (0..MaxLen) \ {0} /\ 0..MaxLen \subseteq Nat /\ 0..MaxAt \subseteq Nat
      /\ pos \in Nat
  BY BoundsAssumption, SizeFacts DEF Sound
<1>1. CASE \E at \in 0..MaxAt, n \in 1..MaxLen : ReadAt(at, n)
  BY <1>0, <1>1, ReadAtGood DEF File!Next
<1>2. CASE \E at \in 0..MaxAt, n \in 1..MaxLen : \E buf \in [0..(n - 1) -> Byte] : WriteAt(at, n, buf)
  BY <1>0, <1>2, WriteAtGood DEF File!Next
<1>3. CASE \E n \in 0..MaxLen : Read(n)
  BY <1>3, ReadGood DEF File!Next
<1>4. CASE \E n \in 0..MaxLen : \E buf \in [0..(n - 1) -> Byte] : Write(n, buf)
  BY <1>4, WriteGood DEF File!Next
<1>5. CASE Seek
  BY <1>5, SeekGood DEF File!Next
<1>6. CASE \E at \in 0..MaxAt, n \in 1..MaxLen : ReadFails(at, n)
  BY <1>0, <1>6, ReadFailsGood DEF File!Next
<1>7. CASE \E n \in 0..MaxLen : ReadFails(pos, Room(n))
  <2>1. PICK n \in 0..MaxLen : ReadFails(pos, Room(n))
    BY <1>7
  <2>2. Room(n) \in Nat
    BY <1>0, RoomFacts
  <2>. QED
    BY <1>0, <2>1, <2>2, ReadFailsGood DEF File!Next
<1>8. CASE \E at \in 0..MaxAt, n \in 1..MaxLen : \E buf \in [0..(n - 1) -> Byte] : WriteFails(at, n, buf)
  <2>1. PICK at \in 0..MaxAt, n \in 1..MaxLen : \E buf \in [0..(n - 1) -> Byte] : WriteFails(at, n, buf)
    BY <1>8
  <2>2. PICK buf \in [0..(n - 1) -> Byte] : WriteFails(at, n, buf)
    BY <2>1
  <2>3. at \in Nat /\ n \in Nat /\ n <= n
    BY <1>0
  <2>4. Good /\ File!WriteFails(at, n, buf)
    BY <2>2, <2>3, WriteFailsGood
  <2>. QED
    BY <1>0, <2>4 DEF File!Next
<1>9. CASE \E n \in 0..MaxLen : \E buf \in [0..(n - 1) -> Byte] : WriteFails(pos, Room(n), buf)
  <2>1. PICK n \in 0..MaxLen : \E buf \in [0..(n - 1) -> Byte] : WriteFails(pos, Room(n), buf)
    BY <1>9
  <2>2. PICK buf \in [0..(n - 1) -> Byte] : WriteFails(pos, Room(n), buf)
    BY <2>1
  <2>3. n \in Nat /\ Room(n) \in Nat /\ Room(n) <= n
    BY <1>0, RoomFacts
  <2>4. Good /\ File!WriteFails(pos, Room(n), buf)
    BY <1>0, <2>2, <2>3, WriteFailsGood
  <2>5. File!Room(n) = Room(n)
    BY DEF File!Room, Room, File!Least, Least
  <2>. QED
    BY <2>4, <2>5 DEF File!Next
<1>. QED
  BY <1>1, <1>2, <1>3, <1>4, <1>5, <1>6, <1>7, <1>8, <1>9 DEF Next

\* The disk begins as the file does.
LEMMA InitGood ==
  ASSUME Sector = 512, Init
  PROVE  Sound /\ got \in Result /\ File!Init
<1>1. Sound
  BY SizeFacts DEF Init, Sound
<1>2. got \in Result
  BY SizeFacts, DoneTyped DEF Init
<1>3. Whole \in [0..(Size - 1) -> Byte]
  BY SizeFacts, RawSizeAssumption DEF Init, Whole
<1>. QED
  BY <1>1, <1>2, <1>3 DEF Init, File!Init, File!Done, Done, NoData, Whole

\* And where nothing happens to the one, nothing happens to the other.
LEMMA StutterGood ==
  ASSUME Sound, UNCHANGED vars
  PROVE  Sound' /\ UNCHANGED File!vars
BY DEF Sound, vars, File!vars

\* The invariant: the device, the position within the whole sectors, and no
\* transfer the device refused.
THEOREM SoundHolds ==
  ASSUME Sector = 512
  PROVE  Spec => []Correct
<1>1. Init => Correct
  BY InitGood DEF Correct
<1>2. Correct /\ [Next]_vars => Correct'
  BY StepGood, StutterGood DEF Good, vars, Correct
<1>. QED
  BY <1>1, <1>2, PTL DEF Spec

\* The stream position stays on the whole sectors and every result is
\* well-formed (sized_disk.rs:141-214).
THEOREM TypeCorrect ==
  ASSUME Sector = 512
  PROVE  Spec => []TypeOK
<1>1. Correct => TypeOK
  BY DEF Correct, Sound, TypeOK
<1>. QED
  BY <1>1, SoundHolds, PTL

\* No transfer the raw device refuses, for any device size, offset and length
\* (sized_disk.rs:80-138).
THEOREM OnlyWholeSectors ==
  ASSUME Sector = 512
  PROVE  Spec => []NeverRefused
<1>1. Correct => NeverRefused
  BY DEF Correct, Sound, NeverRefused
<1>. QED
  BY <1>1, SoundHolds, PTL

\* The partial trailing sector is never written (sized_disk.rs:51-52).
THEOREM TrailingSafe ==
  ASSUME Sector = 512
  PROVE  Spec => TrailingKept
<1>1. Correct /\ [Next]_vars => [\A i \in Down(RawSize)..(RawSize - 1) : device'[i] = device[i]]_vars
  <2>1. ASSUME Sound, Next
        PROVE  \A i \in Down(RawSize)..(RawSize - 1) : device'[i] = device[i]
    BY <2>1, StepGood DEF Good, Size
  <2>. QED
    BY <2>1 DEF Correct
<1>. QED
  BY <1>1, SoundHolds, PTL DEF Spec, TrailingKept

\* Whatever the alignment of a call, it does what it does on a plain file.
THEOREM SizedDiskIsByteFile ==
  ASSUME Sector = 512
  PROVE  Spec => ImplementsByteFile
<1>1. Init => File!Init
  BY InitGood
<1>2. Correct /\ [Next]_vars => [File!Next]_(File!vars)
  BY StepGood, StutterGood DEF vars, Correct
<1>. QED
  BY <1>1, <1>2, SoundHolds, PTL DEF Spec, ImplementsByteFile, File!Spec

=============================================================================
