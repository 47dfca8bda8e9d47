------------------------------ MODULE ByteFile ------------------------------
(***************************************************************************)
(* A file of bytes with a stream position, as the gpt crate and the ISO    *)
(* writer expect one: any offset and any length.  SizedDisk implements it  *)
(* on a device that transfers whole sectors only.                          *)
(***************************************************************************)
EXTENDS Integers

CONSTANTS
  Byte, Size,
  Lengths, Offsets,  \* buffers and offsets of the callers
  Targets            \* where they seek to

VARIABLES
  bytes,  \* the contents
  pos,    \* the stream position
  got     \* what the last operation returned

vars == <<bytes, pos, got>>

Error        == [ok |-> FALSE, n |-> 0, data |-> [k \in {} |-> 0]]
Done(n)      == [ok |-> TRUE, n |-> n, data |-> [k \in {} |-> 0]]
Slice(at, n) == [ok |-> TRUE, n |-> n, data |-> [k \in 0..(n - 1) |-> bytes[at + k]]]

Init ==
  /\ bytes \in [0..(Size - 1) -> Byte]
  /\ pos = 0
  /\ got = Done(0)

\* The bytes of done are taken from a buffer that is written at an offset.
Overwritten(at, buf, done) ==
  [i \in 0..(Size - 1) |-> IF i \in done THEN buf[i - at] ELSE bytes[i]]

Least(a, b) == IF a < b THEN a ELSE b
Room(n)     == Least(Size - pos, n)

ReadAt(at, n) ==
  /\ got' = IF at + n > Size THEN Error ELSE Slice(at, n)
  /\ UNCHANGED <<bytes, pos>>

WriteAt(at, n, buf) ==
  /\ IF at + n > Size
     THEN got' = Error /\ UNCHANGED bytes
     ELSE got' = Done(n) /\ bytes' = Overwritten(at, buf, at..(at + n - 1))
  /\ UNCHANGED pos

\* A stream operation is cut off at the end of the file.
Read(n) ==
  /\ got' = Slice(pos, Room(n))
  /\ pos' = pos + Room(n)
  /\ UNCHANGED bytes

Write(n, buf) ==
  /\ bytes' = Overwritten(pos, buf, pos..(pos + Room(n) - 1))
  /\ got' = Done(Room(n))
  /\ pos' = pos + Room(n)

\* An operation fails; of a buffer a part may have been written.
ReadFails ==
  /\ got' = Error
  /\ UNCHANGED <<bytes, pos>>

WriteFails(at, n, buf) ==
  /\ at + n <= Size
  /\ got' = Error
  /\ \E done \in SUBSET (at..(at + n - 1)) : bytes' = Overwritten(at, buf, done)
  /\ UNCHANGED pos

\* Whether relative to the start, the position or the end.
Seek(target) ==
  /\ IF target \in 0..Size THEN pos' = target /\ got' = Done(target)
                            ELSE pos' = pos /\ got' = Error
  /\ UNCHANGED bytes

Next ==
  \/ \E at \in Offsets, n \in Lengths \ {0} : ReadAt(at, n)
  \/ \E at \in Offsets, n \in Lengths \ {0} :
       \E buf \in [0..(n - 1) -> Byte] : WriteAt(at, n, buf) \/ WriteFails(at, n, buf)
  \/ \E n \in Lengths : Read(n)
  \/ \E n \in Lengths :
       \E buf \in [0..(n - 1) -> Byte] : Write(n, buf) \/ WriteFails(pos, Room(n), buf)
  \/ ReadFails
  \/ \E target \in Targets : Seek(target)

Spec == Init /\ [][Next]_vars
=============================================================================
