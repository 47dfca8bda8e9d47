------------------------------ MODULE Timeline ------------------------------
(***************************************************************************)
(* What undo and redo promise: the versions of a text in the order they    *)
(* were written, and the one that is on the screen.  A change forgets what *)
(* had been undone, and the oldest versions are dropped beyond a limit.    *)
(***************************************************************************)
EXTENDS Naturals, Sequences, SequencesExt

CONSTANT Limit  \* versions that can be gone back, at least 1

VARIABLES
  versions,  \* oldest first; empty while no text is open
  at         \* index of the version on the screen

vars == <<versions, at>>

Init == versions = <<>> /\ at = 0

Open ==
  /\ versions = <<>>
  /\ Len(versions') = 1 /\ at' = 1

Close ==
  /\ versions # <<>>
  /\ versions' = <<>> /\ at' = 0

\* The new version is whatever the change has made of the text.
Change ==
  /\ versions # <<>> /\ versions' # <<>>
  /\ at' = Len(versions')
  /\ LET all == Append(SubSeq(versions, 1, at), Last(versions'))
     IN versions' = IF Len(all) > Limit + 1 THEN Tail(all) ELSE all

Undo == at > 1 /\ at' = at - 1 /\ UNCHANGED versions
Redo == at < Len(versions) /\ at' = at + 1 /\ UNCHANGED versions

Next == Open \/ Close \/ Change \/ Undo \/ Redo

Spec == Init /\ [][Next]_vars

=============================================================================
