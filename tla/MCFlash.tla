------------------------------- MODULE MCFlash -------------------------------
(***************************************************************************)
(* A hybrid ISO with two overlapping partitions, for checking Flash.       *)
(***************************************************************************)
EXTENDS Flash

MCIsoParts ==
  {[name |-> "iso", first |-> 0, last |-> 6], [name |-> "iso", first |-> 3, last |-> 4]}

MCOverlaps == {[start |-> 5, len |-> 2]}
=============================================================================
