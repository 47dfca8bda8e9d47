------------------------------ MODULE MCJourney ------------------------------
(***************************************************************************)
(* An instance of Journey for TLC: small texts, five sessions that each    *)
(* give one part of the wizard room, and documents two keys away from one  *)
(* of three that are in use.                                               *)
(***************************************************************************)
EXTENDS Journey, TLC

MCValues == <<"v", "w">>

\* A text is accepted if its lines are empty or give a known value.
MCValid(t) ==
  /\ \E i \in DOMAIN t : t[i] # <<>>
  /\ \A i \in DOMAIN t : t[i] = <<>> \/ \E v \in Range(MCValues) : t[i] = <<Equals, v>>

MCDefault   == <<<<"=", "v">>>>
MCHostTexts == {<<<<"=">>>>}

NoFS      == [gen |-> 0, volume |-> FALSE, config |-> Missing, image |-> "missing"]
Volume(f) == [gen |-> 0, volume |-> TRUE, config |-> f, image |-> "whole"]
Start(a, b, e, s, o, f) ==
  [disk |-> ("A" :> a @@ "B" :> b), edits |-> e, searches |-> s, ops |-> o, faults |-> f]

MCStarts ==
  {Start(Volume(File(Blank)), NoFS, 3, 0, 0, 0),
   Start(Volume(File(<<<<"=">>, <<"v">>>>)), NoFS, 1, 1, 0, 0),
   Start(Volume(File(<<<<"=", "w">>>>)), NoFS, 1, 0, 1, 1),
   Start(Volume(Missing), NoFS, 0, 0, 2, 2),
   Start(Volume(Missing), Volume(Missing), 0, 0, 2, 1)}

Arm == With(Bundled, [arch |-> "aarch64", firmware |-> "uefi", machine |-> "pc",
                      bus |-> "virtio", passthrough |-> "none"])

\* One key set to anything, and two of those that rules relate to each other.
Changes(keys) == {k :> v : <<k, v>> \in {p \in keys \X UNION {Options[k] : k \in keys} : p[2] \in Options[p[1]]}}

Related == {"arch", "firmware", "machine", "bus", "mode", "bridge_iface", "backend", "passthrough", "vga"}

MCDocuments ==
  UNION {{With(d, c) : c \in Changes(Keys)}
           \cup {With(With(d, c), e) : c, e \in Changes(Related)} : d \in {Bundled, Example, Arm}}

MCReread == {Bundled, Arm, With(Example, "timezone" :> "Denver"), With(Bundled, "version" :> Absent)}

=============================================================================
