------------------------------- MODULE Journey -------------------------------
(***************************************************************************)
(* The two programs of native-qemu, one after the other: a session with    *)
(* nq-disk (Workbench), and then the appliance that boots with one of its  *)
(* disks (AgentBoot).  What passes between them is the configuration file. *)
(***************************************************************************)
EXTENDS Workbench, AgentBoot

journeyVars == <<vars, bootVars>>

JourneyTypeOK == TypeOK /\ BootTypeOK

JourneyInit == Init /\ BootInit

\* What the appliance finds on disk d.  A text of the user's that the host has
\* accepted is one of the documents it accepts; of any other nothing is known.
Kind(d) ==
  CASE ~disk[d].volume \/ disk[d].config = Missing -> "missing"
    [] disk[d].config = File(Default) -> "default"
    [] disk[d].config.is = "text" /\ disk[d].config # File(Default) /\ Valid(disk[d].config.text) -> "saved"
    [] OTHER -> "foreign"

\* nq-disk has ended, its volume with it, and a disk goes to the appliance.
Carry ==
  /\ screen = "ended"
  /\ \E d \in Disks, any \in BOOLEAN : Begin([is |-> Kind(d), any |-> any])
  /\ disk' = [d \in Disks |-> [gen |-> 0, volume |-> FALSE, config |-> Missing, image |-> "missing"]]
  /\ handle' = NoVolume /\ kept' = FALSE
  /\ next' = "files" /\ ops' = 0 /\ faults' = 0 /\ edits' = 0 /\ searches' = 0
  /\ UNCHANGED <<screen, chosen, opened, mode, lines, cy, cx, dirty, popup, errors, pattern, undo, redo>>

JourneyNext ==
  \/ at = "off" /\ Next /\ UNCHANGED bootVars
  \/ Carry
  \/ BootNext /\ UNCHANGED vars

\* The agent's own thread goes on; users, hooks and the power do as they like.
JourneySpec ==
  /\ JourneyInit /\ [][JourneyNext]_journeyVars
  /\ WF_journeyVars(AgentStep /\ UNCHANGED vars)

=============================================================================
