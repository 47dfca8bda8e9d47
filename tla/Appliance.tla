------------------------------ MODULE Appliance ------------------------------
(***************************************************************************)
(* What the appliance promises its operator, without saying how: a guest   *)
(* is launched, its end is judged, and either the guest is launched again, *)
(* within a limit of consecutive crashes, or the appliance closes down to  *)
(* a rescue shell or to a powered-off host.  AgentLifecycle implements it. *)
(***************************************************************************)
EXTENDS Naturals

VARIABLES
  mode,     \* what the operator sees
  crashes,  \* consecutive abnormal ends of the guest
  limit     \* lifecycle.max_restart_attempts in force

vars == <<mode, crashes, limit>>

Modes == {"ready", "guest", "ended", "closing", "shell", "off"}

Init ==
  /\ mode = "ready"
  /\ crashes = 0
  /\ limit \in Nat

\* A new configuration is only taken up with a clean slate.
Configure ==
  /\ mode = "ready" /\ crashes = 0
  /\ mode' \in {"ready", "closing"}
  /\ crashes' = 0
  /\ limit' \in Nat

Launch ==
  /\ mode = "ready" /\ crashes <= limit
  /\ mode' = "guest"
  /\ UNCHANGED <<crashes, limit>>

\* The guest ends, or could not be launched.
End ==
  /\ mode \in {"ready", "guest"}
  /\ mode' = "ended"
  /\ UNCHANGED <<crashes, limit>>

\* The end was clean, or the crash is one the limit allows.
Again ==
  /\ mode = "ended"
  /\ crashes' \in {0, crashes + 1}
  /\ crashes' <= limit
  /\ mode' = "ready"
  /\ UNCHANGED limit

Close ==
  /\ mode \in {"ready", "ended"}
  /\ mode' = "closing"
  /\ crashes' \in {crashes, crashes + 1}
  /\ UNCHANGED limit

Settle ==
  /\ mode = "closing"
  /\ mode' \in {"shell", "off"}
  /\ UNCHANGED <<crashes, limit>>

\* init starts the agent again; a powered-off host stays off.
Restart ==
  /\ mode # "off"
  /\ mode' = "ready"
  /\ crashes' = 0
  /\ UNCHANGED limit

Next ==
  \/ Configure \/ Launch \/ End \/ Again \/ Close \/ Settle \/ Restart

Spec == Init /\ [][Next]_vars
=============================================================================
