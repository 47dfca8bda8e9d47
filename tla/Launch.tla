------------------------------- MODULE Launch -------------------------------
(***************************************************************************)
(* run_one_vm_lifecycle from its USB check to the end of the guest         *)
(* (agent/src/main.rs): the devices of UsbPolicy are resolved before the   *)
(* services of RuntimeServices are started, QEMU is started with both, and *)
(* the services go with the guest.  Meanwhile devices come and go.         *)
(***************************************************************************)
EXTENDS UsbPolicy, RuntimeServices

CONSTANT Together  \* the services' configurations that are tried with a [usb] table

ASSUME TogetherAssumption == Together \in [Tables -> SUBSET Configs]

launchVars == <<vars, usbVars>>

LaunchInit ==
  /\ UsbInit
  /\ cfg \in Together[usb] /\ Init

Prepare == (CheckRequired \/ ResolveDevices) /\ UNCHANGED vars

StartServices ==
  /\ at = "spawn"
  /\ \/ Skip \/ StartDaemon \/ DaemonFails
     \/ EnsureAccounts \/ AccountsFail
     \/ StartMacvtap \/ MacvtapFails \/ Fail
  /\ UNCHANGED usbVars

\* child.wait() returns, or build_args or the launch has failed.
End == (GuestEnds \/ LaunchFails) /\ Stop

LaunchNext ==
  \/ Prepare \/ StartServices
  \/ stage = "up" /\ Spawn /\ UNCHANGED vars
  \/ (Connect \/ Scan \/ AddDevice) /\ UNCHANGED vars
  \/ End
  \/ StartAgain /\ AnotherGuest
  \/ agent < MaxAgents /\ cfg' \in Together[usb] /\ NextAgent /\ AnotherAgent
  \/ (DaemonDies \/ Listen) /\ UNCHANGED usbVars
  \/ (Plug \/ Unplug) /\ UNCHANGED vars

LaunchSpec == LaunchInit /\ [][LaunchNext]_launchVars

=============================================================================
