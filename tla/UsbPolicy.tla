------------------------------ MODULE UsbPolicy ------------------------------
(***************************************************************************)
(* Which USB devices a guest gets (agent/src/usb.rs), from the check for   *)
(* the required ones through the launch of QEMU to its hotplug watcher     *)
(* (main.rs), while devices come and go.  QEMU has one QMP connection, and *)
(* the connector of an earlier guest may take it for its own watcher; how  *)
(* commands go over it is in VmSession.                                    *)
(***************************************************************************)
EXTENDS Naturals, SequencesExt

CONSTANTS
  Ids,         \* vendor and product; several devices may have the same
  RootHub,     \* the one id with ROOT_HUB_VENDOR
  Tables,      \* the [usb] tables to start with
  MaxAddress,  \* devices plugged in, ever; an address is not used twice
  MaxLate      \* watchers of ended guests without a connection that are followed

ASSUME RootHubAssumption    == RootHub \in Ids
ASSUME MaxAddressAssumption == MaxAddress \in Nat
ASSUME MaxLateAssumption    == MaxLate \in Nat

\* normalize: an id as it is written names a device's id, or, in a spelling it
\* does not undo, nothing.
Unknown == "unknown"
Written == Ids \cup {Unknown}

Rule   == [id : Written, required : BOOLEAN]
Table  == [default : {"passthrough", "host-only"}, exclude : SUBSET Written, device : Seq(Rule),
           hotplug : BOOLEAN, on_missing : {"rescue_shell", "boot_anyway"}]

ASSUME TablesAssumption == Tables \subseteq Table

Entry == [id : Ids, addr : 1..MaxAddress]

VARIABLES
  usb,       \* config.usb, with lifecycle.on_missing_resource
  plugged,   \* devices on the host's buses
  fresh,     \* the address the next one gets
  at,        \* how far run_one_vm_lifecycle has come
  passed,    \* usb_devices: the devices on QEMU's command line
  client,    \* whose watcher has QEMU's connection: the guest's own, or a late one
  late,      \* attached sets of watchers of ended guests that have had no connection
  attached,  \* the set of the watcher that is followed, which only grows
  todo,      \* what is left of its scan
  added,     \* devices it has added to the guest, in their order
  seen       \* history: what was plugged in at the check and at the resolution

usbVars == <<usb, plugged, fresh, at, passed, client, late, attached, todo, added, seen>>

watching == <<client, late, attached, todo, added>>

UsbInit ==
  /\ usb \in Tables
  /\ plugged \in {ds \in SUBSET Entry : \A d, e \in ds : d.addr = e.addr => d = e}
  /\ fresh \in 1..(MaxAddress + 1) /\ \A d \in plugged : d.addr < fresh
  /\ at = "check"
  /\ passed = <<>> /\ client = "none" /\ late = {}
  /\ attached = {} /\ todo = {} /\ added = <<>>
  /\ seen = [check |-> {}, launch |-> {}]

-----------------------------------------------------------------------------
(***************************************************************************)
(* The policy.                                                             *)
(***************************************************************************)

\* enumerate_present; that /sys can be read is taken for granted.  No order of
\* the devices is relied on, in /sys or in the result.
Present == {d \in plugged : d.id # RootHub}

ByDefault ==
  IF usb.default = "passthrough" THEN SetToSeq({d \in Present : d.id \notin usb.exclude}) ELSE <<>>

\* Seeded defects: an exclusion holds for listed devices too; a device that is
\* there already is listed again; the first device of an id stands for all.
ListedUnlessExcluded(rule, result) ==
  SetToSeq({d \in Present : d.id = rule.id /\ d.id \notin usb.exclude /\ ~Contains(result, d)})
ListedAgain(rule, result) == SetToSeq({d \in Present : d.id = rule.id})
FirstListed(rule, result) ==
  LET ds == SetToSeq({d \in Present : d.id = rule.id})
  IN IF ds = <<>> \/ Contains(result, Head(ds)) THEN <<>> ELSE <<Head(ds)>>

\* The devices a rule lists that are not in the result yet.
ListedBy(rule, result) == SetToSeq({d \in Present : d.id = rule.id /\ ~Contains(result, d)})

\* The result after the first n rules.
ResolvedBy[n \in 0..Len(usb.device)] ==
  IF n = 0 THEN ByDefault
  ELSE LET result == ResolvedBy[n - 1] IN result \o ListedBy(usb.device[n], result)

Resolve == ResolvedBy[Len(usb.device)]

Missing == {rule \in Range(usb.device) : rule.required /\ \A d \in Present : d.id # rule.id}

-----------------------------------------------------------------------------
(***************************************************************************)
(* One guest.                                                              *)
(***************************************************************************)

CheckRequired ==
  /\ at = "check"
  /\ at' = (IF Missing # {} /\ usb.on_missing = "rescue_shell" THEN "shell" ELSE "prepare")
  /\ seen' = [seen EXCEPT !.check = plugged]
  /\ UNCHANGED <<usb, plugged, fresh, passed, watching>>

\* After the disk has been found, or copied, which takes its time.
ResolveDevices ==
  /\ at = "prepare"
  /\ passed' = Resolve
  /\ at' = "spawn"
  /\ seen' = [seen EXCEPT !.launch = plugged]
  /\ UNCHANGED <<usb, plugged, fresh, watching>>

\* QEMU waits for a device on its command line that is gone.
Spawn ==
  /\ at = "spawn"
  /\ at' = "run" /\ attached' = Range(passed)
  /\ UNCHANGED <<usb, plugged, fresh, passed, client, late, todo, added, seen>>

\* QEMU's one connection goes to the guest's own connector, or to that of an ended
\* guest that is still trying at the same path: then the watcher of that guest, with
\* its own set, is the one that matters, and the guest's own never gets through.
Connect ==
  /\ at = "run" /\ usb.hotplug /\ client = "none"
  /\ \/ client' = "own" /\ UNCHANGED <<late, attached, todo>>
     \/ \E old \in late :
          /\ client' = "late" /\ late' = late \ {old}
          /\ attached' = old /\ todo' = {}
  /\ UNCHANGED <<usb, plugged, fresh, at, passed, added, seen>>

Scan ==
  /\ at = "run" /\ usb.hotplug /\ todo = {}
  /\ todo' = Range(Resolve) \ attached
  /\ UNCHANGED <<usb, plugged, fresh, at, passed, client, late, attached, added, seen>>

\* device_add for one device of the scan; without a connection or when QEMU
\* refuses, the next scan finds it again.
AddDevice ==
  /\ at = "run"
  /\ \E d \in todo :
       /\ todo' = todo \ {d}
       /\ \/ /\ client # "none"
             /\ attached' = attached \cup {d} /\ added' = Append(added, d)
          \/ UNCHANGED <<attached, added>>
  /\ UNCHANGED <<usb, plugged, fresh, at, passed, client, late, seen>>

\* A device that comes back has a new address.
Plug ==
  /\ fresh <= MaxAddress
  /\ \E id \in Ids : plugged' = plugged \cup {[id |-> id, addr |-> fresh]}
  /\ fresh' = fresh + 1
  /\ UNCHANGED <<usb, at, passed, watching, seen>>

Unplug ==
  /\ \E d \in plugged : plugged' = plugged \ {d}
  /\ UNCHANGED <<usb, fresh, at, passed, watching, seen>>

\* The arguments cannot be built, or QEMU not started: a fatal error.
LaunchFails ==
  /\ at = "spawn"
  /\ at' = "shell"
  /\ UNCHANGED <<usb, plugged, fresh, passed, watching, seen>>

GuestEnds ==
  /\ at = "run"
  /\ at' = "ended"
  /\ UNCHANGED <<usb, plugged, fresh, passed, watching, seen>>

\* No thread is stopped when a guest has ended: its watcher keeps its set, and its
\* connector goes on until it has a connection or gives up.
KeepLate ==
  LET own == IF usb.hotplug /\ client # "own" THEN {Range(passed)} ELSE {}
  IN \E ls \in SUBSET (late \cup own) : Cardinality(ls) <= MaxLate /\ late' = ls

NextGuest ==
  /\ at' = "check"
  /\ passed' = <<>> /\ client' = "none" /\ attached' = {} /\ todo' = {} /\ added' = <<>>
  /\ seen' = [check |-> {}, launch |-> {}]
  /\ UNCHANGED <<usb, plugged, fresh>>

AnotherGuest == at = "ended" /\ KeepLate /\ NextGuest

\* The threads of an agent end with it.
AnotherAgent == late' = {} /\ NextGuest

-----------------------------------------------------------------------------
(***************************************************************************)
(* Properties.                                                             *)
(***************************************************************************)

\* "boot aborts to rescue shell if missing" (plan.md:108): a guest that is
\* launched has every required device, whatever the default and the exclusions
\* say, unless what the check saw was pulled out before the devices were
\* resolved (main.rs:212-254).
RequiredReaches ==
  at \in {"spawn", "run"} /\ usb.on_missing = "rescue_shell" =>
    \A rule \in Range(usb.device) :
      rule.required => \E d \in Range(passed) \cup (seen.check \ seen.launch) : d.id = rule.id

\* No device is given to QEMU twice, which would take it from itself: not by two
\* rules, nor by the default and a rule, nor by a watcher in two scans, nor by the
\* guest's own watcher after it was on the command line (usb.rs:96-113,
\* main.rs:344-366).  Only the watcher of an ended guest that got the connection
\* may give what the command line has, having started from another guest's.
OnceEach ==
  /\ IsInjective(passed) /\ IsInjective(added)
  /\ client # "late" => IsInjective(passed \o added)

Listed(d) == \E rule \in Range(usb.device) : rule.id = d.id

\* The guest has only what the policy gives it, and of devices that look the same
\* (usb.rs:14-16) QEMU is started with all or none.
PolicyKept ==
  /\ \A d \in Range(passed \o added) :
       /\ d.id # RootHub
       /\ Listed(d) \/ (usb.default = "passthrough" /\ d.id \notin usb.exclude)
  /\ \A d \in Range(passed), e \in seen.launch : e.id = d.id => e \in Range(passed)

=============================================================================
