------------------------------- MODULE Schema -------------------------------
(***************************************************************************)
(* One config.toml, two programs that judge it: the editor's               *)
(* validate_config_text (tools/nq-disk/src/schema.rs) and the agent's      *)
(* load and validate (agent/src/config.rs); and the QEMU command line the  *)
(* agent builds of it (qemu.rs).  A document gives a value to each key.    *)
(* Values that no rule tells apart are one: "glide" stands for every 3dfx  *)
(* mode, Other for a string nothing allows, Wrong for a value of another   *)
(* type, "unchecked" for the settings only the agent looks at: usb, hooks, *)
(* lifecycle, smb, docs_server, shared_folder, logging, sound.model.       *)
(***************************************************************************)
EXTENDS Naturals, FiniteSets

CONSTANTS
  Names,     \* well-formed names of time zones
  HostZones  \* those nq-disk takes: its machine's zoneinfo and the list built in

Absent == "absent"
Other  == "another string"
Wrong  == "another type"

ASSUME NamesAssumption ==
  HostZones \subseteq Names /\ Names \cap {"auto", "empty", Absent, Other, Wrong} = {}

\* What a key may be set to; sizes and counts are positive or zero.  A size so
\* large that its product wraps to 0 is a zero to both programs.
Allowed ==
  [version |-> {"1", "2"}, vm |-> {"table"}, disk |-> {"table"},
   arch |-> {"x86_64", "aarch64"}, firmware |-> {"bios", "uefi"}, machine |-> {"pc", "q35"},
   memory |-> {"positive", "zero"}, vcpus |-> {"positive", "zero"},
   storage |-> {"number"}, path |-> {"name", "empty"},
   format |-> {"raw", "qcow2"}, bus |-> {"ide", "virtio", "scsi"},
   mode |-> {"user", "bridge", "macvtap"}, bridge_iface |-> {"name", "empty"},
   backend |-> {"sdl", "none"}, vga |-> {"VGA", "virtio"}, passthrough |-> {"none", "glide"},
   sound |-> {"alsa", "pipewire"}, timezone |-> Names \cup {"auto", "empty"},
   rtc_base |-> {"localtime", "utc"}, unchecked |-> {"good"}]

Keys     == DOMAIN Allowed
Options  == [k \in Keys |-> Allowed[k] \cup {Absent, Other, Wrong}]
Document == {d \in [Keys -> UNION {Options[k] : k \in Keys}] : \A k \in Keys : d[k] \in Options[k]}

\* The default a stick is given.
Bundled ==
  [version |-> "1", vm |-> "table", disk |-> "table",
   arch |-> "x86_64", firmware |-> "bios", machine |-> "pc",
   memory |-> "positive", vcpus |-> "positive",
   storage |-> "number", path |-> "name", format |-> "qcow2", bus |-> "ide",
   mode |-> "user", bridge_iface |-> Absent,
   backend |-> "sdl", vga |-> "VGA", passthrough |-> "glide",
   sound |-> "alsa", timezone |-> "auto", rtc_base |-> "localtime", unchecked |-> "good"]

\* d with the keys of c set as c has them.
With(d, c) == [k \in Keys |-> IF k \in DOMAIN c THEN c[k] ELSE d[k]]

\* The example in the image, the last candidate of a boot.
Example ==
  With(Bundled, [machine |-> "q35", format |-> "raw", bus |-> "virtio",
                 bridge_iface |-> "name", passthrough |-> "none"])

-----------------------------------------------------------------------------
(***************************************************************************)
(* The host: what is said is checked, what is left out is not.             *)
(***************************************************************************)

\* check_one_of
OneOf(d, k, allowed) == d[k] \in allowed \cup {Absent, Wrong}

Wants3dfx(d) == d.passthrough = "glide"

HostRefuses3dfx(d) ==
  Wants3dfx(d) /\ \/ d.backend \notin {"sdl", Absent, Wrong}
                  \/ d.machine # "pc"
                  \/ d.arch \notin {"x86_64", Absent, Wrong}

\* Zones are the host's, not the appliance's.
HostAccepts(d) ==
  /\ d.version \in {"1", Absent}
  /\ d.vm = "table" /\ d.disk = "table"
  /\ \A k \in {"arch", "firmware", "machine", "format", "bus", "mode", "backend",
               "passthrough", "sound", "rtc_base"} : OneOf(d, k, Allowed[k])
  /\ d.memory # Other
  /\ d.path \in {"name", Other}
  /\ OneOf(d, "vga", {"VGA"})
  /\ d.timezone \in HostZones \cup {"auto", Absent, Wrong}
  /\ ~HostRefuses3dfx(d)

-----------------------------------------------------------------------------
(***************************************************************************)
(* The agent: serde first, defaults for what is left out, then validate.   *)
(***************************************************************************)

Required == {"vm", "disk", "arch", "storage", "path"}

\* Values of the right type; numbers and tables have no other strings.
Parses(d) ==
  /\ \A k \in Required : d[k] # Absent
  /\ \A k \in Keys : d[k] # Wrong
  /\ \A k \in {"version", "vm", "disk", "vcpus", "storage"} : d[k] # Other

AgentDefault ==
  [version |-> "0", firmware |-> "bios", machine |-> "q35", memory |-> "positive",
   vcpus |-> "positive", format |-> "qcow2", bus |-> "virtio", mode |-> "user",
   bridge_iface |-> "empty", backend |-> "sdl", vga |-> "VGA", passthrough |-> "none",
   sound |-> "alsa", timezone |-> "auto", rtc_base |-> "localtime", unchecked |-> "good"]

Filled(d) == [k \in Keys |-> IF d[k] = Absent /\ k \notin Required THEN AgentDefault[k] ELSE d[k]]

\* Seeded defect: any machine will do.
AgentRefuses3dfxByScreen(d) ==
  LET s == Filled(d)
  IN Wants3dfx(s) /\ (s.backend # "sdl" \/ s.arch # "x86_64")

AgentRefuses3dfx(d) ==
  LET s == Filled(d)
  IN Wants3dfx(s) /\ (s.backend # "sdl" \/ s.arch # "x86_64" \/ s.machine # "pc")

\* zones: what is installed on the appliance.  Where tzdata is missing, and zones
\* is empty, every well-formed name will do.
Validates(d, zones) ==
  LET s == Filled(d)
  IN /\ \A k \in {"arch", "firmware", "format", "bus", "mode", "backend", "vga", "passthrough",
                  "sound", "rtc_base"} : s[k] \in Allowed[k]
     /\ s.arch = "x86_64" => s.machine \in Allowed.machine
     /\ s.memory = "positive" /\ s.vcpus = "positive"
     /\ s.arch = "aarch64" => s.firmware = "uefi" /\ s.bus # "ide"
     /\ s.mode \in {"bridge", "macvtap"} => s.bridge_iface \in {"name", Other}
     /\ ~AgentRefuses3dfx(d)
     /\ s.unchecked = "good"
     /\ s.timezone \in {"auto"} \cup (IF zones = {} THEN Names ELSE zones)

AgentAccepts(d, zones) == Parses(d) /\ Filled(d).version = "1" /\ Validates(d, zones)

-----------------------------------------------------------------------------
(***************************************************************************)
(* The command line.                                                       *)
(***************************************************************************)

Machine(s) == IF s.arch = "aarch64" THEN "virt" ELSE s.machine

\* What the options define, the machine's own buses included, and what devices
\* refer to.  virtiofs: the shared folder is on.
Defines(s, virtiofs) ==
  {"drive0", "net0", "usb-bus0"}
    \cup (IF Machine(s) \in {"pc", "q35"} THEN {"ide.0"} ELSE {})
    \cup (IF s.bus = "scsi" THEN {"scsi0"} ELSE {})
    \cup (IF virtiofs THEN {"mem", "charfs0"} ELSE {})

Refers(s, virtiofs) ==
  {"drive0", "net0", "usb-bus0"}
    \cup (CASE s.bus = "scsi" -> {"scsi0"} [] s.bus = "ide" -> {"ide.0"} [] OTHER -> {})
    \cup (IF virtiofs THEN {"mem", "charfs0"} ELSE {})

\* Firmware drives: the virt machine has no other firmware than UEFI.
FirmwareDrives(s) == s.arch = "aarch64" \/ s.firmware = "uefi"

Display(s) == IF s.backend = "sdl" \/ Wants3dfx(s) THEN "sdl,gl=off" ELSE "none"
Hpet(s)    == IF Wants3dfx(s) /\ Machine(s) = "pc" THEN "off" ELSE "on"

-----------------------------------------------------------------------------
(***************************************************************************)
(* What the two programs agree on.                                         *)
(***************************************************************************)

\* What the agent refuses of a document the host has accepted.
Gaps(d, zones) ==
  LET s == Filled(d)
  IN \/ ~Parses(d)                             \* another type, or a key left out
     \/ s.version = "0"                        \* no version
     \/ "zero" \in {s.memory, s.vcpus}
     \/ s.arch = "aarch64" /\ (s.firmware = "bios" \/ s.bus = "ide")
     \/ s.mode # "user" /\ s.bridge_iface = "empty"
     \/ s.unchecked # "good"
     \/ zones # {} /\ s.timezone \notin zones \cup {"auto"} \* the host's, not installed

\* What the host refuses of a document the agent accepts.
Wider(d) ==
  \/ d.vga = "virtio"
  \/ d.path = "empty"
  \/ d.arch = "aarch64" /\ d.machine = Other
  \/ d.timezone \notin HostZones \cup {"auto", Absent}

Agree(d, zones) ==
  /\ Parses(d) => (HostRefuses3dfx(d) <=> AgentRefuses3dfx(d))
  /\ HostAccepts(d) => (AgentAccepts(d, zones) <=> ~Gaps(d, zones))
  /\ AgentAccepts(d, zones) /\ ~HostAccepts(d) => Wider(d)

\* QEMU is given what it needs: every device's bus, drive and channel is defined,
\* and 3dfx has the machine, the timer and the screen its devices are made for.
ArgumentsFit(d) ==
  LET s == Filled(d)
  IN /\ \A virtiofs \in BOOLEAN : Refers(s, virtiofs) \subseteq Defines(s, virtiofs)
     /\ Wants3dfx(s) => /\ Machine(s) = "pc" /\ Hpet(s) = "off"
                        /\ s.backend = "sdl" /\ Display(s) = "sdl,gl=off"
     /\ Machine(s) = "virt" => FirmwareDrives(s) /\ s.firmware = "uefi"

=============================================================================
