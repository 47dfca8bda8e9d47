---------------------------- MODULE JourneyProofs ----------------------------
(***************************************************************************)
(* Proofs about both programs, for every text, document, number of disks,  *)
(* length of the rotation and bound of the sessions.  JourneyInv is the    *)
(* inductive invariant: DeskInv for nq-disk, of which EditorInv is a part, *)
(* BootInv for the boot of the appliance, and LogsInOrder.  First the two  *)
(* validators are compared, key by key; then come the boot, the wizard,    *)
(* and the theorems.                                                       *)
(***************************************************************************)
EXTENDS Journey, EditorProofs

-----------------------------------------------------------------------------
(***************************************************************************)
(* The two validators.                                                     *)
(***************************************************************************)

\* The keys of a document.

LEMMA KeysAre ==
  Keys = {"version", "vm", "disk", "arch", "firmware", "machine", "memory", "vcpus",
          "storage", "path", "format", "bus", "mode", "bridge_iface", "backend", "vga",
          "passthrough", "sound", "timezone", "rtc_base", "unchecked"}
BY DEF Keys, Allowed

\* Each key has its allowed values, and three that are none of them.
LEMMA OptionsAre ==
  ASSUME NEW k \in Keys
  PROVE  Options[k] = Allowed[k] \cup {Absent, Other, Wrong}
BY DEF Options

\* What is filled in for a document the agent can parse.
LEMMA FilledIs ==
  ASSUME NEW d, Parses(d)
  PROVE  /\ Filled(d).arch = d.arch /\ Filled(d).vm = d.vm /\ Filled(d).disk = d.disk
         /\ Filled(d).storage = d.storage /\ Filled(d).path = d.path
         /\ \A k \in Keys \ Required :
              Filled(d)[k] = IF d[k] = Absent THEN AgentDefault[k] ELSE d[k]
BY KeysAre DEF Filled, Required, Parses

\* Host and agent agree when 3dfx passthrough is to be refused.
LEMMA Same3dfx ==
  ASSUME NEW d, Parses(d)
  PROVE  HostRefuses3dfx(d) <=> AgentRefuses3dfx(d)
<1>. DEFINE s == Filled(d)
<1>1. /\ s.passthrough = IF d.passthrough = Absent THEN "none" ELSE d.passthrough
      /\ s.backend = IF d.backend = Absent THEN "sdl" ELSE d.backend
      /\ s.machine = IF d.machine = Absent THEN "q35" ELSE d.machine
      /\ s.arch = d.arch
  BY FilledIs, KeysAre DEF AgentDefault, Required
<1>2. /\ d.backend # Wrong /\ d.arch # Wrong /\ d.machine # Wrong /\ d.passthrough # Wrong
      /\ d.arch # Absent
  BY KeysAre DEF Parses, Required
<1>. HIDE DEF s
<1>. QED
  BY <1>1, <1>2 DEF HostRefuses3dfx, AgentRefuses3dfx, Wants3dfx, Absent, s

\* A configuration the agent accepts makes a command line QEMU can take.
LEMMA ArgumentsAreFit ==
  ASSUME NEW d, NEW zones, \A k \in Keys : d[k] \in Options[k], AgentAccepts(d, zones)
  PROVE  ArgumentsFit(d)
<1>. DEFINE s == Filled(d)
<1>1. /\ s.arch = d.arch /\ s.arch \in {"x86_64", "aarch64"}
      /\ s.arch = "x86_64" => s.machine \in {"pc", "q35"}
      /\ s.arch = "aarch64" => s.firmware = "uefi" /\ s.bus # "ide"
      /\ ~AgentRefuses3dfx(d)
  BY FilledIs DEF AgentAccepts, Validates, Allowed
<1>2. ASSUME Wants3dfx(s) PROVE Machine(s) = "pc" /\ Hpet(s) = "off" /\ s.backend = "sdl" /\ Display(s) = "sdl,gl=off"
  BY <1>1, <1>2 DEF AgentRefuses3dfx, Machine, Hpet, Display
<1>3. Machine(s) = "virt" => FirmwareDrives(s) /\ s.firmware = "uefi"
  BY <1>1 DEF FirmwareDrives, Machine
<1>4. ASSUME NEW virtiofs \in BOOLEAN PROVE Refers(s, virtiofs) \subseteq Defines(s, virtiofs)
  BY <1>1 DEF Refers, Defines, Machine
<1> QED
  BY <1>2, <1>3, <1>4 DEF ArgumentsFit

\* What the agent's acceptance says of each key.
LEMMA AcceptedKeys ==
  ASSUME NEW d, NEW zones, \A k \in Keys : d[k] \in Options[k], AgentAccepts(d, zones)
  PROVE  /\ Parses(d) /\ d.version = "1" /\ d.vm = "table" /\ d.disk = "table"
         /\ \A k \in {"firmware", "format", "bus", "mode", "backend", "passthrough", "sound", "rtc_base"} :
              OneOf(d, k, Allowed[k])
         /\ OneOf(d, "arch", Allowed["arch"])
         /\ d.vga \in {"VGA", "virtio", Absent}
         /\ d.memory # Other
         /\ d.path \in {"name", "empty", Other}
         /\ d.machine \in {"pc", "q35", Absent} \/ (d.arch = "aarch64" /\ d.machine = Other)
<1>. DEFINE s == Filled(d)
<1>1. Parses(d) /\ s.version = "1" /\ Validates(d, zones)
  BY DEF AgentAccepts
<1>2. \A k \in Keys : d[k] # Wrong
  BY <1>1 DEF Parses
<1>3. d.version = "1"
  BY <1>1, FilledIs, KeysAre DEF AgentDefault, Required
<1>4. d.vm = "table" /\ d.disk = "table"
  BY <1>1, KeysAre, OptionsAre DEF Parses, Required, Allowed
<1>5. ASSUME NEW k \in {"firmware", "format", "bus", "mode", "backend", "passthrough", "sound", "rtc_base"}
      PROVE  OneOf(d, k, Allowed[k])
  <2>1. s[k] \in Allowed[k]
    BY <1>1 DEF Validates
  <2>2. s[k] = IF d[k] = Absent THEN AgentDefault[k] ELSE d[k]
    BY <1>1, FilledIs, KeysAre DEF Required
  <2>. QED
    BY <2>1, <2>2 DEF OneOf
<1>6. OneOf(d, "arch", Allowed["arch"]) /\ d.arch \in {"x86_64", "aarch64"}
  BY <1>1, FilledIs DEF OneOf, Validates, Allowed
<1>7. d.vga \in {"VGA", "virtio", Absent}
  <2>1. s.vga \in {"VGA", "virtio"}
    BY <1>1 DEF Validates, Allowed
  <2>. QED
    BY <1>1, <2>1, FilledIs, KeysAre DEF Required
<1>8. d.memory # Other
  <2>1. s.memory = "positive"
    BY <1>1 DEF Validates
  <2>. QED
    BY <1>1, <2>1, FilledIs, KeysAre DEF Required, Other, Absent
<1>9. d.path \in {"name", "empty", Other}
  BY <1>1, <1>2, KeysAre, OptionsAre DEF Parses, Required, Allowed
<1>10. d.machine \in {"pc", "q35", Absent} \/ (d.arch = "aarch64" /\ d.machine = Other)
  <2>1. d.machine \in {"pc", "q35", Absent, Other}
    BY <1>2, KeysAre, OptionsAre DEF Allowed
  <2>2. d.arch = "x86_64" => s.machine \in {"pc", "q35"}
    BY <1>1, FilledIs DEF Validates, Allowed
  <2>3. s.machine = IF d.machine = Absent THEN "q35" ELSE d.machine
    BY <1>1, FilledIs, KeysAre DEF Required, AgentDefault
  <2>. QED
    BY <1>6, <2>1, <2>2, <2>3 DEF Other, Absent
<1>. QED
  BY <1>1, <1>3, <1>4, <1>5, <1>6, <1>7, <1>8, <1>9, <1>10

\* What the host refuses of it.
LEMMA OnlyWider ==
  ASSUME NEW d, NEW zones, \A k \in Keys : d[k] \in Options[k], AgentAccepts(d, zones), ~HostAccepts(d)
  PROVE  Wider(d)
<1>. SUFFICES ASSUME ~Wider(d) PROVE HostAccepts(d)
  OBVIOUS
<1>0. /\ d.vga # "virtio" /\ d.path # "empty" /\ ~(d.arch = "aarch64" /\ d.machine = Other)
      /\ d.timezone \in HostZones \cup {"auto", Absent}
  BY DEF Wider
<1>1. ~HostRefuses3dfx(d)
  BY AcceptedKeys, Same3dfx DEF AgentAccepts, Validates
<1>2. \A k \in {"arch", "firmware", "machine", "format", "bus", "mode", "backend",
                "passthrough", "sound", "rtc_base"} : OneOf(d, k, Allowed[k])
  <2>1. OneOf(d, "machine", Allowed["machine"])
    BY <1>0, AcceptedKeys DEF OneOf, Allowed
  <2>. QED
    BY <2>1, AcceptedKeys
<1>3. OneOf(d, "vga", {"VGA"})
  BY <1>0, AcceptedKeys DEF OneOf
<1>4. d.path \in {"name", Other}
  BY <1>0, AcceptedKeys
<1>. QED
  BY <1>0, <1>1, <1>2, <1>3, <1>4, AcceptedKeys DEF HostAccepts

\* What the agent refuses of what the host accepts.
LEMMA OnlyGaps ==
  ASSUME NEW d, NEW zones, \A k \in Keys : d[k] \in Options[k], HostAccepts(d)
  PROVE  AgentAccepts(d, zones) <=> ~Gaps(d, zones)
<1>. DEFINE s == Filled(d)
<1>1. ASSUME AgentAccepts(d, zones) PROVE ~Gaps(d, zones)
  <2>1. Parses(d) /\ s.version = "1" /\ Validates(d, zones)
    BY <1>1 DEF AgentAccepts
  <2>2. s.mode \in {"user", "bridge", "macvtap"}
    BY <2>1 DEF Validates, Allowed
  <2>4. zones # {} => s.timezone \in zones \cup {"auto"}
    BY <2>1 DEF Validates
  <2>5. /\ s.memory = "positive" /\ s.vcpus = "positive"
        /\ s.arch = "aarch64" => s.firmware = "uefi" /\ s.bus # "ide"
        /\ s.mode \in {"bridge", "macvtap"} => s.bridge_iface \in {"name", Other}
        /\ s.unchecked = "good"
    BY <2>1 DEF Validates
  <2>. HIDE DEF s
  <2>6. ~("zero" \in {s.memory, s.vcpus})
    BY <2>5
  <2>7. ~(s.mode # "user" /\ s.bridge_iface = "empty")
    BY <2>2, <2>5 DEF Other
  <2>. QED
    BY <2>1, <2>4, <2>5, <2>6, <2>7 DEF Gaps, s
<1>2. ASSUME ~Gaps(d, zones) PROVE AgentAccepts(d, zones)
  <2>1. /\ Parses(d) /\ s.version # "0"
        /\ s.memory # "zero" /\ s.vcpus # "zero"
        /\ s.arch = "aarch64" => s.firmware # "bios" /\ s.bus # "ide"
        /\ s.mode # "user" => s.bridge_iface # "empty"
        /\ s.unchecked = "good"
        /\ zones # {} => s.timezone \in zones \cup {"auto"}
    BY <1>2 DEF Gaps
  <2>2. \A k \in Keys \ Required : s[k] = IF d[k] = Absent THEN AgentDefault[k] ELSE d[k]
    BY <2>1, FilledIs
  <2>3. \A k \in Keys : d[k] # Wrong
    BY <2>1 DEF Parses
  <2>4. s.version = "1"
    BY <2>1, <2>2, KeysAre DEF HostAccepts, Required, AgentDefault
  <2>5. ASSUME NEW k \in {"firmware", "machine", "format", "bus", "mode", "backend",
                         "passthrough", "sound", "rtc_base"}
        PROVE  s[k] \in Allowed[k]
    <3>1. d[k] \in Allowed[k] \cup {Absent}
      BY <2>3, KeysAre DEF HostAccepts, OneOf
    <3>2. AgentDefault[k] \in Allowed[k]
      BY DEF AgentDefault, Allowed
    <3>. QED
      BY <2>2, <3>1, <3>2, KeysAre DEF Required
  <2>6. s.arch = d.arch /\ d.arch \in {"x86_64", "aarch64"}
    BY <2>1, <2>3, FilledIs, KeysAre DEF HostAccepts, OneOf, Parses, Required, Allowed
  <2>7. s.vga = "VGA"
    BY <2>2, <2>3, KeysAre DEF HostAccepts, OneOf, Required, AgentDefault
  <2>8. s.memory = "positive"
    <3>1. d.memory \in {"positive", "zero", Absent}
      BY <2>3, KeysAre, OptionsAre DEF HostAccepts, Allowed
    <3>. QED
      BY <2>1, <2>2, <3>1, KeysAre DEF Required, AgentDefault
  <2>9. s.vcpus = "positive"
    <3>1. d.vcpus \in {"positive", "zero", Absent}
      BY <2>1, <2>3, KeysAre, OptionsAre DEF Parses, Allowed
    <3>. QED
      BY <2>1, <2>2, <3>1, KeysAre DEF Required, AgentDefault
  <2>10. s.bridge_iface \in {"name", "empty", Other}
    <3>1. d.bridge_iface \in {"name", "empty", Absent, Other}
      BY <2>3, KeysAre, OptionsAre DEF Allowed
    <3>. QED
      BY <2>2, <3>1, KeysAre DEF Required, AgentDefault
  <2>11. s.timezone \in {"auto"} \cup (IF zones = {} THEN Names ELSE zones)
    <3>1. d.timezone \in Names \cup {"auto", Absent}
      BY <2>3, KeysAre, NamesAssumption DEF HostAccepts
    <3>. QED
      BY <2>1, <2>2, <3>1, KeysAre DEF Required, AgentDefault
  <2>12. ~AgentRefuses3dfx(d)
    BY <2>1, Same3dfx DEF HostAccepts
  <2>13. s.arch = "aarch64" => s.firmware = "uefi"
    <3>1. s.firmware \in {"bios", "uefi"}
      BY <2>5 DEF Allowed
    <3>. QED
      BY <2>1, <3>1
  <2>14. Validates(d, zones)
    <3>1. \A k \in {"arch", "firmware", "format", "bus", "mode", "backend", "vga", "passthrough",
                  "sound", "rtc_base"} : s[k] \in Allowed[k]
      <4>1. s.arch \in Allowed.arch /\ s.vga \in Allowed.vga
        BY <2>6, <2>7 DEF Allowed
      <4>. QED
        BY <2>5, <4>1
    <3>2. s.machine \in Allowed.machine
      BY <2>5
    <3>3. s.mode \in {"bridge", "macvtap"} => s.bridge_iface \in {"name", Other}
      BY <2>1, <2>10
    <3>. HIDE DEF s
    <3>. QED
      BY <2>1, <2>8, <2>9, <2>11, <2>12, <2>13, <3>1, <3>2, <3>3 DEF Validates, s
  <2>. QED
    BY <2>1, <2>4, <2>14 DEF AgentAccepts
<1>. QED
  BY <1>1, <1>2

\* Every document, whatever it sets its keys to.
LEMMA EveryDocument ==
  ASSUME NEW d \in Document, NEW zones
  PROVE  Agree(d, zones) /\ (AgentAccepts(d, zones) => ArgumentsFit(d))
<1>1. \A k \in Keys : d[k] \in Options[k]
  BY DEF Document
<1>2. Parses(d) => (HostRefuses3dfx(d) <=> AgentRefuses3dfx(d))
  BY Same3dfx
<1>3. HostAccepts(d) => (AgentAccepts(d, zones) <=> ~Gaps(d, zones))
  BY <1>1, OnlyGaps
<1>4. AgentAccepts(d, zones) /\ ~HostAccepts(d) => Wider(d)
  BY <1>1, OnlyWider
<1>5. AgentAccepts(d, zones) => ArgumentsFit(d)
  BY <1>1, ArgumentsAreFit
<1>. QED
  BY <1>2, <1>3, <1>4, <1>5 DEF Agree

-----------------------------------------------------------------------------
(***************************************************************************)
(* The boot.                                                               *)
(***************************************************************************)

\* A rotation under way: unless a rename has failed, the number the next log
\* is renamed to is free, but for the greatest one.
Shifting ==
  at = "shift" => shift < Rotate /\ (~slipped /\ shift + 1 < Rotate => logs[shift + 1] = 0)

BootInv == BootTypeOK /\ Shifting

Files == [is : {"missing", "default", "saved", "foreign"}, any : BOOLEAN]

BootStep == BootNext \/ (\E file \in Files : Begin(file)) \/ UNCHANGED bootVars

\* The documents that are shipped, tried and read again are documents.
LEMMA DocumentsAre ==
  Bundled \in Document /\ Example \in Document /\ Documents \subseteq Document /\ Reread \subseteq Document
BY DocumentsAssumption

\* Every step of the agent keeps the invariant of the boot.
LEMMA StepBoot ==
  ASSUME BootInv, BootStep
  PROVE  BootInv'
<1>. USE BootBoundsAssumption, ZonesAssumption DEF BootInv, BootTypeOK, Shifting
<1>1. CASE \E file \in Files : Begin(file)
  BY <1>1 DEF Begin, Files, etcVars
<1>2. CASE TurnOn
  <2>1. doc' \in Document \cup {NoDoc}
    BY <1>2, DocumentsAre DEF TurnOn, Says
  <2>. QED
    BY <1>2, <2>1 DEF TurnOn, etcVars, logVars
<1>3. CASE PassOver
  BY <1>3 DEF PassOver, Error, etcVars, logVars
<1>4. CASE Load
  <2>1. doc' \in Document /\ doc' # NoDoc
    BY <1>4, DocumentsAre DEF Load, Candidates, Readable
  <2>. QED
    BY <1>4, <2>1 DEF Load, etcVars, logVars
<1>5. CASE NoneLoads
  BY <1>5 DEF NoneLoads, readVars, etcVars, logVars
<1>6. CASE Validate
  <2>1. CASE AgentAccepts(doc, Installed)
    <3>1. settings' = [zone |-> Filled(doc).timezone, fits |-> doc.arch = HostArch]
      BY <1>6, <2>1 DEF Validate
    <3>2. settings'.zone \in Names \cup {AutoZone} /\ settings'.fits \in BOOLEAN
      <4>1. Filled(doc).timezone \in Names \cup {AutoZone}
        BY <2>1 DEF AgentAccepts, Validates, Installed, AutoZone
      <4>. QED
        BY <3>1, <4>1
    <3>3. at' = "zone" /\ doc' = NoDoc
      BY <1>6, <2>1 DEF Validate
    <3>. QED
      BY <1>6, <3>2, <3>3 DEF Validate, etcVars, logVars
  <2>2. CASE ~AgentAccepts(doc, Installed)
    BY <1>6, <2>2 DEF Validate, etcVars, logVars
  <2>. QED
    BY <2>1, <2>2
<1>0. ASSUME Error PROVE errs' \in 0..MaxErrors
  BY <1>0 DEF Error
<1>7. CASE Resolve
  <2>1. Detected \in Names
    BY DEF Detected, Installed
  <2>2. target' \in Names \cup {NoZone}
    BY <1>7, <2>1 DEF Resolve
  <2>3. errs' \in 0..MaxErrors /\ at' = "name"
    BY <1>0, <1>7 DEF Resolve
  <2>. QED
    BY <1>7, <2>2, <2>3 DEF Resolve, readVars, etcVars, logVars
<1>8. CASE WriteName
  <2>1. name' \in Names \cup {NoZone} /\ errs' \in 0..MaxErrors /\ at' = "stage"
    BY <1>0, <1>8 DEF WriteName
  <2>. QED
    BY <1>8, <2>1 DEF WriteName, readVars, logVars
<1>17. CASE ZoneFails
  <2>1. at' \in {"log", "shell"} /\ errs' \in 0..MaxErrors
    BY <1>0, <1>17 DEF ZoneFails
  <2>. QED
    BY <1>17, <2>1 DEF ZoneFails, readVars, etcVars, logVars
<1>18. CASE Stage
  BY <1>18 DEF Stage, readVars, etcVars, logVars
<1>9. CASE Install
  <2>1. link'.zone \in Names \cup {NoZone} /\ link'.named \in BOOLEAN
    <3>1. target \in Names \cup {NoZone}
      OBVIOUS
    <3>2. CASE link' = Link(target)
      BY <3>1, <3>2 DEF Link
    <3>3. CASE link' = Copy(target)
      BY <3>1, <3>3 DEF Copy
    <3>. QED
      BY <1>9, <3>2, <3>3 DEF Install
  <2>2. errs' \in 0..MaxErrors
    BY <1>0, <1>9 DEF Install
  <2>. QED
    BY <1>9, <2>1, <2>2 DEF Install, readVars, logVars
<1>19. CASE SetTZ
  BY <1>19 DEF SetTZ, readVars, logVars
<1>10. CASE LogElsewhere \/ NoRotation
  BY <1>10 DEF LogElsewhere, NoRotation, readVars, etcVars, logVars
<1>11. CASE RemoveOldest
  <2>1. logs' \in [0..Rotate -> 0..born] /\ errs' \in 0..MaxErrors
    BY <1>0, <1>11 DEF RemoveOldest
  <2>2. at' = "shift" /\ shift' = Rotate - 1 /\ (shift' + 1 < Rotate => logs'[shift' + 1] = 0)
    BY <1>11 DEF RemoveOldest
  <2>. QED
    BY <1>11, <2>1, <2>2 DEF RemoveOldest, readVars, etcVars
<1>12. CASE ShiftLog
  <2>1. shift \in 0..Rotate /\ shift + 1 \in 0..Rotate /\ shift < Rotate
    BY <1>12 DEF ShiftLog
  <2>2. logs' \in [0..Rotate -> 0..born]
    <3>1. logs[shift] \in 0..born /\ 0 \in 0..born
      BY <2>1
    <3>2. [logs EXCEPT ![shift + 1] = logs[shift], ![shift] = 0] \in [0..Rotate -> 0..born]
      BY <2>1, <3>1
    <3>. QED
      BY <1>12, <3>2 DEF ShiftLog
  <2>3. errs' \in 0..MaxErrors /\ slipped' \in BOOLEAN
    BY <1>0, <1>12 DEF ShiftLog
  <2>4. shift' \in 0..Rotate /\ at' \in {"shift", "open"}
    BY <1>12, <2>1 DEF ShiftLog
  <2>5. Shifting'
    <3>1. at' = "shift" => shift # 0 /\ shift' = shift - 1
      BY <1>12 DEF ShiftLog
    <3>2. ~slipped' => logs'[shift] = 0
      BY <1>12, <2>1 DEF ShiftLog
    <3>. QED
      BY <2>1, <3>1, <3>2
  <2>. QED
    <3>1. UNCHANGED <<stick, candidate, doc, settings, tzdata, target, name, link, TZ, born, hook, lives>>
      BY <1>12 DEF ShiftLog, readVars, etcVars
    <3>. QED
      <4>1. /\ at' \in {"off", "boot", "load", "read", "zone", "name", "stage", "install", "env", "log",
                        "shift", "open", "arch", "hook", "waiting", "ready", "shell"}
            /\ at' # "read"
        BY <2>4
      <4>2. doc' \in Document \cup {NoDoc}
        BY <3>1
      <4>3. born' \in Nat /\ logs' \in [0..Rotate -> 0..born'] /\ shift' \in 0..Rotate
        BY <2>2, <2>4, <3>1
      <4>4. /\ stick'.any \in BOOLEAN /\ settings'.fits \in BOOLEAN
            /\ target' \in Names \cup {NoZone} /\ name' \in Names \cup {NoZone} 
            /\ link'.zone \in Names \cup {NoZone} /\ link'.named \in BOOLEAN
            /\ TZ' \in Names \cup {NoZone}
        BY <3>1
      <4>. QED
        BY <2>3, <2>5, <3>1, <4>1, <4>2, <4>3, <4>4
<1>13. CASE OpenLog
  <2>1. born' \in Nat /\ logs' \in [0..Rotate -> 0..born']
    <3>1. 0 \in 0..Rotate /\ 0..born \subseteq 0..(born + 1) /\ born + 1 \in 0..(born + 1)
      OBVIOUS
    <3>2. [logs EXCEPT ![0] = born + 1] \in [0..Rotate -> 0..(born + 1)]
      BY <3>1
    <3>. QED
      BY <1>13, <3>2 DEF OpenLog
  <2>2. errs' \in 0..MaxErrors /\ at' = "arch"
    BY <1>0, <1>13 DEF OpenLog
  <2>3. UNCHANGED <<stick, candidate, doc, settings, tzdata, target, name, link, TZ, shift, slipped, hook, lives>>
    BY <1>13 DEF OpenLog, readVars, etcVars
  <2>. QED
    BY <2>1, <2>2, <2>3
<1>14. CASE CheckArch \/ StartHook \/ WaitHook \/ HookUnwatched \/ HookTimesOut \/ HookEnds
  <2>1. UNCHANGED <<readVars, target, etcVars, logVars, lives>>
    BY <1>14 DEF CheckArch, StartHook, WaitHook, HookUnwatched, HookTimesOut, HookEnds
  <2>2. UNCHANGED <<stick, candidate, doc, settings, tzdata, target, name, link, TZ, logs, born, shift, slipped, lives>>
    BY <2>1 DEF readVars, etcVars, logVars
  <2>3. hook' \in {"none", "running", "good", "bad", "left"}
    BY <1>14 DEF CheckArch, StartHook, WaitHook, HookUnwatched, HookTimesOut, HookEnds
  <2>4. errs' \in 0..MaxErrors
    BY <1>0, <1>14 DEF CheckArch, StartHook, WaitHook, HookUnwatched, HookTimesOut, HookEnds
  <2>5. at' \in {"hook", "waiting", "ready", "shell", at} /\ (at' = at => at # "read" \/ doc' = doc)
    BY <1>14, <2>2 DEF CheckArch, StartHook, WaitHook, HookUnwatched, HookTimesOut, HookEnds, Finish
  <2>. QED
    BY <2>2, <2>3, <2>4, <2>5
<1>15. CASE PowerCut \/ Respawn
  <2>1. name' \in Names \cup {NoZone} /\ link'.zone \in Names \cup {NoZone} /\ link'.named \in BOOLEAN
    <3>1. CASE PowerCut
      BY <3>1 DEF PowerCut, NoLink, Copy
    <3>2. CASE Respawn
      BY <3>2 DEF Respawn
    <3>. QED
      BY <1>15, <3>1, <3>2
  <2>2. settings'.zone = AutoZone /\ settings'.fits = TRUE
    BY <1>15 DEF PowerCut, Respawn, Again, NoSettings
  <2>3. lives' \in 0..MaxLives
    BY <1>15 DEF PowerCut, Respawn, Again
  <2>4. Again
    BY <1>15 DEF PowerCut, Respawn
  <2>. QED
    <3>1. /\ at' = "boot" /\ candidate' = 1 /\ doc' = NoDoc /\ target' = NoZone /\ TZ' = NoZone
          /\ hook' = "none" /\ shift' = 0 /\ UNCHANGED <<stick, tzdata, logs, born, slipped, errs>>
      BY <2>4 DEF Again
    <3>. QED
      <4>1. doc' \in Document \cup {NoDoc}
        BY <3>1
      <4>2. born' \in Nat /\ logs' \in [0..Rotate -> 0..born'] /\ shift' \in 0..Rotate
        BY <3>1
      <4>3. settings'.zone \in Names \cup {AutoZone}
        BY <2>2
      <4>4. stick'.any \in BOOLEAN /\ settings'.fits \in BOOLEAN /\ tzdata' \in BOOLEAN
        BY <2>2, <3>1
      <4>5. /\ slipped' \in BOOLEAN /\ hook' \in {"none", "running", "good", "bad", "left"}
            /\ errs' \in 0..MaxErrors /\ TZ' \in Names \cup {NoZone} /\ target' \in Names \cup {NoZone}
        BY <3>1
      <4>. QED
        BY <2>1, <2>3, <3>1, <4>1, <4>2, <4>3, <4>4, <4>5
<1>16. CASE UNCHANGED bootVars
  BY <1>16 DEF bootVars
<1>. QED
  BY <1>1, <1>2, <1>3, <1>4, <1>5, <1>6, <1>7, <1>8, <1>9, <1>10, <1>11, <1>12, <1>13, <1>14,
     <1>15, <1>16, <1>17, <1>18, <1>19 DEF BootStep, BootNext, AgentStep

\* The two halves of LogsInOrder.
Ordered == \A i, j \in 0..Rotate : i < j /\ logs[i] # 0 /\ logs[j] # 0 => logs[i] > logs[j]

OldestLost ==
  ~slipped => \A n \in 1..born : (\A i \in 0..Rotate : logs[i] # n)
                => \A i \in 0..Rotate : logs[i] # 0 => n < logs[i]

\* That logs are in order, in two halves.
LEMMA LogHalves == LogsInOrder <=> Ordered /\ OldestLost
<1>1. LogsInOrder => Ordered
  BY DEF LogsInOrder, Ordered
<1>2. LogsInOrder => OldestLost
  BY DEF LogsInOrder, OldestLost
<1>3. Ordered /\ OldestLost => LogsInOrder
  BY DEF LogsInOrder, Ordered, OldestLost
<1>. QED
  BY <1>1, <1>2, <1>3

\* A step of the rotation, or a new log, keeps the order of the logs.
LEMMA StepLogs ==
  ASSUME BootInv, LogsInOrder, BootStep
  PROVE  LogsInOrder'
<1>. USE BootBoundsAssumption
<1>0. /\ Ordered /\ OldestLost
      /\ logs \in [0..Rotate -> 0..born] /\ born \in Nat /\ shift \in 0..Rotate
      /\ \A i \in 0..Rotate : logs[i] \in 0..born /\ logs[i] \in Nat
  BY LogHalves DEF BootInv, BootTypeOK
<1>6. LogsInOrder' <=> Ordered' /\ OldestLost'
  BY LogHalves, PTL
<1>1. CASE UNCHANGED <<logs, born, slipped>>
  BY <1>1 DEF LogsInOrder
<1>2. CASE \E file \in Files : Begin(file)
  <2>1. CASE UNCHANGED <<logs, born>>
    BY <1>2, <2>1 DEF Begin, LogsInOrder, logVars
  <2>2. CASE logs' = [i \in 0..Rotate |-> (Rotate + 1) - i] /\ born' = Rotate + 1
    <3>1. \A i \in 0..Rotate : logs'[i] = (Rotate + 1) - i
      BY <2>2
    <3>2. Ordered'
      BY <3>1 DEF Ordered
    <3>3. ASSUME NEW n \in 1..born' PROVE \E i \in 0..Rotate : logs'[i] = n
      <4>1. (Rotate + 1) - n \in 0..Rotate /\ (Rotate + 1) - ((Rotate + 1) - n) = n
        BY <2>2
      <4>. QED
        BY <3>1, <4>1
    <3>4. OldestLost'
      BY <3>3 DEF OldestLost
    <3>. QED
      BY <3>2, <3>4, <1>6
  <2>. QED
    BY <1>2, <2>1, <2>2 DEF Begin
<1>3. CASE RemoveOldest
  <2>1. CASE UNCHANGED logs
    BY <1>3, <2>1 DEF RemoveOldest, LogsInOrder
  <2>2. CASE logs' = [logs EXCEPT ![Rotate] = 0]
    <3>1. logs'[Rotate] = 0 /\ \A i \in 0..Rotate : i # Rotate => logs'[i] = logs[i]
      BY <1>0, <2>2
    <3>2. born' = born /\ slipped' = slipped
      BY <1>3 DEF RemoveOldest
    <3>3. Ordered'
      BY <1>0, <3>1 DEF Ordered
    <3>4. OldestLost'
      <4>1. SUFFICES ASSUME ~slipped, NEW n \in 1..born, \A i \in 0..Rotate : logs'[i] # n,
                            NEW i \in 0..Rotate, logs'[i] # 0
                     PROVE  n < logs'[i]
        BY <3>2 DEF OldestLost
      <4>2. i # Rotate /\ logs'[i] = logs[i]
        BY <3>1, <4>1
      <4>3. CASE logs[Rotate] = n
        BY <1>0, <4>1, <4>2, <4>3 DEF Ordered
      <4>4. CASE logs[Rotate] # n
        <5>1. \A k \in 0..Rotate : logs[k] # n
          BY <3>1, <4>1, <4>4
        <5>. QED
          BY <1>0, <4>1, <4>2, <5>1 DEF OldestLost
      <4>. QED
        BY <4>3, <4>4
    <3>. QED
      BY <3>3, <3>4, <1>6
  <2>. QED
    BY <1>3, <2>1, <2>2 DEF RemoveOldest
<1>4. CASE ShiftLog
  <2>0. shift + 1 \in 0..Rotate /\ shift < Rotate /\ born' = born
    BY <1>0, <1>4 DEF ShiftLog, BootInv, Shifting
  <2>1. CASE UNCHANGED logs
    <3>1. Ordered'
      BY <1>0, <2>1 DEF Ordered
    <3>2. slipped' = slipped \/ slipped'
      BY <1>4 DEF ShiftLog
    <3>3. OldestLost'
      BY <1>0, <2>0, <2>1, <3>2 DEF OldestLost
    <3>. QED
      BY <3>1, <3>3, <1>6
  <2>2. CASE logs' # logs
    <3>1. /\ logs[shift] # 0 /\ slipped' = slipped
          /\ logs' = [logs EXCEPT ![shift + 1] = logs[shift], ![shift] = 0]
      BY <1>4, <2>2 DEF ShiftLog
    <3>2. /\ logs'[shift] = 0 /\ logs'[shift + 1] = logs[shift]
          /\ \A i \in 0..Rotate : i \notin {shift, shift + 1} => logs'[i] = logs[i]
      BY <1>0, <2>0, <3>1
    <3>3. Ordered'
      BY <1>0, <2>0, <3>1, <3>2 DEF Ordered
    <3>4. OldestLost'
      <4>1. SUFFICES ASSUME ~slipped, NEW n \in 1..born, \A i \in 0..Rotate : logs'[i] # n,
                            NEW i \in 0..Rotate, logs'[i] # 0
                     PROVE  n < logs'[i]
        BY <2>0, <3>1 DEF OldestLost
      <4>2. \A k \in 0..Rotate : k # shift + 1 => logs[k] # n
        BY <2>0, <3>2, <4>1
      <4>3. PICK j \in 0..Rotate : j # shift + 1 /\ logs[j] = logs'[i] /\ (shift + 1 = Rotate => j < Rotate)
        <5>1. CASE i = shift + 1
          BY <1>0, <2>0, <3>2, <5>1
        <5>2. CASE i # shift + 1
          BY <1>0, <2>0, <3>2, <4>1, <5>2
        <5>. QED
          BY <5>1, <5>2
      <4>4. CASE logs[shift + 1] = n
        <5>1. shift + 1 = Rotate
          BY <1>0, <1>4, <2>0, <4>1, <4>4 DEF ShiftLog, BootInv, Shifting
        <5>. QED
          BY <1>0, <4>1, <4>3, <4>4, <5>1 DEF Ordered
      <4>5. CASE logs[shift + 1] # n
        <5>1. \A k \in 0..Rotate : logs[k] # n
          BY <4>2, <4>5
        <5>. QED
          BY <1>0, <4>1, <4>3, <5>1 DEF OldestLost
      <4>. QED
        BY <4>4, <4>5
    <3>. QED
      BY <3>3, <3>4, <1>6
  <2>. QED
    BY <2>1, <2>2
<1>5. CASE OpenLog
  <2>1. CASE UNCHANGED <<logs, born>>
    BY <1>5, <2>1 DEF OpenLog, LogsInOrder
  <2>2. CASE logs[0] = 0 /\ born' = born + 1 /\ logs' = [logs EXCEPT ![0] = born + 1]
    <3>1. logs'[0] = born + 1 /\ \A i \in 0..Rotate : i # 0 => logs'[i] = logs[i]
      BY <1>0, <2>2
    <3>2. slipped' = slipped
      BY <1>5 DEF OpenLog
    <3>3. Ordered'
      BY <1>0, <3>1 DEF Ordered
    <3>4. OldestLost'
      <4>1. SUFFICES ASSUME ~slipped, NEW n \in 1..(born + 1), \A i \in 0..Rotate : logs'[i] # n,
                            NEW i \in 0..Rotate, logs'[i] # 0
                     PROVE  n < logs'[i]
        BY <2>2, <3>2 DEF OldestLost
      <4>2. n \in 1..born /\ \A k \in 0..Rotate : logs[k] # n
        BY <1>0, <2>2, <3>1, <4>1
      <4>. QED
        BY <1>0, <3>1, <4>1, <4>2 DEF OldestLost
    <3>. QED
      BY <3>3, <3>4, <1>6
  <2>. QED
    BY <1>5, <2>1, <2>2 DEF OpenLog
<1>. QED
  BY <1>1, <1>2, <1>3, <1>4, <1>5 DEF BootStep, BootNext, AgentStep, TurnOn, PassOver, Load, NoneLoads,
     Validate, Resolve, WriteName, ZoneFails, Stage, Install, SetTZ, LogElsewhere, NoRotation, CheckArch,
     StartHook, WaitHook, HookUnwatched, HookTimesOut, HookEnds, PowerCut, Respawn, Again, logVars, bootVars

-----------------------------------------------------------------------------
(***************************************************************************)
(* The volume and its files.                                               *)
(***************************************************************************)

Volumes == [disk : Disks, gen : Nat]
Images  == {"missing", "torn", "whole"}

GensKept == \A d \in Disks : disk'[d].gen = disk[d].gen

\* What a configuration file may hold.
LEMMA FilesAre ==
  /\ Missing \in ConfigFile /\ Torn \in ConfigFile /\ Blank \in Text /\ Default \in Text
  /\ \A t \in Text : File(t) \in ConfigFile
BY BlankIs, TextsAssumption DEF Missing, Torn, File, ConfigFile

\* A change of a file of a volume keeps the generations of the disks.
LEMMA ChangeKeeps ==
  ASSUME disk \in [Disks -> FileSystem], NEW h \in Volumes, NEW f, NEW content,
         (f = "config" /\ content \in ConfigFile) \/ (f = "image" /\ content \in Images),
         Change(h, f, content)
  PROVE  disk' \in [Disks -> FileSystem] /\ GensKept
<1>0. h.disk \in Disks /\ Torn \in ConfigFile
  BY FilesAre DEF Volumes
<1>1. CASE UNCHANGED disk
  BY <1>1 DEF GensKept
<1>2. CASE f = "config" /\ disk' = [disk EXCEPT ![h.disk]["config"] = content]
  BY <1>0, <1>2 DEF GensKept, FileSystem
<1>3. CASE f = "image" /\ disk' = [disk EXCEPT ![h.disk]["image"] = content]
  BY <1>0, <1>3 DEF GensKept, FileSystem, Images
<1>4. CASE disk' = [disk EXCEPT ![h.disk].config = Torn]
  BY <1>0, <1>4 DEF GensKept, FileSystem
<1>. QED
  BY <1>1, <1>2, <1>3, <1>4 DEF Change

\* A file that cannot be written leaves volumes volumes, of the same
\* generation.
LEMMA BreakKeeps ==
  ASSUME disk \in [Disks -> FileSystem], NEW h \in Volumes,
         BreakConfig(h) \/ BreakFile(h, "image", "missing", "torn")
  PROVE  disk' \in [Disks -> FileSystem] /\ GensKept
<1>1. CASE BreakConfig(h)
  BY <1>1, FilesAre, ChangeKeeps DEF BreakConfig, BreakFile
<1>2. CASE BreakFile(h, "image", "missing", "torn")
  BY <1>2, ChangeKeeps DEF BreakFile, Images
<1>. QED
  BY <1>1, <1>2

\* What is read of the configuration is a file with a text.
LEMMA SeenIs ==
  ASSUME disk \in [Disks -> FileSystem], NEW h \in Volumes, NEW f \in Seen(h)
  PROVE  f.text \in Text
<1>1. h.disk \in Disks
  BY DEF Volumes
<1>2. disk[h.disk].config \in ConfigFile
  BY <1>1 DEF FileSystem
<1>3. f \in ConfigFile
  BY <1>2, FilesAre DEF Seen
<1>. QED
  BY <1>3 DEF ConfigFile

\* A volume that is found is there, and the handle is of what is on the disk.
LEMMA FoundIs ==
  ASSUME disk \in [Disks -> FileSystem], NEW h \in Found
  PROVE  h \in Volumes /\ Current(h)
BY DEF Found, VolumeOn, Volumes, Current, FileSystem

\* The bounds of a session.
LEMMA BoundsAre ==
  ASSUME ops \in 0..MaxOps, faults \in 0..MaxFaults
  PROVE  /\ Operation => ops' \in 0..MaxOps
         /\ Fault => faults' \in 0..MaxFaults /\ faults' < faults
BY SessionBoundsAssumption DEF Operation, Fault

\* A text is shown, or the editor stays closed.
Shown == (\E t \in Text : ShowEditor(t)) \/ UNCHANGED <<opened, editorVars>>

\* Opening the configuration leaves the volumes in order, and shows a text or
\* an error.
LEMMA EditConfigKeeps ==
  ASSUME disk \in [Disks -> FileSystem], faults \in 0..MaxFaults, ops \in 0..MaxOps,
         NEW h \in Volumes, EditConfig(h)
  PROVE  /\ disk' \in [Disks -> FileSystem] /\ GensKept
         /\ faults' \in 0..MaxFaults /\ UNCHANGED ops
         /\ \/ \E t \in Text : ShowEditor(t)
            \/ UNCHANGED <<opened, editorVars>> /\ screen' = "ended"
<1>0. /\ (UNCHANGED disk => disk' \in [Disks -> FileSystem] /\ GensKept)
      /\ (Change(h, "config", File(Default)) => disk' \in [Disks -> FileSystem] /\ GensKept)
      /\ (BreakConfig(h) => disk' \in [Disks -> FileSystem] /\ GensKept)
      /\ (Fault => faults' \in 0..MaxFaults)
  <2>1. UNCHANGED disk => disk' \in [Disks -> FileSystem] /\ GensKept
    BY DEF GensKept
  <2>2. Change(h, "config", File(Default)) => disk' \in [Disks -> FileSystem] /\ GensKept
    BY FilesAre, ChangeKeeps
  <2>3. BreakConfig(h) => disk' \in [Disks -> FileSystem] /\ GensKept
    BY BreakKeeps
  <2>. QED
    BY <2>1, <2>2, <2>3, BoundsAre
<1>1. Default \in Text /\ \A f \in Seen(h) : f.text \in Text
  BY FilesAre, SeenIs
<1>. QED
  BY <1>0, <1>1 DEF EditConfig, Fail

\* What becomes of a volume that is opened for something.
LEMMA OpenActionKeeps ==
  ASSUME disk \in [Disks -> FileSystem], faults \in 0..MaxFaults, ops \in 0..MaxOps,
         NEW h \in Volumes, NEW a \in Actions, OpenAction(a, h)
  PROVE  /\ disk' \in [Disks -> FileSystem] /\ GensKept
         /\ faults' \in 0..MaxFaults /\ ops' \in 0..MaxOps
         /\ handle' = h \/ (handle' = NoVolume /\ screen' = "message")
         /\ \/ \E t \in Text : ShowEditor(t)
            \/ UNCHANGED <<opened, editorVars>> /\ screen' \in {"files", "load_image", "message", "ended"}
<1>1. CASE a = "files"
  <2>1. ListFiles /\ handle' = h /\ UNCHANGED <<disk, ops>>
    BY <1>1 DEF OpenAction
  <2>2. faults' \in 0..MaxFaults
    BY <2>1, BoundsAre DEF ListFiles, Fail
  <2>. QED
    BY <2>1, <2>2 DEF ListFiles, Fail, GensKept
<1>2. CASE a = "config"
  <2>1. EditConfig(h) /\ handle' = h
    BY <1>2 DEF OpenAction
  <2>. QED
    BY <2>1, EditConfigKeeps
<1>3. CASE a = "image"
  <2>1. /\ screen' = "load_image" /\ handle' = h
        /\ UNCHANGED <<disk, ops, faults, opened, editorVars>>
    BY <1>3 DEF OpenAction
  <2>. QED
    BY <2>1 DEF GensKept
<1>4. CASE a = "unmount"
  <2>1. /\ screen' = "message" /\ handle' = NoVolume
        /\ UNCHANGED <<disk, ops, faults, opened, editorVars>>
    BY <1>4 DEF OpenAction
  <2>. QED
    BY <2>1 DEF GensKept
<1>. QED
  BY <1>1, <1>2, <1>3, <1>4 DEF Actions

-----------------------------------------------------------------------------
(***************************************************************************)
(* The wizard.                                                             *)
(***************************************************************************)

\* A disk is chosen as long as it is asked about.
DiskChosen == screen \in {"preflight_ok", "preflight_bad", "confirm"} => chosen \in Disks

\* What is not dirty is the text that was opened; what is to be written has
\* been accepted.
TextKept ==
  /\ mode \in {"edit", "search", "prompt"} /\ ~dirty => lines = opened
  /\ mode = "quit" => lines = opened
  /\ mode = "save" => Valid(lines)

DeskTyped == WizardTypeOK /\ EditorInv

DeskInv == DeskTyped /\ HandleCurrent /\ DiskChosen /\ TextKept

\* What a step does to the editor.
EditorStep ==
  \/ screen = "editor" /\ Key /\ UNCHANGED deskVars
  \/ \E t \in Text : ShowEditor(t)
  \/ CloseEditor /\ screen = "editor" /\ screen' \in {"message", "main", "ended"} /\ opened' = Blank
  \/ UNCHANGED <<opened, editorVars>> /\ screen # "editor" /\ screen' # "editor"

\* A key finds the editor open, and may leave it.
LEMMA KeyMode ==
  ASSUME Key
  PROVE  /\ mode \in {"edit", "search", "prompt"}
         /\ mode' \in {"edit", "search", "prompt", "save", "quit", "discard"}
<1>. USE DEF Edit, Restore, RequestExit
<1>1. CASE Move \/ Choose \/ Complete \/ BeginSearch \/ CancelSearch \/ SearchFor \/ FindNext
  BY <1>1 DEF Move, Choose, Complete, BeginSearch, CancelSearch, SearchFor, FindNext
<1>2. CASE (\E c \in Typed : Type(c)) \/ Backspace \/ Delete \/ Split \/ Accept
  BY <1>2 DEF Type, Backspace, Delete, Split, Accept
<1>3. CASE Undo \/ Redo
  BY <1>3 DEF Undo, Redo
<1>4. CASE TrySave \/ Exit \/ Discard \/ KeepEditing
  BY <1>4 DEF TrySave, Exit, Discard, KeepEditing
<1>5. CASE Escape
  <2>1. mode = "edit" /\ (mode' = mode \/ RequestExit)
    BY <1>5 DEF Escape
  <2>. QED
    BY <2>1
<1>. QED
  BY <1>1, <1>2, <1>3, <1>4, <1>5 DEF Key

\* The editor's own invariant.
LEMMA EditorStepKeeps ==
  ASSUME EditorInv, EditorStep
  PROVE  EditorInv'
<1>1. CASE Key
  BY <1>1, KeyKeeps
<1>2. ASSUME NEW t \in Text, ShowEditor(t) PROVE EditorInv'
  BY <1>2, OpenKeeps DEF ShowEditor
<1>3. CASE CloseEditor
  BY <1>3, CloseKeeps
<1>4. CASE UNCHANGED editorVars
  <2>1. InText(lines, cy, cx)' <=> InText(lines, cy, cx)
    BY <1>4 DEF InText, editorVars
  <2>2. /\ mode' = mode /\ lines' = lines /\ cy' = cy /\ cx' = cx /\ dirty' = dirty /\ popup' = popup
        /\ errors' = errors /\ pattern' = pattern /\ undo' = undo /\ redo' = redo
        /\ edits' = edits /\ searches' = searches
    BY <1>4 DEF editorVars
  <2>3. EditorTypeOK'
    BY <2>1, <2>2 DEF EditorInv, EditorTypeOK
  <2>4. Reset'
    BY <2>2 DEF EditorInv, Reset
  <2>. QED
    BY <2>3, <2>4 DEF EditorInv
<1>. QED
  BY <1>1, <1>2, <1>3, <1>4 DEF EditorStep

\* The editor is open on its screen and nowhere else.
LEMMA EditorScreen ==
  ASSUME EditorStep, screen = "editor" <=> mode # "closed"
  PROVE  screen' = "editor" <=> mode' # "closed"
<1>1. CASE screen = "editor" /\ Key /\ UNCHANGED deskVars
  BY <1>1, KeyMode DEF deskVars
<1>2. ASSUME NEW t \in Text, ShowEditor(t) PROVE screen' = "editor" <=> mode' # "closed"
  BY <1>2 DEF ShowEditor, OpenEditor
<1>3. CASE CloseEditor /\ screen' \in {"message", "main", "ended"}
  BY <1>3 DEF CloseEditor
<1>4. CASE UNCHANGED <<opened, editorVars>> /\ screen # "editor" /\ screen' # "editor"
  BY <1>4 DEF editorVars
<1>. QED
  BY <1>1, <1>2, <1>3, <1>4 DEF EditorStep

\* Keys: a text that differs from the one opened is dirty, unless it is written.
LEMMA KeyText ==
  ASSUME EditorInv, TextKept, Key, UNCHANGED opened
  PROVE  TextKept'
<1>0. dirty \in BOOLEAN
  BY DEF EditorInv, EditorTypeOK
<1>1. ASSUME NEW t, NEW y, NEW x, NEW changes \in BOOLEAN, Edit(t, y, x, changes), ~changes => t = lines
      PROVE  TextKept'
  <2>1. mode = "edit" /\ mode' = "edit" /\ lines' = t /\ dirty' = (dirty \/ changes)
    BY <1>1 DEF Edit
  <2>2. CASE dirty \/ changes
    <3>1. dirty'
      BY <2>1, <2>2
    <3>. QED
      BY <2>1, <3>1 DEF TextKept
  <2>3. CASE ~dirty /\ ~changes
    <3>1. lines' = opened'
      BY <1>1, <2>1, <2>3 DEF TextKept
    <3>. QED
      BY <2>1, <3>1 DEF TextKept
  <2>. QED
    BY <2>2, <2>3
<1>2. CASE \E c \in Typed : Type(c)
  BY <1>1, <1>2 DEF Type
<1>3. CASE Backspace
  <2>1. PICK t, y, x : Edit(t, y, x, t # lines)
    BY <1>3 DEF Backspace
  <2>. QED
    BY <1>1, <2>1
<1>4. CASE Delete
  <2>1. PICK t, y, x : Edit(t, y, x, t # lines)
    BY <1>4 DEF Delete
  <2>. QED
    BY <1>1, <2>1
<1>5. CASE Split
  <2>1. PICK t, y, x : Edit(t, y, x, TRUE)
    BY <1>5 DEF Split
  <2>. QED
    BY <1>1, <2>1
<1>6. CASE Accept
  <2>1. PICK t, y, x : Edit(t, y, x, TRUE) \/ Edit(lines, y, x, FALSE)
    BY <1>6 DEF Accept
  <2>. QED
    BY <1>1, <2>1
<1>7. CASE Undo \/ Redo
  BY <1>7 DEF Undo, Redo, Restore, TextKept
<1>8. CASE Move \/ Choose \/ Complete \/ BeginSearch \/ CancelSearch \/ SearchFor \/ FindNext
  <2>1. /\ mode \in {"edit", "search"} /\ mode' \in {"edit", "search"} /\ lines' = lines /\ dirty' = dirty
    BY <1>8 DEF Move, Choose, Complete, BeginSearch, CancelSearch, SearchFor, FindNext, textVars
  <2>. QED
    BY <2>1 DEF TextKept
<1>9. CASE TrySave
  BY <1>9 DEF TrySave, TextKept
<1>10. CASE Exit \/ Escape
  <2>1. /\ mode = "edit" /\ mode' \in {"edit", "prompt", "quit"} /\ (mode' = "quit" => ~dirty)
        /\ lines' = lines /\ dirty' = dirty
    BY <1>10 DEF Exit, Escape, RequestExit, textVars
  <2>. QED
    BY <2>1 DEF TextKept
<1>11. CASE Discard \/ KeepEditing
  <2>1. /\ mode = "prompt" /\ mode' \in {"edit", "discard"} /\ lines' = lines /\ dirty' = dirty
    BY <1>11 DEF Discard, KeepEditing, textVars
  <2>. QED
    BY <2>1 DEF TextKept
<1>. QED
  BY <1>2, <1>3, <1>4, <1>5, <1>6, <1>7, <1>8, <1>9, <1>10, <1>11 DEF Key

\* Every step of the editor keeps what it knows of the text in the file.
LEMMA StepText ==
  ASSUME EditorInv, TextKept, EditorStep
  PROVE  TextKept'
<1>1. CASE Key /\ UNCHANGED deskVars
  BY <1>1, KeyText DEF deskVars
<1>2. ASSUME NEW t \in Text, ShowEditor(t) PROVE TextKept'
  BY <1>2 DEF ShowEditor, OpenEditor, TextKept
<1>3. CASE CloseEditor
  BY <1>3 DEF CloseEditor, TextKept
<1>4. CASE UNCHANGED <<opened, editorVars>>
  <2>1. UNCHANGED <<mode, lines, dirty, opened>>
    BY <1>4 DEF editorVars
  <2>. QED
    BY <2>1 DEF TextKept
<1>. QED
  BY <1>1, <1>2, <1>3, <1>4 DEF EditorStep

Screens == FlashScreens \cup VolumeScreens \cup
             {"main", "flash_done", "message", "need_volume", "path_input", "ended"}

DeskStep ==
  /\ EditorStep
  /\ screen' \in Screens /\ next' \in Actions /\ chosen' \in Disks \cup {NoDisk} /\ kept' \in BOOLEAN
  /\ disk' \in [Disks -> FileSystem] /\ (handle' = NoVolume \/ handle' \in Volumes)
  /\ ops' \in 0..MaxOps /\ faults' \in 0..MaxFaults
  /\ HandleCurrent' /\ DiskChosen'

\* The facts each action starts from.
LEMMA DeskIs ==
  ASSUME DeskInv
  PROVE  /\ screen \in Screens /\ next \in Actions /\ chosen \in Disks \cup {NoDisk} /\ kept \in BOOLEAN
         /\ disk \in [Disks -> FileSystem] /\ (handle = NoVolume \/ handle \in Volumes)
         /\ ops \in 0..MaxOps /\ faults \in 0..MaxFaults
         /\ HandleCurrent /\ DiskChosen /\ TextKept /\ EditorInv
         /\ (screen = "editor" <=> mode # "closed")
BY DEF DeskInv, DeskTyped, WizardTypeOK, Screens, Volumes

\* No volume is not one.
LEMMA NotAVolume == NoVolume \notin Volumes
BY NoDiskAssumption DEF NoVolume, Volumes

\* A handle that is used on.
LEMMA HandleStays ==
  ASSUME disk \in [Disks -> FileSystem], NEW h \in Volumes, Current(h) \/ kept', GensKept,
         handle' = h \/ (handle' = NoVolume /\ screen' \notin VolumeScreens)
  PROVE  HandleCurrent' /\ (handle' = NoVolume \/ handle' \in Volumes)
<1>1. disk'[h.disk].gen = disk[h.disk].gen
  BY DEF Volumes, GensKept
<1>2. CASE handle' = h
  BY <1>1, <1>2, NotAVolume DEF HandleCurrent, Current
<1>3. CASE handle' = NoVolume /\ screen' \notin VolumeScreens
  BY <1>3 DEF HandleCurrent
<1>. QED
  BY <1>2, <1>3

\* Opening an action on a volume is a step of the desk when the handle is
\* current.
LEMMA OpenedOnVolume ==
  ASSUME DeskInv, screen \in {"main", "path_input"}, NEW h \in Volumes, NEW a \in Actions,
         OpenAction(a, h), Current(h) \/ kept', next' \in Actions, kept' \in BOOLEAN, UNCHANGED chosen
  PROVE  DeskStep
<1>1. /\ disk' \in [Disks -> FileSystem] /\ GensKept
      /\ faults' \in 0..MaxFaults /\ ops' \in 0..MaxOps
      /\ handle' = h \/ (handle' = NoVolume /\ screen' = "message")
      /\ \/ \E t \in Text : ShowEditor(t)
         \/ UNCHANGED <<opened, editorVars>> /\ screen' \in {"files", "load_image", "message", "ended"}
  BY DeskIs, OpenActionKeeps
<1>2. screen' \in {"editor", "files", "load_image", "message", "ended"} /\ EditorStep
  BY <1>1 DEF EditorStep, ShowEditor
<1>3. HandleCurrent' /\ (handle' = NoVolume \/ handle' \in Volumes)
  <2>1. handle' = h \/ (handle' = NoVolume /\ screen' \notin VolumeScreens)
    BY <1>1 DEF VolumeScreens
  <2>. QED
    BY <1>1, <2>1, DeskIs, HandleStays
<1>4. DiskChosen' /\ screen' \in Screens
  BY <1>2 DEF DiskChosen, Screens, VolumeScreens
<1>. QED
  BY <1>1, <1>2, <1>3, <1>4, DeskIs DEF DeskStep

\* Choosing an action.
LEMMA StepBegin ==
  ASSUME DeskInv, BeginAction
  PROVE  DeskStep
<1>1. CASE handle # NoVolume
  <2>1. PICK a \in Actions : OpenAction(a, handle)
    BY <1>1 DEF BeginAction
  <2>2. screen = "main" /\ UNCHANGED <<next, kept, chosen>>
    BY <1>1 DEF BeginAction
  <2>3. handle \in Volumes /\ (Current(handle) \/ kept')
    BY <1>1, <2>2, DeskIs DEF HandleCurrent
  <2>. QED
    BY <2>1, <2>2, <2>3, DeskIs, OpenedOnVolume
<1>2. ASSUME handle = NoVolume, NEW h \in Found, NEW a \in Actions, OpenAction(a, h), kept' = FALSE, UNCHANGED next
      PROVE  DeskStep
  <2>1. h \in Volumes /\ Current(h)
    BY DeskIs, FoundIs
  <2>. QED
    BY <1>2, <2>1, DeskIs, OpenedOnVolume DEF BeginAction
<1>3. CASE /\ handle = NoVolume /\ next' \in Actions /\ (UNCHANGED faults \/ Fault)
           /\ screen' = "need_volume" /\ UNCHANGED <<disk, handle, kept, opened, ops, editorVars>>
  <2>1. EditorStep
    BY <1>3 DEF BeginAction, EditorStep
  <2>2. HandleCurrent' /\ DiskChosen' /\ screen' \in Screens
    BY <1>3 DEF HandleCurrent, DiskChosen, Screens, VolumeScreens
  <2>3. faults' \in 0..MaxFaults
    BY <1>3, DeskIs, BoundsAre
  <2>. QED
    BY <1>3, <2>1, <2>2, <2>3, DeskIs DEF BeginAction, DeskStep
<1>. QED
  BY <1>1, <1>2, <1>3 DEF BeginAction

\* Opening the path that was typed.
LEMMA StepOpenPath ==
  ASSUME DeskInv, OpenPath
  PROVE  DeskStep
<1>1. ASSUME NEW h \in Found, OpenAction(next, h), kept' = FALSE PROVE DeskStep
  <2>1. h \in Volumes /\ Current(h)
    BY DeskIs, FoundIs
  <2>. QED
    BY <1>1, <2>1, DeskIs, OpenedOnVolume DEF OpenPath
<1>2. CASE screen' = "message" /\ UNCHANGED <<disk, handle, kept, opened, ops, faults, editorVars>>
  <2>1. EditorStep
    BY <1>2 DEF OpenPath, EditorStep
  <2>2. HandleCurrent' /\ DiskChosen' /\ screen' \in Screens
    BY <1>2, DeskIs DEF HandleCurrent, Current, DiskChosen, Screens, VolumeScreens
  <2>. QED
    BY <1>2, <2>1, <2>2, DeskIs DEF OpenPath, DeskStep
<1>. QED
  BY <1>1, <1>2 DEF OpenPath

\* A step to another screen, where neither volume nor disks change.
LEMMA ScreenStep ==
  ASSUME DeskInv, screen # "editor", screen' \in Screens \ {"editor"},
         screen' \in VolumeScreens => screen \in VolumeScreens,
         chosen' \in Disks \cup {NoDisk},
         screen' \in {"preflight_ok", "preflight_bad", "confirm"} => chosen' \in Disks,
         UNCHANGED <<next, disk, handle, kept, opened, ops, faults, editorVars>>
  PROVE  DeskStep
<1>1. EditorStep
  BY DEF EditorStep
<1>2. HandleCurrent' /\ DiskChosen'
  BY DeskIs DEF HandleCurrent, Current, DiskChosen
<1>. QED
  BY <1>1, <1>2, DeskIs DEF DeskStep

\* Going from one screen to another.
LEMMA StepTurn ==
  ASSUME DeskInv, Turn
  PROVE  DeskStep
<1>1. /\ screen \in DOMAIN Leads /\ screen' \in Leads[screen]
      /\ UNCHANGED <<next, disk, handle, kept, opened, ops, faults, editorVars>>
  BY DEF Turn
<1>2. /\ screen # "editor" /\ screen' \in Screens \ {"editor"}
      /\ screen' \in VolumeScreens => screen \in VolumeScreens
      /\ screen' = "confirm" => screen = "preflight_ok"
  BY <1>1 DEF Leads, Screens, FlashScreens, VolumeScreens
<1>3. CASE screen' \in {"preflight_ok", "preflight_bad"}
  <2>1. chosen' \in Disks
    BY <1>3 DEF Turn
  <2>. QED
    BY <1>1, <1>2, <2>1, ScreenStep
<1>4. CASE screen' = "confirm"
  <2>1. chosen' \in Disks
    BY <1>2, <1>4, DeskIs DEF Turn, DiskChosen
  <2>. QED
    BY <1>1, <1>2, <2>1, ScreenStep
<1>5. CASE screen' \notin {"preflight_ok", "preflight_bad", "confirm"}
  <2>1. chosen' = NoDisk
    BY <1>5 DEF Turn
  <2>. QED
    BY <1>1, <1>2, <1>5, <2>1, ScreenStep
<1>. QED
  BY <1>3, <1>4, <1>5

\* Leaving the program.
LEMMA StepQuit ==
  ASSUME DeskInv, Quit
  PROVE  DeskStep
<1>1. screen' \in Screens \ {"editor"} /\ screen' \notin VolumeScreens /\ screen' \notin {"preflight_ok", "preflight_bad", "confirm"}
  BY DEF Quit, Screens, VolumeScreens
<1>. QED
  BY <1>1, ScreenStep DEF Quit

\* A flash counts the generations of its disk on, and of no other.
LEMMA FlashedIs ==
  ASSUME disk \in [Disks -> FileSystem], NEW d \in Disks, NEW volume \in BOOLEAN,
         NEW config \in ConfigFile, NEW image \in Images, Flashed(d, volume, config, image)
  PROVE  /\ disk' \in [Disks -> FileSystem]
         /\ disk'[d].gen = disk[d].gen + 1 /\ disk[d].gen + 1 \in Nat
<1>1. disk[d].gen \in Nat
  BY DEF FileSystem
<1>. QED
  BY <1>1 DEF Flashed, FileSystem, Images

\* Flashing makes a volume of its own generation; only one that opens is current.
LEMMA StepFlash ==
  ASSUME DeskInv, FlashDone \/ FlashNotOpened \/ FlashFails
  PROVE  DeskStep
<1>1. /\ screen = "confirm" /\ chosen \in Disks /\ ops' \in 0..MaxOps
      /\ UNCHANGED <<next, opened, editorVars>> /\ chosen' = NoDisk
      /\ screen' \in {"flash_done", "message", "ended"}
  BY DeskIs, BoundsAre DEF FlashDone, FlashNotOpened, FlashFails, DiskChosen
<1>2. EditorStep /\ screen' \in Screens /\ DiskChosen'
  BY <1>1 DEF EditorStep, Screens, DiskChosen
<1>3. CASE FlashDone
  <2>1. PICK image \in {"missing", "whole"} : Flashed(chosen, TRUE, File(Default), image)
    BY <1>3 DEF FlashDone
  <2>2. /\ disk' \in [Disks -> FileSystem]
        /\ disk'[chosen].gen = disk[chosen].gen + 1 /\ disk[chosen].gen + 1 \in Nat
    BY <1>1, <2>1, DeskIs, FilesAre, FlashedIs DEF Images
  <2>3. handle' \in Volumes /\ handle'.disk = chosen /\ handle'.gen = disk[chosen].gen + 1
    BY <1>1, <1>3, <2>2 DEF FlashDone, Volumes
  <2>4. HandleCurrent'
    BY <1>1, <2>2, <2>3, NotAVolume DEF HandleCurrent, Current, VolumeScreens
  <2>. QED
    BY <1>1, <1>2, <1>3, <2>2, <2>3, <2>4, DeskIs DEF FlashDone, DeskStep
<1>4. CASE FlashNotOpened
  <2>1. PICK image \in {"missing", "whole"} : Flashed(chosen, TRUE, File(Default), image)
    BY <1>4 DEF FlashNotOpened
  <2>2. disk' \in [Disks -> FileSystem]
    BY <1>1, <2>1, DeskIs, FilesAre, FlashedIs DEF Images
  <2>3. handle' = NoVolume \/ handle' \in Volumes
    <3>1. ASSUME NEW d \in Disks, handle' = [disk |-> d, gen |-> disk'[d].gen] PROVE handle' \in Volumes
      BY <2>2, <3>1 DEF Volumes, FileSystem
    <3>. QED
      BY <1>4, <3>1, DeskIs DEF FlashNotOpened
  <2>4. HandleCurrent' /\ kept' = TRUE
    BY <1>1, <1>4 DEF FlashNotOpened, HandleCurrent, VolumeScreens
  <2>5. faults' \in 0..MaxFaults
    BY <1>4, DeskIs, BoundsAre DEF FlashNotOpened
  <2>. QED
    BY <1>1, <1>2, <2>2, <2>3, <2>4, <2>5, DeskIs DEF DeskStep
<1>5. CASE FlashFails
  <2>1. disk' \in [Disks -> FileSystem]
    <3>1. GivenUp(chosen)
      BY <1>5 DEF FlashFails
    <3>2. CASE UNCHANGED disk
      BY <3>2, DeskIs
    <3>3. CASE Flashed(chosen, FALSE, Missing, "missing")
      BY <1>1, <3>3, DeskIs, FilesAre, FlashedIs DEF Images
    <3>4. ASSUME NEW config \in {Missing, Torn, File(Default)}, NEW image \in {"missing", "torn"},
                 Flashed(chosen, TRUE, config, image)
          PROVE  disk' \in [Disks -> FileSystem]
      <4>1. config \in ConfigFile /\ image \in Images
        BY FilesAre DEF Images
      <4>. QED
        BY <1>1, <3>4, <4>1, DeskIs, FlashedIs
    <3>. QED
      BY <3>1, <3>2, <3>3, <3>4 DEF GivenUp
  <2>2. HandleCurrent' /\ kept' = TRUE /\ UNCHANGED handle
    BY <1>1, <1>5 DEF FlashFails, HandleCurrent, VolumeScreens
  <2>3. faults' \in 0..MaxFaults
    BY <1>5, DeskIs, BoundsAre DEF FlashFails
  <2>. QED
    BY <1>1, <1>2, <2>1, <2>2, <2>3, DeskIs DEF DeskStep
<1>. QED
  BY <1>3, <1>4, <1>5

\* The volume that is open, on the screens that use one.
LEMMA OpenVolume ==
  ASSUME DeskInv, screen \in VolumeScreens
  PROVE  handle \in Volumes /\ (Current(handle) \/ kept)
BY DeskIs DEF HandleCurrent

\* Deleting a file of the volume.
LEMMA StepDelete ==
  ASSUME DeskInv, DeleteFile
  PROVE  DeskStep
<1>1. /\ screen = "files" /\ ops' \in 0..MaxOps /\ ListFiles /\ UNCHANGED <<next, chosen, handle, kept>>
  BY DeskIs, BoundsAre DEF DeleteFile, FileVars
<1>2. handle \in Volumes /\ (Current(handle) \/ kept)
  BY <1>1, OpenVolume DEF VolumeScreens
<1>3. disk' \in [Disks -> FileSystem] /\ GensKept
  <2>1. CASE UNCHANGED disk
    BY <2>1, DeskIs DEF GensKept
  <2>2. CASE Change(handle, "config", Missing)
    BY <1>2, <2>2, DeskIs, FilesAre, ChangeKeeps
  <2>3. CASE Change(handle, "image", "missing")
    BY <1>2, <2>3, DeskIs, ChangeKeeps DEF Images
  <2>. QED
    BY <2>1, <2>2, <2>3 DEF DeleteFile
<1>4. /\ faults' \in 0..MaxFaults /\ screen' \in {"files", "ended"} /\ UNCHANGED <<opened, editorVars>>
  BY <1>1, DeskIs, BoundsAre DEF ListFiles, Fail
<1>5. EditorStep /\ screen' \in Screens /\ DiskChosen'
  BY <1>1, <1>4 DEF EditorStep, Screens, VolumeScreens, DiskChosen
<1>6. HandleCurrent' /\ (handle' = NoVolume \/ handle' \in Volumes)
  BY <1>1, <1>2, <1>3, DeskIs, HandleStays
<1>. QED
  BY <1>1, <1>3, <1>4, <1>5, <1>6, DeskIs DEF DeskStep

\* Copying a file to the volume.
LEMMA StepPut ==
  ASSUME DeskInv, PutFile
  PROVE  DeskStep
<1>1. /\ screen \in {"put", "load_image"} /\ ops' \in 0..MaxOps /\ screen' = "message"
      /\ UNCHANGED <<next, chosen, handle, kept>> /\ UNCHANGED <<opened, editorVars>>
  BY DeskIs, BoundsAre DEF PutFile, FileVars
<1>5. EditorStep /\ screen' \in Screens /\ DiskChosen'
  BY <1>1 DEF EditorStep, Screens, DiskChosen
<1>4. faults' \in 0..MaxFaults
  BY DeskIs, BoundsAre DEF PutFile
<1>2. handle \in Volumes /\ (Current(handle) \/ kept)
  BY <1>1, OpenVolume DEF VolumeScreens
<1>3. disk' \in [Disks -> FileSystem] /\ GensKept
  <2>1. ASSUME NEW t \in HostTexts, Change(handle, "config", File(t))
        PROVE  disk' \in [Disks -> FileSystem] /\ GensKept
    <3>1. File(t) \in ConfigFile
      BY FilesAre, TextsAssumption
    <3>. QED
      BY <1>2, <2>1, <3>1, DeskIs, ChangeKeeps
  <2>2. CASE Change(handle, "image", "whole")
    BY <1>2, <2>2, DeskIs, ChangeKeeps DEF Images
  <2>3. CASE BreakConfig(handle) \/ BreakFile(handle, "image", "missing", "torn")
    BY <1>2, <2>3, DeskIs, BreakKeeps
  <2>. QED
    BY <2>1, <2>2, <2>3 DEF PutFile
<1>6. HandleCurrent' /\ (handle' = NoVolume \/ handle' \in Volumes)
  BY <1>1, <1>2, <1>3, DeskIs, HandleStays
<1>. QED
  BY <1>1, <1>3, <1>4, <1>5, <1>6, DeskIs DEF DeskStep

\* Saving the configuration, or leaving the editor.
LEMMA StepSave ==
  ASSUME DeskInv, SaveConfig \/ LeaveEditor
  PROVE  DeskStep
<1>1. /\ screen = "editor" /\ CloseEditor /\ screen' \in {"message", "main", "ended"} /\ opened' = Blank
      /\ UNCHANGED <<ops, next, chosen, handle, kept>>
  BY DEF SaveConfig, LeaveEditor, FileVars
<1>2. handle \in Volumes /\ (Current(handle) \/ kept) /\ lines \in Text
  BY <1>1, DeskIs, OpenVolume DEF VolumeScreens, EditorInv, EditorTypeOK
<1>3. disk' \in [Disks -> FileSystem] /\ GensKept
  <2>1. CASE Change(handle, "config", File(lines))
    <3>1. File(lines) \in ConfigFile
      BY <1>2, FilesAre
    <3>. QED
      BY <1>2, <2>1, <3>1, DeskIs, ChangeKeeps
  <2>2. CASE BreakConfig(handle)
    BY <1>2, <2>2, DeskIs, BreakKeeps
  <2>3. CASE UNCHANGED disk
    BY <2>3, DeskIs DEF GensKept
  <2>. QED
    BY <2>1, <2>2, <2>3 DEF SaveConfig, LeaveEditor
<1>4. faults' \in 0..MaxFaults
  BY DeskIs, BoundsAre DEF SaveConfig, LeaveEditor
<1>5. EditorStep /\ screen' \in Screens /\ DiskChosen'
  BY <1>1 DEF EditorStep, Screens, DiskChosen
<1>6. HandleCurrent' /\ (handle' = NoVolume \/ handle' \in Volumes)
  BY <1>1, <1>2, <1>3, DeskIs, HandleStays
<1>. QED
  BY <1>1, <1>3, <1>4, <1>5, <1>6, DeskIs DEF DeskStep

\* A key in the editor.
LEMMA StepTyping ==
  ASSUME DeskInv, Typing
  PROVE  DeskStep
<1>1. screen = "editor" /\ Key /\ UNCHANGED deskVars
  BY DEF Typing
<1>2. EditorStep
  BY <1>1 DEF EditorStep
<1>3. HandleCurrent' /\ DiskChosen'
  BY <1>1, DeskIs DEF deskVars, HandleCurrent, Current, DiskChosen
<1>. QED
  BY <1>1, <1>2, <1>3, DeskIs DEF deskVars, DeskStep

\* So every step of the wizard and its editor is one of the desk.
LEMMA StepDesk ==
  ASSUME DeskInv, Next
  PROVE  DeskStep
BY StepBegin, StepOpenPath, StepTurn, StepQuit, StepFlash, StepDelete, StepPut, StepSave, StepTyping DEF Next

\* Such a step keeps the invariant of the desk.
LEMMA DeskStepKeeps ==
  ASSUME DeskInv, DeskStep
  PROVE  DeskInv'
<1>1. EditorInv' /\ TextKept' /\ (screen' = "editor" <=> mode' # "closed")
  BY DeskIs, EditorStepKeeps, StepText, EditorScreen DEF DeskStep
<1>2. opened' \in Text
  <2>1. opened \in Text
    BY DEF DeskInv, DeskTyped, WizardTypeOK
  <2>. QED
    BY <2>1, FilesAre DEF DeskStep, EditorStep, deskVars, ShowEditor
<1>3. WizardTypeOK'
  BY <1>1, <1>2 DEF DeskStep, WizardTypeOK, Screens, Volumes
<1>. QED
  BY <1>1, <1>3 DEF DeskInv, DeskTyped, DeskStep

\* A disk is carried to the appliance: the session is over.
LEMMA CarryKeeps ==
  ASSUME DeskInv, Carry
  PROVE  DeskInv' /\ UNCHANGED <<mode, lines, undo, redo>>
<1>1. /\ screen = "ended" /\ mode = "closed"
      /\ handle' = NoVolume /\ kept' = FALSE /\ next' = "files" /\ ops' = 0 /\ faults' = 0
      /\ edits' = 0 /\ searches' = 0
      /\ disk' = [d \in Disks |-> [gen |-> 0, volume |-> FALSE, config |-> Missing, image |-> "missing"]]
      /\ UNCHANGED <<screen, chosen, opened, mode, lines, cy, cx, dirty, popup, errors, pattern, undo, redo>>
  BY DeskIs DEF Carry
<1>2. disk' \in [Disks -> FileSystem]
  BY <1>1, FilesAre DEF FileSystem
<1>3. EditorInv'
  <2>1. InText(lines, cy, cx)' <=> InText(lines, cy, cx)
    BY <1>1 DEF InText
  <2>2. edits' \in 0..MaxEdits /\ searches' \in 0..MaxSearches
    BY <1>1, EditBoundsAssumption
  <2>3. EditorTypeOK'
    BY <1>1, <2>1, <2>2, DeskIs DEF EditorInv, EditorTypeOK
  <2>4. Reset'
    BY <1>1, DeskIs DEF EditorInv, Reset
  <2>. QED
    BY <2>3, <2>4 DEF EditorInv
<1>4. WizardTypeOK'
  <2>1. ops' \in 0..MaxOps /\ faults' \in 0..MaxFaults /\ next' \in Actions
    BY <1>1, SessionBoundsAssumption DEF Actions
  <2>4. kept' \in BOOLEAN
    BY <1>1
  <2>2. opened' \in Text /\ chosen' \in Disks \cup {NoDisk}
    BY <1>1, DeskIs DEF DeskInv, DeskTyped, WizardTypeOK
  <2>3. screen' \in Screens /\ (screen' = "editor" <=> mode' # "closed")
    BY <1>1, DeskIs
  <2>. QED
    BY <1>1, <1>2, <2>1, <2>2, <2>3, <2>4 DEF WizardTypeOK, Screens
<1>5. HandleCurrent' /\ DiskChosen' /\ TextKept'
  BY <1>1, DeskIs DEF HandleCurrent, DiskChosen, TextKept, VolumeScreens
<1>. QED
  BY <1>1, <1>3, <1>4, <1>5 DEF DeskInv, DeskTyped

\* A step of the appliance leaves nq-disk alone.
LEMMA AsideKeeps ==
  ASSUME DeskInv, UNCHANGED vars
  PROVE  DeskInv'
<1>1. UNCHANGED <<editorVars, screen, next, chosen, disk, handle, kept, opened, ops, faults>>
  BY DEF vars, deskVars
<1>2. CASE screen = "editor"
  <2>1. /\ mode' = mode /\ lines' = lines /\ cy' = cy /\ cx' = cx /\ dirty' = dirty /\ popup' = popup
        /\ errors' = errors /\ pattern' = pattern /\ undo' = undo /\ redo' = redo
        /\ edits' = edits /\ searches' = searches
    BY <1>1 DEF editorVars
  <2>2. InText(lines, cy, cx)' <=> InText(lines, cy, cx)
    BY <2>1 DEF InText
  <2>3. EditorInv' /\ TextKept'
    BY <1>1, <2>1, <2>2, DeskIs DEF EditorInv, EditorTypeOK, Reset, TextKept
  <2>4. WizardTypeOK' /\ HandleCurrent' /\ DiskChosen'
    BY <1>1, <2>1, DeskIs DEF DeskInv, DeskTyped, WizardTypeOK, HandleCurrent, Current, DiskChosen
  <2>. QED
    BY <2>3, <2>4 DEF DeskInv, DeskTyped
<1>3. CASE screen # "editor"
  <2>1. EditorStep
    BY <1>1, <1>3 DEF EditorStep
  <2>2. HandleCurrent' /\ DiskChosen'
    BY <1>1, DeskIs DEF HandleCurrent, Current, DiskChosen
  <2>3. DeskStep
    BY <1>1, <2>1, <2>2, DeskIs DEF DeskStep
  <2>. QED
    BY <2>3, DeskStepKeeps
<1>. QED
  BY <1>2, <1>3

\* nq-disk starts with its menu, its editor closed and no volume open.
LEMMA InitDesk == Init => DeskInv
<1>. SUFFICES ASSUME Init PROVE DeskInv
  OBVIOUS
<1>1. EditorInv /\ TextKept /\ opened \in Text
  BY InitKeeps, FilesAre DEF Init, EditorInit, TextKept
<1>2. /\ disk \in [Disks -> FileSystem] /\ ops \in 0..MaxOps /\ faults \in 0..MaxFaults
  BY StartsAssumption DEF Init
<1>3. WizardTypeOK
  BY <1>1, <1>2 DEF Init, EditorInit, WizardTypeOK, Actions
<1>4. HandleCurrent /\ DiskChosen
  BY DEF Init, HandleCurrent, DiskChosen, VolumeScreens
<1>. QED
  BY <1>1, <1>3, <1>4 DEF DeskInv, DeskTyped

-----------------------------------------------------------------------------
(***************************************************************************)
(* The journey.                                                            *)
(***************************************************************************)

\* The kinds of files a disk may have, and the appliance's first boot with one.
LEMMA KindIs ==
  ASSUME NEW d
  PROVE  Kind(d) \in {"missing", "default", "saved", "foreign"}
BY Zenon DEF Kind

\* Carrying the disk over to the host boots it with the file that is on it.
LEMMA CarryBoots ==
  ASSUME Carry
  PROVE  BootStep
<1>1. PICK d \in Disks, any \in BOOLEAN : Begin([is |-> Kind(d), any |-> any])
  BY DEF Carry
<1>2. [is |-> Kind(d), any |-> any] \in Files
  BY KindIs DEF Files
<1>. QED
  BY <1>1, <1>2 DEF BootStep

JourneyInv == DeskInv /\ BootInv /\ LogsInOrder

\* The journey begins in order.
LEMMA InitJourney == JourneyInit => JourneyInv
<1>. SUFFICES ASSUME JourneyInit PROVE JourneyInv
  OBVIOUS
<1>1. DeskInv
  BY InitDesk DEF JourneyInit
<1>2. BootInv
  <2>. USE DEF JourneyInit, BootInit
  <2>1. born \in Nat /\ logs \in [0..Rotate -> 0..born] /\ shift \in 0..Rotate
    BY BootBoundsAssumption
  <2>2. lives \in 0..MaxLives /\ errs \in 0..MaxErrors
    BY BootBoundsAssumption
  <2>3. stick.is \in {"missing", "default", "saved", "foreign"} /\ stick.any \in BOOLEAN
    BY DEF NoStick
  <2>4. settings.zone \in Names \cup {AutoZone} /\ settings.fits \in BOOLEAN
    BY DEF NoSettings
  <2>5. link.zone \in Names \cup {NoZone} /\ link.named \in BOOLEAN
    BY DEF NoLink, Copy
  <2>6. /\ at = "off" /\ candidate \in 1..3 /\ doc \in Document \cup {NoDoc}
        /\ target \in Names \cup {NoZone} /\ name \in Names \cup {NoZone} /\ TZ \in Names \cup {NoZone}
        /\ hook \in {"none", "running", "good", "bad", "left"}
    OBVIOUS
  <2>7. slipped \in BOOLEAN
    OBVIOUS
  <2>. QED
    BY <2>1, <2>2, <2>3, <2>4, <2>5, <2>6, <2>7 DEF BootInv, BootTypeOK, Shifting
<1>3. LogsInOrder
  BY BootBoundsAssumption DEF JourneyInit, BootInit, LogsInOrder
<1>. QED
  BY <1>1, <1>2, <1>3 DEF JourneyInv

\* Each step of the journey, by program.
LEMMA JourneySteps ==
  ASSUME DeskInv, [JourneyNext]_journeyVars
  PROVE  /\ BootStep
         /\ Next \/ Carry \/ UNCHANGED vars
<1>1. CASE Next /\ UNCHANGED bootVars
  BY <1>1 DEF BootStep
<1>2. CASE Carry
  BY <1>2, CarryBoots
<1>3. CASE BootNext /\ UNCHANGED vars
  BY <1>3 DEF BootStep
<1>4. CASE UNCHANGED journeyVars
  BY <1>4 DEF BootStep, journeyVars
<1>. QED
  BY <1>1, <1>2, <1>3, <1>4 DEF JourneyNext

\* Every step of the journey, at the desk or on the host, keeps it in order.
LEMMA StepJourney == JourneyInv /\ [JourneyNext]_journeyVars => JourneyInv'
<1>. SUFFICES ASSUME JourneyInv, [JourneyNext]_journeyVars PROVE JourneyInv'
  OBVIOUS
<1>1. DeskInv /\ BootInv /\ LogsInOrder
  BY DEF JourneyInv
<1>2. BootStep /\ (Next \/ Carry \/ UNCHANGED vars)
  BY <1>1, JourneySteps
<1>3. DeskInv'
  BY <1>1, <1>2, StepDesk, DeskStepKeeps, CarryKeeps, AsideKeeps
<1>4. BootInv' /\ LogsInOrder'
  BY <1>1, <1>2, StepBoot, StepLogs
<1>. QED
  BY <1>3, <1>4 DEF JourneyInv

\* The inductive invariant of both programs: their types, the disk a question is
\* about, the text that has not been changed, and the log that is being renamed.
THEOREM JourneyInvHolds == JourneySpec => []JourneyInv
BY InitJourney, StepJourney, PTL DEF JourneySpec

\* Types, cursors in their texts and undo within its limit, whatever the keys.
THEOREM JourneyTyped == JourneySpec => []JourneyTypeOK
<1>1. JourneyInv => JourneyTypeOK
  BY DEF JourneyInv, DeskInv, DeskTyped, EditorInv, BootInv, JourneyTypeOK, TypeOK
<1>. QED
  BY <1>1, JourneyInvHolds, PTL

\* A screen that uses a volume has one, and it is the file system of today unless
\* the last flash was not brought to its end (wizard.rs:670, 688, 744-757).
THEOREM HandlesCurrent == JourneySpec => []HandleCurrent
<1>1. JourneyInv => HandleCurrent
  BY DEF JourneyInv, DeskInv
<1>. QED
  BY <1>1, JourneyInvHolds, PTL

\* The two validators agree on every document but for the listed differences, and
\* what is accepted makes a consistent command line (schema.rs:540-701,
\* config.rs:549-719, qemu.rs:73-310).
THEOREM ContractHolds == JourneySpec => []Contract
<1>1. JourneyInv => Contract
  <2>. SUFFICES ASSUME JourneyInv, at = "read" PROVE Agree(doc, Installed) /\ (AgentAccepts(doc, Installed) => ArgumentsFit(doc))
    BY DEF Contract
  <2>1. doc \in Document
    BY DEF JourneyInv, BootInv, BootTypeOK
  <2>. QED
    BY <2>1, EveryDocument
<1>. QED
  BY <1>1, JourneyInvHolds, PTL

\* Older logs have higher numbers and only the oldest are lost, for every length
\* of the rotation and every order of failures (logging.rs:23-51).
THEOREM LogsOrdered == JourneySpec => []LogsInOrder
<1>1. JourneyInv => LogsInOrder
  BY DEF JourneyInv
<1>. QED
  BY <1>1, JourneyInvHolds, PTL

\* What the editor's return does with the text.
LEMMA LeavingKeeps ==
  ASSUME DeskInv, [JourneyNext]_journeyVars, mode # "closed", mode' = "closed"
  PROVE  \/ /\ screen' = "message" /\ Valid(lines)
            /\ Current(handle) => disk'[handle.disk].config = File(lines)
         \/ mode = "quit" /\ lines = opened
         \/ mode = "discard"
         \/ screen' = "ended" /\ faults' < faults
<1>0. /\ screen = "editor" /\ handle \in Volumes /\ disk \in [Disks -> FileSystem] /\ TextKept
  BY DeskIs, OpenVolume DEF VolumeScreens
<1>1. CASE Next
  <2>1. CASE SaveConfig
    <3>1. mode = "save" /\ Valid(lines)
      BY <1>0, <2>1 DEF SaveConfig, TextKept
    <3>2. CASE Change(handle, "config", File(lines)) /\ screen' = "message"
      <4>1. ASSUME Current(handle) PROVE disk'[handle.disk].config = File(lines)
        <5>1. handle.disk \in Disks
          BY <1>0 DEF Volumes
        <5>2. disk' = [disk EXCEPT ![handle.disk]["config"] = File(lines)]
          BY <3>2, <4>1 DEF Change
        <5>. QED
          BY <1>0, <5>1, <5>2 DEF FileSystem
      <4>. QED
        BY <3>1, <3>2, <4>1
    <3>3. CASE screen' = "ended" /\ Fault
      BY <3>3, DeskIs, BoundsAre
    <3>. QED
      BY <2>1, <3>2, <3>3 DEF SaveConfig
  <2>2. CASE LeaveEditor
    BY <1>0, <2>2 DEF LeaveEditor, TextKept
  <2>3. CASE Typing
    BY <2>3, KeyMode DEF Typing
  <2>. QED
    BY <1>0, <1>1, <2>1, <2>2, <2>3 DEF Next, BeginAction, OpenPath, Turn, Leads, Quit, FlashDone,
       FlashNotOpened, FlashFails, DeleteFile, PutFile
<1>2. CASE Carry
  BY <1>0, <1>2 DEF Carry
<1>3. CASE UNCHANGED vars
  BY <1>3 DEF vars, editorVars
<1>. QED
  BY <1>1, <1>2, <1>3, JourneySteps

\* Work done in the editor is not lost unasked (ui/editor.rs:426-435, 559-577,
\* wizard.rs:668-685).
THEOREM EditsAreKept == JourneySpec => EditsKept
<1>1. JourneyInv /\ [JourneyNext]_journeyVars =>
        [ mode # "closed" /\ mode' = "closed" =>
            \/ /\ screen' = "message" /\ Valid(lines)
               /\ Current(handle) => disk'[handle.disk].config = File(lines)
            \/ mode = "quit" /\ lines = opened
            \/ mode = "discard"
            \/ screen' = "ended" /\ faults' < faults ]_vars
  BY LeavingKeeps DEF JourneyInv
<1>. QED
  BY <1>1, JourneyInvHolds, PTL DEF JourneySpec, EditsKept

\* What each step does to the timeline.
LEMMA StepTimeline == JourneyInv /\ [JourneyNext]_journeyVars => [History!Next]_(History!vars)
<1>. SUFFICES ASSUME JourneyInv, [JourneyNext]_journeyVars PROVE [History!Next]_(History!vars)
  OBVIOUS
<1>0. DeskInv /\ EditorInv
  BY DeskIs DEF JourneyInv
<1>1. CASE Next
  <2>1. EditorStep
    BY <1>0, <1>1, StepDesk DEF DeskStep
  <2>2. CASE Key
    BY <1>0, <2>2, KeyRefines
  <2>3. ASSUME NEW t \in Text, ShowEditor(t) PROVE History!Next
    BY <1>0, <2>3, OpenRefines DEF ShowEditor, History!Next
  <2>4. CASE CloseEditor
    BY <1>0, <2>4, CloseRefines DEF History!Next
  <2>5. CASE UNCHANGED editorVars
    BY <2>5, SameTimeline DEF editorVars
  <2>. QED
    BY <2>1, <2>2, <2>3, <2>4, <2>5 DEF EditorStep
<1>2. CASE Carry
  BY <1>0, <1>2, CarryKeeps, SameTimeline
<1>3. CASE UNCHANGED vars
  BY <1>3, SameTimeline DEF vars, editorVars
<1>. QED
  BY <1>0, <1>1, <1>2, <1>3, JourneySteps

\* Undo and redo are one line of versions, for every text, every limit and every
\* sequence of keys (ui/editor.rs:462-503).
THEOREM EditorIsTimeline == JourneySpec => EditorImplementsTimeline
<1>1. JourneyInit => History!Init
  BY DEF JourneyInit, Init, EditorInit, History!Init
<1>. QED
  BY <1>1, JourneyInvHolds, StepTimeline, PTL DEF JourneySpec, EditorImplementsTimeline, History!Spec
=============================================================================
