------------------------------ MODULE AgentBoot ------------------------------
(***************************************************************************)
(* One boot of the appliance up to its first guest (agent/src/main.rs):    *)
(* the choice of a configuration, the host's time zone (timezone.rs), the  *)
(* log and its rotation (logging.rs), and the startup hook (hooks.rs).     *)
(* Every file operation is a step, so that the power may fail between two  *)
(* of them.  /etc is in memory: it outlives the agent and not the power.   *)
(* The log is on a disk.  What comes after is in AgentLifecycle.           *)
(***************************************************************************)
EXTENDS Schema

CONSTANTS
  Documents,  \* configurations that are tried in one boot
  Reread,     \* those that are tried over several
  Zones,      \* time zones that tzdata installs
  Texas,      \* DEFAULT_TEXAS_ZONE
  HostArch,   \* the processor the agent is built for
  Rotate,     \* logging.rotate: old logs that are kept
  MaxLives,   \* restarts: power cuts, deaths of the agent, exits from the shell
  MaxErrors   \* file operations and processes that fail

ASSUME ZonesAssumption == Zones \cup {Texas} \subseteq Names
ASSUME DocumentsAssumption ==
  {Bundled, Example} \subseteq Documents /\ Reread \subseteq Documents /\ Documents \subseteq Document
ASSUME BootBoundsAssumption == Rotate \in Nat \ {0} /\ MaxLives \in Nat /\ MaxErrors \in Nat

VARIABLES
  at,        \* how far the boot has come; off before the first one
  stick,     \* what is known of the configuration file on the data volume
  candidate, \* the configuration that is tried next
  doc,       \* what the file of the data volume says, then the file that was read
  settings,  \* what the rest of the boot needs of it
  tzdata,    \* the image has /usr/share/zoneinfo
  target,    \* the time zone that is being installed
  name, link, TZ, \* /etc/timezone, /etc/localtime and the environment
  logs,      \* numbers of the logs: 0 the current one, 1 to Rotate the older; 0 is none
  born,      \* history: logs begun so far, the number of the youngest
  shift,     \* the log to be renamed next
  slipped,   \* history: a rename of a log has failed
  hook,      \* the startup hook: its state while it is waited for; left to run if not
  lives, errs \* how much of each bound is left

bootVars == <<at, stick, candidate, doc, settings, tzdata, target, name, link, TZ,
              logs, born, shift, slipped, hook, lives, errs>>
etcVars  == <<name, link, TZ>>
logVars  == <<logs, born, shift, slipped>>
readVars == <<stick, candidate, doc, settings, tzdata>>

NoDoc  == [is |-> "none"]
NoZone == "none"
AutoZone == "auto"

\* /etc/localtime: a link, which names its zone, or a copy of the zone's file.
Link(z) == [zone |-> z, named |-> TRUE]
Copy(z) == [zone |-> z, named |-> FALSE]
NoLink  == Copy(NoZone)

NoStick    == [is |-> "missing", any |-> FALSE]
NoSettings == [zone |-> AutoZone, fits |-> TRUE]

BootTypeOK ==
  /\ at \in {"off", "boot", "load", "read", "zone", "name", "stage", "install", "env", "log", "shift",
             "open", "arch", "hook", "waiting", "ready", "shell"}
  /\ stick.is \in {"missing", "default", "saved", "foreign"} /\ stick.any \in BOOLEAN
  /\ candidate \in 1..3
  /\ doc \in Document \cup {NoDoc} /\ (at = "read" => doc # NoDoc)
  /\ settings.zone \in Names \cup {AutoZone} /\ settings.fits \in BOOLEAN /\ tzdata \in BOOLEAN
  /\ target \in Names \cup {NoZone} /\ name \in Names \cup {NoZone}
  /\ link.zone \in Names \cup {NoZone} /\ link.named \in BOOLEAN /\ TZ \in Names \cup {NoZone}
  /\ born \in Nat /\ logs \in [0..Rotate -> 0..born] /\ shift \in 0..Rotate
  /\ slipped \in BOOLEAN /\ hook \in {"none", "running", "good", "bad", "left"}
  /\ lives \in 0..MaxLives /\ errs \in 0..MaxErrors

BootInit ==
  /\ at = "off" /\ stick = NoStick /\ candidate = 1 /\ doc = NoDoc /\ settings = NoSettings
  /\ tzdata = TRUE
  /\ target = NoZone /\ name = NoZone /\ link = NoLink /\ TZ = NoZone
  /\ logs = [i \in 0..Rotate |-> 0] /\ born = 0 /\ shift = 0 /\ slipped = FALSE /\ hook = "none"
  /\ lives = 0 /\ errs = 0

\* The first boot, with a data volume that is new or has been used for long.
Begin(file) ==
  /\ at = "off"
  /\ at' = "boot" /\ stick' = file /\ tzdata' \in BOOLEAN
  /\ lives' = (IF file.any THEN 0 ELSE MaxLives) /\ errs' = (IF file.any THEN 0 ELSE MaxErrors)
  /\ \/ logs' = [i \in 0..Rotate |-> (Rotate + 1) - i] /\ born' = Rotate + 1
     \/ UNCHANGED <<logs, born>>
  /\ UNCHANGED <<candidate, doc, settings, target, etcVars, shift, slipped, hook>>

Error == errs > 0 /\ errs' = errs - 1

-----------------------------------------------------------------------------
(***************************************************************************)
(* The configuration.                                                      *)
(***************************************************************************)

Installed == IF tzdata THEN Zones ELSE {}

\* What a file of each kind may say.  Where stick.any is set every document is
\* tried, and the boot is followed without restarts.
Says ==
  LET all == IF stick.any THEN Documents ELSE Reread
  IN CASE stick.is = "missing" -> {NoDoc}
       [] stick.is = "default" -> {Bundled}
       [] stick.is = "saved"   -> {d \in all : HostAccepts(d)}
       [] stick.is = "foreign" -> all

\* Between two boots a file may have been edited, in the shell or elsewhere.
TurnOn ==
  /\ at = "boot"
  /\ at' = "load" /\ doc' \in Says
  /\ UNCHANGED <<stick, candidate, settings, tzdata, target, etcVars, logVars, hook, lives, errs>>

\* The data volume's file, then the example in the image.
Candidates == <<doc, Example>>

Readable(d) == d # NoDoc /\ Parses(d)

\* A candidate that is not there, cannot be read or does not parse is passed over.
PassOver ==
  /\ at = "load" /\ candidate <= 2
  /\ IF Readable(Candidates[candidate]) THEN Error ELSE UNCHANGED errs
  /\ candidate' = candidate + 1 /\ doc' = NoDoc
  /\ UNCHANGED <<at, stick, settings, tzdata, target, etcVars, logVars, hook, lives>>

Load ==
  /\ at = "load" /\ candidate <= 2
  /\ Readable(Candidates[candidate])
  /\ doc' = Candidates[candidate] /\ at' = "read"
  /\ UNCHANGED <<stick, candidate, settings, tzdata, target, etcVars, logVars, hook, lives, errs>>

NoneLoads ==
  /\ at = "load" /\ candidate > 2
  /\ at' = "shell"
  /\ UNCHANGED <<readVars, target, etcVars, logVars, hook, lives, errs>>

\* The version and validate: no other candidate is tried.
Validate ==
  /\ at = "read"
  /\ doc' = NoDoc
  /\ IF AgentAccepts(doc, Installed)
     THEN at' = "zone" /\ settings' = [zone |-> Filled(doc).timezone, fits |-> doc.arch = HostArch]
     ELSE at' = "shell" /\ UNCHANGED settings
  /\ UNCHANGED <<stick, candidate, tzdata, target, etcVars, logVars, hook, lives, errs>>

-----------------------------------------------------------------------------
(***************************************************************************)
(* The time zone.                                                          *)
(***************************************************************************)

Detected ==
  IF TZ \in Installed THEN TZ
  ELSE IF name \in Installed THEN name
  ELSE IF link.named /\ link.zone \in Installed THEN link.zone ELSE Texas

\* A zone of the host that cannot be read or found is passed over.
Resolve ==
  /\ at = "zone"
  /\ \/ target' = (IF settings.zone = AutoZone THEN Detected ELSE settings.zone) /\ UNCHANGED errs
     \/ settings.zone = AutoZone /\ target' \in {name, link.zone, Texas} \ {NoZone} /\ Error
  /\ at' = "name"
  /\ UNCHANGED <<readVars, etcVars, logVars, hook, lives>>

\* zoneinfo_file finds the zone, and its name is written if it can be; a write that
\* fails may leave the file empty.
WriteName ==
  /\ at = "name" /\ target \in Installed
  /\ \/ name' = target /\ UNCHANGED errs
     \/ name' \in {name, NoZone} /\ Error
  /\ at' = "stage"
  /\ UNCHANGED <<readVars, target, link, TZ, logVars, hook, lives>>

\* What cannot be applied does not matter to "auto", and ends the boot otherwise.
ZoneFails ==
  /\ at \in {"name", "stage", "install"}
  /\ IF at = "name" /\ target \notin Installed THEN UNCHANGED errs ELSE Error
  /\ at' = (IF settings.zone = AutoZone THEN "log" ELSE "shell")
  /\ target' = NoZone
  /\ UNCHANGED <<readVars, etcVars, logVars, hook, lives>>

\* install_localtime: the link, or failing that a copy, is made beside
\* /etc/localtime, where nothing reads it, and renamed.
Stage ==
  /\ at = "stage"
  /\ at' = "install"
  /\ UNCHANGED <<readVars, target, etcVars, logVars, hook, lives, errs>>

Install ==
  /\ at = "install"
  /\ \/ link' = Link(target) /\ UNCHANGED errs
     \/ link' = Copy(target) /\ Error
  /\ at' = "env"
  /\ UNCHANGED <<readVars, target, name, TZ, logVars, hook, lives>>

SetTZ ==
  /\ at = "env"
  /\ TZ' = target /\ target' = NoZone
  /\ at' = "log"
  /\ UNCHANGED <<readVars, name, link, logVars, hook, lives, errs>>

-----------------------------------------------------------------------------
(***************************************************************************)
(* The log.                                                                *)
(***************************************************************************)

\* resolve_log_path: logging is off, its storage is not there, or the
\* redirection is switched off: the log on the disk is left alone.
LogElsewhere ==
  /\ at = "log"
  /\ at' = "arch"
  /\ UNCHANGED <<readVars, target, etcVars, logVars, hook, lives, errs>>

\* rotate_if_needed: a log that is absent or not large enough is not rotated.
NoRotation ==
  /\ at = "log"
  /\ at' = "open"
  /\ UNCHANGED <<readVars, target, etcVars, logVars, hook, lives, errs>>

\* Seeded defect: room is made at the wrong end.
RemoveYoungest ==
  /\ at = "log" /\ logs[0] # 0
  /\ logs' = [logs EXCEPT ![1] = 0]
  /\ shift' = Rotate - 1 /\ at' = "shift"
  /\ UNCHANGED <<readVars, target, etcVars, born, slipped, hook, lives, errs>>

RemoveOldest ==
  /\ at = "log" /\ logs[0] # 0
  /\ \/ logs' = [logs EXCEPT ![Rotate] = 0] /\ UNCHANGED errs
     \/ UNCHANGED logs /\ Error
  /\ shift' = Rotate - 1 /\ at' = "shift"
  /\ UNCHANGED <<readVars, target, etcVars, born, slipped, hook, lives>>

\* One log is renamed, down to the current one; errors are ignored.
ShiftLog ==
  /\ at = "shift"
  /\ \/ /\ logs' = (IF logs[shift] = 0 THEN logs
                   ELSE [logs EXCEPT ![shift + 1] = logs[shift], ![shift] = 0])
        /\ UNCHANGED <<slipped, errs>>
     \/ /\ logs[shift] # 0 /\ Error
        /\ slipped' = TRUE /\ UNCHANGED logs
  /\ IF shift = 0 THEN at' = "open" /\ UNCHANGED shift
     ELSE shift' = shift - 1 /\ UNCHANGED at
  /\ UNCHANGED <<readVars, target, etcVars, born, hook, lives>>

\* A log is begun or appended to; if it cannot be opened there is none.
OpenLog ==
  /\ at = "open"
  /\ \/ /\ logs[0] = 0
        /\ born' = born + 1 /\ logs' = [logs EXCEPT ![0] = born + 1]
        /\ UNCHANGED errs
     \/ logs[0] # 0 /\ UNCHANGED <<logs, born, errs>>
     \/ UNCHANGED <<logs, born>> /\ Error
  /\ at' = "arch"
  /\ UNCHANGED <<readVars, target, etcVars, shift, slipped, hook, lives>>

-----------------------------------------------------------------------------
(***************************************************************************)
(* The processor and the startup hook.                                     *)
(***************************************************************************)

CheckArch ==
  /\ at = "arch"
  /\ at' = (IF settings.fits THEN "hook" ELSE "shell")
  /\ UNCHANGED <<readVars, target, etcVars, logVars, hook, lives, errs>>

\* finish: on_failure decides.
Finish == at' \in {"ready", "shell"}

\* No script, or one that is not there; one that is not waited for, or cannot be
\* started; one that is waited for.
StartHook ==
  /\ at = "hook"
  /\ \/ at' = "ready" /\ hook' \in {"none", "left"} /\ UNCHANGED errs
     \/ Error /\ Finish /\ UNCHANGED hook
     \/ hook' = "running" /\ at' = "waiting" /\ UNCHANGED errs
  /\ UNCHANGED <<readVars, target, etcVars, logVars, lives>>

WaitHook ==
  /\ at = "waiting"
  /\ \/ hook = "good" /\ at' = "ready"
     \/ hook = "bad" /\ Finish
  /\ hook' = "none"
  /\ UNCHANGED <<readVars, target, etcVars, logVars, lives, errs>>

\* try_wait fails: the hook counts as failed and is left running.
HookUnwatched ==
  /\ at = "waiting" /\ Error
  /\ hook' = (IF hook = "running" THEN "left" ELSE "none")
  /\ Finish
  /\ UNCHANGED <<readVars, target, etcVars, logVars, lives>>

\* Seeded defect: the hook is waited for and not killed.
HookGoesOn == at = "waiting" /\ hook = "running" /\ UNCHANGED bootVars

\* The hook is killed when its time is over.
HookTimesOut ==
  /\ at = "waiting" /\ hook = "running"
  /\ hook' = "none" /\ Finish
  /\ UNCHANGED <<readVars, target, etcVars, logVars, lives, errs>>

HookEnds ==
  /\ hook = "running"
  /\ hook' \in {"good", "bad"}
  /\ UNCHANGED <<at, readVars, target, etcVars, logVars, lives, errs>>

-----------------------------------------------------------------------------
(***************************************************************************)
(* Starting again.                                                         *)
(***************************************************************************)

Again ==
  /\ at \notin {"off", "boot"} /\ lives > 0
  /\ lives' = lives - 1
  /\ at' = "boot" /\ candidate' = 1 /\ doc' = NoDoc /\ settings' = NoSettings
  /\ target' = NoZone /\ TZ' = NoZone /\ hook' = "none"
  /\ shift' = 0
  /\ UNCHANGED <<stick, tzdata, logs, born, slipped, errs>>

PowerCut == Again /\ name' = NoZone /\ link' = NoLink

\* The agent dies, or the shell is left, and init starts a new one.
Respawn == Again /\ UNCHANGED <<name, link>>

AgentStep ==
  \/ PassOver \/ Load \/ NoneLoads \/ Validate
  \/ Resolve \/ WriteName \/ ZoneFails \/ Stage \/ Install \/ SetTZ
  \/ LogElsewhere \/ NoRotation \/ RemoveOldest \/ ShiftLog \/ OpenLog
  \/ CheckArch \/ StartHook \/ WaitHook \/ HookUnwatched \/ HookTimesOut

BootNext == TurnOn \/ AgentStep \/ HookEnds \/ PowerCut \/ Respawn

-----------------------------------------------------------------------------
(***************************************************************************)
(* Properties.                                                             *)
(***************************************************************************)

\* The editor's validator and the agent's, two programs on two machines, judge one
\* file: they refuse the same uses of 3dfx, what the editor accepts the agent refuses
\* for the reasons of Gaps only, what the agent accepts the editor refuses for those
\* of Wider only, whichever zones each machine has, and what the agent accepts
\* gives QEMU a consistent command line (schema.rs:523-701, config.rs:549-719,
\* timezone.rs:42-58, qemu.rs:73-310).
Contract ==
  at = "read" => Agree(doc, Installed) /\ (AgentAccepts(doc, Installed) => ArgumentsFit(doc))

\* Whatever the order of power cuts, deaths of the agent and renames that fail,
\* an older log has the higher number, and as long as no rename has failed only
\* the oldest logs are lost (logging.rs:23-51).
LogsInOrder ==
  LET kept == {i \in 0..Rotate : logs[i] # 0}
  IN /\ \A i, j \in kept : i < j => logs[i] > logs[j]
     /\ ~slipped => \A n \in 1..born :
          (\A i \in kept : logs[i] # n) => \A i \in kept : n < logs[i]

\* The guest's clock, which goes by TZ and by /etc/localtime, has one zone.
OneClock ==
  IF settings.zone = AutoZone THEN TZ \in {NoZone, link.zone}
  ELSE TZ = settings.zone /\ link.zone = settings.zone

\* Every boot that is not cut short comes to its first guest, with one clock, or to
\* the rescue shell: a hook that hangs does not keep it (hooks.rs:40-66), and a zone that cannot be
\* installed is left as it was or reported (timezone.rs:146-168).
BootEnds == at = "load" ~> (at \in {"boot", "shell"} \/ (at = "ready" /\ OneClock))

=============================================================================
