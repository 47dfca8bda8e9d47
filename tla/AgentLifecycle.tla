--------------------------- MODULE AgentLifecycle ---------------------------
(***************************************************************************)
(* The control loop of the native-qemu agent (agent/src/main.rs): init     *)
(* starts the agent, the agent reads its configuration, runs the startup   *)
(* hook, prepares a VM, owns the host services and the QEMU child for as   *)
(* long as the guest runs, and then acts on the lifecycle policy: start    *)
(* the VM again, power the host off, or become a rescue shell.  Leaving    *)
(* the rescue shell, or the death of the agent, makes init start it again. *)
(*                                                                         *)
(* The agent is one thread here; the threads it starts beside a running VM *)
(* are the subject of VmSession, the services' own start-up and tear-down  *)
(* of RuntimeServices.                                                     *)
(***************************************************************************)
EXTENDS Naturals

CONSTANTS
  MaxRestarts,  \* bound on lifecycle.max_restart_attempts of the configs read
  MaxFaults,    \* bound on kills of the agent and failing system commands
  LogMayFill    \* may the volume that holds the log file run out of space?

ASSUME MaxRestartsAssumption == MaxRestarts \in Nat
ASSUME MaxFaultsAssumption   == MaxFaults \in Nat
ASSUME LogMayFillAssumption  == LogMayFill \in BOOLEAN

VARIABLES
  pc,        \* where the agent process is
  cfg,       \* the configuration it runs with
  attempts,  \* abnormal exits of the VM since the last clean one
  console,   \* where fd 1 and 2 of the process lead
  services,  \* is a RuntimeServices value alive?
  guest,     \* the QEMU child the agent waits for
  outcome,   \* what run_one_vm_lifecycle returned
  orphan,    \* a QEMU process runs that no agent waits for
  stale,     \* services of an agent that has died were left running
  logFull,   \* does a write to the log file fail?
  faults,    \* faults injected so far
  launches,  \* history: VMs spawned since the agent started or a clean exit
  hookDone,  \* history: the shutdown hook ran since the last spawn
  lapses     \* history: a wait for QEMU has failed, an agent has died

agentVars   == <<pc, cfg, attempts, console, services, guest, outcome>>
hostVars    == <<orphan, stale, logFull, faults, lapses>>
historyVars == <<launches, hookDone>>
vars        == <<agentVars, hostVars, historyVars>>

(***************************************************************************)
(* The configuration, reduced to the keys the control loop branches on.    *)
(* cross is vm.arch differing from the host's architecture.                *)
(***************************************************************************)
EndPolicies == {"poweroff_host", "restart_vm", "drop_to_shell"}

Config ==
  [ onShutdown    : EndPolicies,
    onCrash       : EndPolicies,
    onMissing     : {"rescue_shell", "boot_anyway"},
    maxRestarts   : 0..MaxRestarts,
    startupAborts : BOOLEAN,    \* startup.on_failure = "abort_to_rescue"
    shutdownAborts: BOOLEAN,
    cross         : BOOLEAN ]

\* The agent's places.  "off" and "shell" are the host powered down and the
\* process replaced by /bin/sh; all others are points of main().
Preparing == {"resources", "disk", "services", "args", "spawn"}
AfterVm   == {"shutdown_hook", "return", "decide"}
Places    == {"load", "init_log", "startup", "drop", "poweroff", "shell", "off", "wait"}
               \cup Preparing \cup AfterVm

TypeOK ==
  /\ pc \in Places
  /\ cfg \in Config
  /\ attempts \in 0..(MaxRestarts + 1)
  /\ console \in {"tty", "log"}
  /\ services \in BOOLEAN
  /\ guest \in {"none", "running", "success", "failure"}
  /\ outcome \in {"none", "clean", "crashed", "fatal"}
  /\ orphan \in BOOLEAN
  /\ stale \in BOOLEAN
  /\ logFull \in BOOLEAN
  /\ faults \in 0..MaxFaults
  /\ launches \in 0..(MaxRestarts + 1)
  /\ hookDone \in BOOLEAN
  /\ lapses \subseteq {"wait", "death"}

-----------------------------------------------------------------------------
(***************************************************************************)
(* Starting.                                                               *)
(***************************************************************************)

\* A fresh agent process, as init (or runit) starts it: stdio on the console,
\* no VM, no services of its own.  The history counters follow the process.
FreshProcess ==
  /\ pc' = "load"
  /\ attempts' = 0
  /\ console' = "tty"
  /\ services' = FALSE
  /\ guest' = "none"
  /\ outcome' = "none"
  /\ launches' = 0
  /\ hookDone' = FALSE

Init ==
  /\ pc = "load"
  /\ cfg \in Config
  /\ attempts = 0
  /\ console = "tty"
  /\ services = FALSE
  /\ guest = "none"
  /\ outcome = "none"
  /\ orphan = FALSE
  /\ stale = FALSE
  /\ logFull = FALSE
  /\ faults = 0
  /\ launches = 0
  /\ hookDone = FALSE
  /\ lapses = {}

\* println! and eprintln! panic when the write fails, and the release profile
\* aborts on panic: a step that reports something needs a log it can write.
CanPrint == console = "log" => ~logFull

Goto(place) == pc' = place

\* load_config, the version check, validate and the timezone: each failure
\* drops to the shell.  A config read after a restart need not be the old one.
LoadConfig ==
  /\ pc = "load"
  /\ \/ \E c \in Config : cfg' = c /\ Goto("init_log")
     \/ cfg' = cfg /\ Goto("drop")
  /\ UNCHANGED <<attempts, console, services, guest, outcome, hostVars, historyVars>>

\* logging::init redirects fd 1 and 2 to the log file, unless the environment
\* forbids it or the file cannot be opened; main then reports its start and
\* compares the architectures.
InitLogging ==
  /\ pc = "init_log"
  /\ console' \in {"tty", "log"}
  /\ console' = "log" => ~logFull
  /\ IF cfg.cross THEN Goto("drop") ELSE Goto("startup")
  /\ UNCHANGED <<cfg, attempts, services, guest, outcome, hostVars, historyVars>>

\* hooks::run: no script, a script that succeeds, or one that fails, cannot be
\* started or is killed at its deadline, which it reports; the failing ones
\* abort when so configured.
HookAborts(aborts) == {FALSE} \cup {aborts /\ CanPrint}

\* The startup hook; then the SSH server is started and the loop entered.
StartupHook ==
  /\ pc = "startup"
  /\ \E abort \in HookAborts(cfg.startupAborts) :
       IF abort THEN Goto("drop") ELSE Goto("resources")
  /\ UNCHANGED <<cfg, attempts, console, services, guest, outcome, hostVars, historyVars>>

-----------------------------------------------------------------------------
(***************************************************************************)
(* One VM: run_one_vm_lifecycle.  Every `?` and `return Err` leaves the    *)
(* function, which drops the RuntimeServices it may have started.          *)
(***************************************************************************)

\* Seeded defect: an early return that keeps the services (a leaked owner).
ReturnFatalKeepingServices ==
  /\ outcome' = "fatal"
  /\ Goto("decide")
  /\ UNCHANGED <<services, guest, orphan>>

\* An early return before the QEMU child exists, with the services dropped.
ReturnFatal ==
  /\ outcome' = "fatal"
  /\ services' = FALSE
  /\ Goto("decide")
  /\ UNCHANGED <<guest, orphan>>

Continue(place) ==
  /\ Goto(place)
  /\ UNCHANGED <<outcome, services, guest, orphan>>

\* A required USB device may be missing.
CheckUsb ==
  /\ pc = "resources"
  /\ \E missing \in BOOLEAN :
       IF missing /\ cfg.onMissing = "rescue_shell"
       THEN ReturnFatal
       ELSE (missing => CanPrint) /\ Continue("disk")
  /\ UNCHANGED <<cfg, attempts, console, stale, logFull, faults, lapses, historyVars>>

\* storage::resolve, the seed copy and the bridge ACL; then "launching VM".
ResolveDisk ==
  /\ pc = "disk"
  /\ \/ CanPrint /\ Continue("services")
     \/ ReturnFatal
  /\ UNCHANGED <<cfg, attempts, console, stale, logFull, faults, lapses, historyVars>>

\* RuntimeServices::start; what it started before a failure is dropped.
StartServices ==
  /\ pc = "services"
  /\ \/ /\ services' = TRUE
        /\ Goto("args")
        /\ UNCHANGED <<outcome, guest, orphan>>
     \/ ReturnFatal
  /\ UNCHANGED <<cfg, attempts, console, stale, logFull, faults, lapses, historyVars>>

BuildArgs ==
  /\ pc = "args"
  /\ \/ CanPrint /\ Continue("spawn")
     \/ ReturnFatal
  /\ UNCHANGED <<cfg, attempts, console, stale, logFull, faults, lapses, historyVars>>

SpawnQemu ==
  /\ pc = "spawn"
  /\ \/ /\ guest' = "running"
        /\ launches' = launches + 1
        /\ hookDone' = FALSE
        /\ Goto("wait")
        /\ UNCHANGED <<outcome, services, orphan>>
     \/ ReturnFatal /\ UNCHANGED historyVars
  /\ UNCHANGED <<cfg, attempts, console, stale, logFull, faults, lapses>>

\* The QEMU process ends: the guest shut down, or QEMU failed.
GuestExits ==
  /\ guest = "running"
  /\ guest' \in {"success", "failure"}
  /\ UNCHANGED <<pc, cfg, attempts, console, services, outcome, hostVars, historyVars>>

\* Seeded defect: only a successful exit ends the wait.
ReapSuccessOnly ==
  /\ pc = "wait"
  /\ guest = "success"
  /\ Goto("shutdown_hook")
  /\ UNCHANGED <<cfg, attempts, console, services, guest, outcome, hostVars, historyVars>>

\* child.wait() returns the status.
ReapGuest ==
  /\ pc = "wait"
  /\ guest \in {"success", "failure"}
  /\ Goto("shutdown_hook")
  /\ UNCHANGED <<cfg, attempts, console, services, guest, outcome, hostVars, historyVars>>

\* Seeded defect: a failing wait is reported as a crash of the VM.
WaitFailsAsCrash ==
  /\ pc = "wait"
  /\ faults < MaxFaults
  /\ faults' = faults + 1
  /\ lapses' = lapses \cup {"wait"}
  /\ orphan' = (orphan \/ guest = "running")
  /\ guest' = "none"
  /\ outcome' = "crashed"
  /\ services' = FALSE
  /\ Goto("decide")
  /\ UNCHANGED <<cfg, attempts, console, stale, logFull, historyVars>>

\* child.wait() fails: the function returns without the shutdown hook, and the
\* child, which dropping a Child does not kill, is left behind.
WaitFails ==
  /\ pc = "wait"
  /\ faults < MaxFaults
  /\ faults' = faults + 1
  /\ lapses' = lapses \cup {"wait"}
  /\ orphan' = (orphan \/ guest = "running")
  /\ guest' = "none"
  /\ outcome' = "fatal"
  /\ services' = FALSE
  /\ Goto("decide")
  /\ UNCHANGED <<cfg, attempts, console, stale, logFull, historyVars>>

\* The shutdown hook runs with the services still up, and decides the result.
ShutdownHook ==
  /\ pc = "shutdown_hook"
  /\ hookDone' = TRUE
  /\ \E abort \in HookAborts(cfg.shutdownAborts) :
       outcome' = IF abort THEN "fatal"
                  ELSE IF guest = "success" THEN "clean" ELSE "crashed"
  /\ Goto("return")
  /\ UNCHANGED <<cfg, attempts, console, services, guest, hostVars, launches>>

\* The function returns and `services` goes out of scope.
ReturnResult ==
  /\ pc = "return"
  /\ services' = FALSE
  /\ guest' = "none"
  /\ Goto("decide")
  /\ UNCHANGED <<cfg, attempts, console, outcome, hostVars, historyVars>>

-----------------------------------------------------------------------------
(***************************************************************************)
(* The policy: the match in main()'s loop.                                 *)
(***************************************************************************)

\* A clean exit forgets the crashes only when the VM is started again.
ActOnClean ==
  /\ pc = "decide"
  /\ outcome = "clean"
  /\ \/ /\ cfg.onShutdown = "restart_vm"
        /\ attempts' = 0
        /\ launches' = 0
        /\ Goto("resources")
     \/ /\ cfg.onShutdown = "drop_to_shell"
        /\ Goto("drop")
        /\ UNCHANGED <<attempts, launches>>
     \/ /\ cfg.onShutdown = "poweroff_host"
        /\ CanPrint
        /\ Goto("poweroff")
        /\ UNCHANGED <<attempts, launches>>
  /\ UNCHANGED <<cfg, console, services, guest, outcome, hostVars, hookDone>>

\* Where a crash leads once it has been counted.
AfterCrash ==
  CASE cfg.onCrash = "poweroff_host" -> "poweroff"
    [] cfg.onCrash = "restart_vm"    -> "resources"
    [] OTHER                         -> "drop"

CrashStep(count, limitHit) ==
  /\ pc = "decide"
  /\ outcome = "crashed"
  /\ CanPrint
  /\ attempts' = count
  /\ Goto(IF limitHit THEN "drop" ELSE AfterCrash)
  /\ UNCHANGED <<cfg, console, services, guest, outcome, hostVars, historyVars>>

\* Seeded defects: the restart policy looked at before the limit; the limit
\* compared with the count before this crash.
PolicyBeforeLimit  == CrashStep(attempts + 1, attempts >= cfg.maxRestarts /\ cfg.onCrash # "restart_vm")
LimitOffByOne      == CrashStep(attempts + 1, attempts > cfg.maxRestarts)

\* The limit is tested before the crash policy is looked at.
ActOnCrash == CrashStep(attempts + 1, attempts + 1 > cfg.maxRestarts)

ActOnFatal ==
  /\ pc = "decide"
  /\ outcome = "fatal"
  /\ Goto("drop")
  /\ UNCHANGED <<cfg, attempts, console, services, guest, outcome, hostVars, historyVars>>

\* Seeded defect: the agent exits for want of a shell, and init starts it again.
DropToShellByExit ==
  /\ pc = "drop"
  /\ CanPrint
  /\ FreshProcess
  /\ UNCHANGED <<cfg, hostVars>>

\* drop_to_shell: print the reason, then exec /bin/sh, which inherits fd 1, 2.
DropToShell ==
  /\ pc = "drop"
  /\ CanPrint
  /\ Goto("shell")
  /\ UNCHANGED <<cfg, attempts, console, services, guest, outcome, hostVars, historyVars>>

\* poweroff -f takes the host down ...
PowerOff ==
  /\ pc = "poweroff"
  /\ CanPrint
  /\ Goto("off")
  /\ UNCHANGED <<cfg, attempts, console, services, guest, outcome, hostVars, historyVars>>

\* ... and when it, or the exec of the shell, fails, main returns and init
\* starts the agent again.
CommandFails ==
  /\ pc \in {"poweroff", "drop"}
  /\ CanPrint
  /\ faults < MaxFaults
  /\ faults' = faults + 1
  /\ FreshProcess
  /\ UNCHANGED <<cfg, orphan, stale, logFull, lapses>>

-----------------------------------------------------------------------------
(***************************************************************************)
(* init, the operator and the host.                                        *)
(***************************************************************************)

\* The operator types exit; init starts the agent again.
LeaveShell ==
  /\ pc = "shell"
  /\ FreshProcess
  /\ UNCHANGED <<cfg, hostVars>>

\* The agent process ends without unwinding: what it owned lives on.
Abandon ==
  /\ FreshProcess
  /\ orphan' = (orphan \/ guest = "running")
  /\ stale' = (stale \/ services)
  /\ lapses' = lapses \cup {"death"}
  /\ UNCHANGED <<cfg, logFull>>

Killed ==
  /\ pc \notin {"shell", "off"}
  /\ faults < MaxFaults
  /\ faults' = faults + 1
  /\ Abandon

\* A report cannot be written to the full log: the print macro panics.  At
\* "init_log" the redirection is the step's own; at "wait" it is the signal,
\* QMP or hotplug thread that reports something.
Reporting ==
  \/ pc \in {"startup", "disk", "services", "args", "wait", "shutdown_hook",
             "decide", "drop", "poweroff"}
  \/ pc = "resources" /\ cfg.onMissing = "boot_anyway"

Panic ==
  /\ logFull
  /\ pc = "init_log" \/ (console = "log" /\ Reporting)
  /\ Abandon
  /\ UNCHANGED faults

OrphanExits ==
  /\ orphan
  /\ orphan' = FALSE
  /\ UNCHANGED <<agentVars, stale, logFull, faults, lapses, historyVars>>

LogFills ==
  /\ LogMayFill /\ ~logFull
  /\ logFull' = TRUE
  /\ UNCHANGED <<agentVars, orphan, stale, faults, lapses, historyVars>>

\* Powered down; the model stops here.
Off == pc = "off" /\ UNCHANGED vars

AgentStep ==
  \/ LoadConfig \/ InitLogging \/ StartupHook
  \/ CheckUsb \/ ResolveDisk \/ StartServices \/ BuildArgs \/ SpawnQemu
  \/ ReapGuest \/ ShutdownHook \/ ReturnResult
  \/ ActOnClean \/ ActOnCrash \/ ActOnFatal
  \/ DropToShell \/ PowerOff

Next ==
  \/ AgentStep
  \/ Panic
  \/ GuestExits \/ WaitFails \/ CommandFails
  \/ LeaveShell \/ Killed \/ OrphanExits \/ LogFills
  \/ Off

Spec == Init /\ [][Next]_vars

\* The agent is a runnable thread that never blocks but on its child: hooks
\* have deadlines, the QMP and hotplug threads are not waited for.  Nothing
\* is assumed of the guest, the operator or the faults.
FairSpec == Spec /\ WF_vars(AgentStep \/ Panic)

-----------------------------------------------------------------------------
(***************************************************************************)
(* Properties.                                                             *)
(***************************************************************************)

\* Crash-loop protection (main.rs:182-190, plan.md:134): between two clean
\* exits, one agent process spawns the VM at most max_restart_attempts + 1
\* times, whichever mixture of crashes, fatal errors and hooks it goes through.
CrashLoopBound == launches <= cfg.maxRestarts + 1

\* The services live with the guest (services.rs:35-37), as far as they can: a
\* QEMU child of the agent always has its services, and once the function that ran
\* it has returned, by any of its exits, the agent owns neither a child nor
\* services.  What it no longer owns may still run.  Services outlive it only when
\* an agent has died owning them; a QEMU outlives it only then or when waiting for
\* it has failed (main.rs:318-320), and that is also the only way for a QEMU to run
\* with its services taken away.  What of the services a failing clean-up leaves is
\* in RuntimeServices.
ServicesLiveWithGuest ==
  /\ guest # "none" => services
  /\ pc \notin {"args", "spawn", "wait", "shutdown_hook", "return"} =>
       guest = "none" /\ ~services
  /\ stale => "death" \in lapses
  /\ orphan => stale \/ "wait" \in lapses

\* Why the two above hold, in inductive form.  Services are there from their
\* start to the return of the function that owns them (main.rs:211-333).
Ownership ==
  /\ ServicesLiveWithGuest
  /\ pc \in {"args", "spawn", "wait", "shutdown_hook", "return"} => services
  /\ pc \in {"args", "spawn"} => guest = "none"

\* Wherever the next launch may be decided, every earlier one is accounted for
\* by the crash count, and the count is within the limit (main.rs:154-197).
CrashAccount ==
  /\ pc \in {"load", "init_log", "startup"} => attempts = 0
  /\ pc \in {"load", "init_log", "startup"} \cup Preparing => launches <= attempts
  /\ pc \in {"wait", "decide"} \cup Preparing \cup AfterVm =>
       attempts <= cfg.maxRestarts /\ launches <= attempts + 1
  /\ CrashLoopBound

\* An outcome other than fatal has come through the shutdown hook (main.rs:324).
HookAccount ==
  /\ pc \in {"return", "decide"} /\ outcome # "fatal" => hookDone /\ outcome # "none"
  /\ pc \in {"poweroff", "off"} => hookDone

Accounting == TypeOK /\ Ownership /\ CrashAccount /\ HookAccount

\* The agent powers the host off only after a guest has run, and after the
\* shutdown hook has followed that guest's exit (plan.md:128, main.rs:324).
HookBeforePowerOff == [][pc' = "off" => hookDone /\ guest = "none"]_vars

\* The restart policy cannot be overtaken: a VM is spawned again after abnormal
\* exits only while the count of them stays within the limit of the
\* configuration in force, and a count is forgotten only on a clean exit or by
\* a new agent process (main.rs:154-197).
CrashesCount ==
  [][ /\ guest = "none" /\ guest' = "running" => attempts <= cfg.maxRestarts
      /\ attempts' < attempts => outcome = "clean" \/ pc' = "load" ]_vars

\* While the log volume has room: if VMs keep crashing, the agent keeps parking
\* in the rescue shell or there are clean exits in between, and no endless loop
\* of crashes (main.rs:185).  A full log volume makes every report a panic.
CrashLoopEnds ==
  []<>(pc = "decide" /\ outcome = "crashed")
    => []<>(pc = "shell" \/ outcome = "clean" \/ logFull)

\* While the log volume has room, the end of a guest is acted upon: the host is
\* powered off, the rescue shell reached, or a VM runs again (main.rs:159-205).
GuestEndActedOn ==
  guest \in {"success", "failure"} ~> \/ pc \in {"shell", "off"}
                                      \/ guest = "running"
                                      \/ logFull

\* What the operator sees of the agent's place.
Mode ==
  CASE pc = "shell"                                -> "shell"
    [] pc = "off"                                  -> "off"
    [] pc \in {"drop", "poweroff"}                 -> "closing"
    [] pc \in {"wait", "shutdown_hook", "return"} -> "guest"
    [] pc = "decide"                               -> "ended"
    [] OTHER                                       -> "ready"

Promise ==
  INSTANCE Appliance WITH mode <- Mode, crashes <- attempts, limit <- cfg.maxRestarts

\* The agent keeps the promise of the appliance as a whole (Appliance.tla): it
\* launches, judges, launches again within the limit or closes down, and only
\* a new agent process starts over (main.rs:95-211).
ImplementsAppliance == Promise!Spec

\* drop_to_shell "replaces this process with an interactive shell on whatever
\* tty we're attached to" (main.rs:397-398): the shell has the console.
ShellOnTty == pc = "shell" => console = "tty"

=============================================================================
