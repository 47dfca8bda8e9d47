# Specifications of native-qemu

TLA+ models of the native-qemu appliance: the agent that runs one virtual machine on a
bare host (`src/agent`), and `nq-disk`, the tool that makes and edits its boot media
(`src/tools/nq-disk`). TLC checks every model on a small instance; TLAPS proves what
the runs check, but for liveness, for every value of the constants.

    tlc -config AgentLifecycle.cfg AgentLifecycle     # any run: the module and its .cfg
    tlapm AgentLifecycleProofs.tla                    # any *Proofs module

Contents: [the system](#the-system) · [the modules](#the-modules) · [the runs](#the-runs) ·
[fairness](#fairness) · [the proofs](#the-proofs) ·
[disagreements found](#disagreements-between-the-code-and-its-documentation) ·
[what is not modelled](#what-is-not-modelled) · [the plan](#the-plan)

## The system

The host boots from a stick or a disk with a small Linux. init (or runit) starts the
agent and starts it again when it ends. The agent reads `config.toml`, starts the services
the guest needs, runs QEMU, and acts on the end of the guest. `nq-disk` runs on somebody's
desktop machine: it writes the ISO to a stick, adds a data partition to it, and edits the
configuration and the image there.

    init ──respawn──> agent main loop ──owns──> RuntimeServices ──> virtiofsd, pipewire, smbd, ...
                        │    │  └──resolve──> storage: data volume, /mnt/native-qemu/storage<i>
                        │    └──spawn, wait──> QEMU <──QMP socket── connector, signal thread, watcher
                        └──poweroff / exec sh         (threads, one mutex, one set for every VM)

    nq-disk: wizard ──> flash_iso ──> SizedDisk / GPT / lwext4 slice ──> raw disk <── automounter
                │ └──volume handle──> files of the data volume ──┐
                └──> editor ──save──────────────> config.toml ───┴──carried to──> the agent's boot

| Component | State it keeps | Operations | What is hard | What makes it correct |
|---|---|---|---|---|
| Control loop, `agent/src/main.rs` | crash counter, the QEMU child, the owner of the services, redirected stdio | load, hooks, prepare, spawn, wait, act on the outcome, shell, power off | early returns, a killed agent, respawn, a log that fills | a crash loop is bounded and ends; guest and services live together; the shutdown hook precedes the power-off |
| QMP session, `main.rs`, `qmp.rs` | one connection behind a mutex, pending signal, set of attached devices | connect, powerdown, scan, device_add | threads of ended VMs live on, share the socket path, and nobody joins them | replies go to their commands; signals and new devices are served; no device is added twice |
| Host services, `services.rs` | children, macvtap link, virtiofs socket, Samba accounts | start, Drop | eight services in a row, any may fail; the agent may die in between | what runs is owned, or was let go of in a way the code knows of; "started" means all of them; a share has the account of its own password |
| Storage, `storage.rs` | mounts, the image files | resolve, seed | disks come and go, copies and mounts fail, the power fails | the guest's disk is not replaced but by two faults; never the bare mount point |
| Flashing, `flash.rs`, `partition.rs`, `rawdisk.rs`, `blockdev.rs` | sectors, two partition tables | write, verify, add partition, mkfs, seed, retry | the system mounts the disk again at any moment; torn tables; overlapping hybrid partitions | the ISO stays whole; one data partition, apart from everything else; retries end and are not in each other's way |
| Raw disk access, `sized_disk.rs` | position | read, write, seek at bytes | whole sectors only; a partial sector at the end | it is a file of bytes |
| Files of the data volume, `ext4_io.rs`, `volume.rs` | an open file system | read, save, copy, ensure_config | a save is a removal and a creation | a configuration is never lost |
| Wizard and editor, `ui/` | screens, volume handle, text with undo | keys | handles that outlive a flash; cursor against text | the volume edited is the one that was flashed; work is not lost unasked; undo restores |
| Configuration, `config.rs`, `schema.rs` | none | parse, validate, twice over | two validators of one file | what the host accepts the agent loads, with listed exceptions |
| USB policy, `usb.rs` | none; the watcher's set | check, resolve, scan | devices come and go between check, launch and scans; rules override each other | required devices reach the guest, and none is given twice |
| Hooks, logging, time zone | a process, the logs, `/etc` | run, rotate, apply | timeouts, a power cut between two renames | a boot ends; logs keep their order; the guest's clock has one zone |
| QEMU arguments, `qemu.rs` | none | build | options that refer to each other | what is referred to is defined |

The hazards, each at the line where it bites, are listed in `PROJECT.json`.

## The modules

**`Appliance`** is the abstract promise to the operator: a guest is launched, its end is judged, it is
launched again within the limit of consecutive crashes, or the appliance closes down.
**`AgentLifecycle`** is the control loop that implements it. Its actions are the steps of `main()` and
`run_one_vm_lifecycle()`, in the order of the code: `LoadConfig`, `InitLogging`, `StartupHook`,
`CheckUsb`, `ResolveDisk`, `StartServices`, `BuildArgs`, `SpawnQemu`, `ReapGuest`, `ShutdownHook`,
`ReturnResult`, `ActOn…`, `DropToShell`, `PowerOff`. Each `?` of the code is a second disjunct,
`ReturnFatal`, which drops the services as the end of a scope does. `cfg` holds only the keys the loop
branches on. `Killed`, `Panic` (a report that cannot be written aborts the process: `println!` panics
and the release profile aborts) and `CommandFails` end the process; `Abandon` says what then lives on:
`orphan` is a QEMU without an owner, `stale` the services of a dead agent; `lapses` notes how they came
about. What of the services a failing clean-up leaves is in `RuntimeServices`.

**`VmSession`** has, for every VM (a generation), a connector, a signal thread and a watcher,
with the mutex held from the command to its reply (`Acquire`, `Send`, `Receive`, `Release`).
QEMU is the environment, reduced to what the agent relies on: one QMP client at a time,
commands answered in order, events in between, commands refused.

**`RuntimeServices`** is `RuntimeServices::start` and `Drop`: a stage per service, which is
skipped, started or fails. Incarnations of the agent follow each other, with or without
`Drop`. What the code lets go of is explicit: a daemon whose `try_wait` fails is handed to nobody
(`DaemonFails`), each operation of `Drop` may fail and is ignored, as is the deletion of a half-made
interface (`MacvtapFails`), and an agent may die with what it owns. The history `lapses` notes which
agent did so and how. The virtiofs socket is made by the daemon at its own time (`Listen`):
the code waits 100 ms and hands the path to QEMU unseen.

**`UsbPolicy`** is `usb.rs` over the life of a guest: `CheckRequired`, `ResolveDevices`, `Spawn`, the
watcher's `Scan` and `AddDevice`, while devices are plugged in and pulled out. The watcher of an ended
guest lives on (`KeepLate`) and may get the next guest's connection with its old set (`Connect`). A
device is an id and an address; one that comes back has a new address. In `VmSession`, whose subject is
the connection, the devices are those found here. **`Launch`** composes the two as
`run_one_vm_lifecycle` does: devices are resolved, then services started, then QEMU spawned with both,
and the services go with the guest. **`MCRuntimeServices`** chooses the configurations to check.

**`Storage`** is `resolve()` with everything it consults, and the seeding of the image. A copy stays in the
page cache until `WriteBack`, also when a guest runs on it; `PowerLoss` leaves all, a part or nothing of
it. `exists()` is false when the look at the file fails (`Missed`). A
disk is the rank of its kernel name, so that sorting by name is the order of the numbers.

**`ByteFile`** is a plain file of bytes. **`SizedDisk`** implements it on a device that takes
whole aligned sectors only: `ReadAt`, `WriteAt` (read, patch, write back), `Read`, `Write`, `Seek`,
and `ReadFails` and `WriteFails`, where the device fails after any of the sectors. A sector is
written whole or not at all.

**`GptPlan`** is the choice of the data partition (`ensure_data_partition`), as operators on a
table. The free runs are those of the gpt crate, which pairs sorted borders and so reports
runs as free where partitions overlap, as they do on hybrid ISOs: constant `Overlaps`.
**`Flash`** is `flash_iso`: `Begin`, `WriteChunk`, `Verify`, `AddPartition`, `Format`, `Seed`, each
with its failures, and `with_busy_retry` (`EndAttempt`) around the last three. A sector holds one
of five things: what was there before, the ISO's data, a partition table, a torn table, or the
file system. **`MCFlash`** gives a hybrid ISO with two overlapping partitions.

**`Timeline`** is what undo and redo promise: a line of versions and a place on it. **`Editor`**
(`ui/editor.rs`) implements it. A text is lines of characters, an action is a key: `Move`, `Choose`,
`Complete`, the search, `Type`, `Backspace`, `Delete`, `Split`, `Accept`, `Undo`, `Redo`, `TrySave`, `Exit`,
`Escape` and the answers at the prompt. `Edit` is what all editing keys share, in the order of the
code: snapshot, change, popup. What the validator accepts is the operator constant `Valid`.
**`Workbench`** is the wizard (`ui/wizard.rs`) around it: `Turn` is every change of screens that does nothing
else (table `Leads`), `BeginAction` and `OpenPath` come to a volume, `FlashDone`, `FlashNotOpened` and
`FlashFails` are the ends of a flash, `DeleteFile`, `PutFile`, `EditConfig` and `SaveConfig` the files. Each
disk counts the file systems made on it and a handle remembers which it was opened on, so that
an outdated handle can be told; what is written through one may damage what is there now.

**`Schema`** has both validators as operators on a document, which gives each key one of the values that
some rule tells apart: `HostAccepts` is `validate_config_text`, `Parses`, `Filled` and `AgentAccepts`
are serde with its defaults and `validate()`. `Defines`, `Refers` and the operators next to them are
what `build_args` makes of a document. A time zone is a name; the desktop machine knows `HostZones` (its
zoneinfo and the list built in), the appliance `Zones`, or none where tzdata is missing. `Gaps` and
`Wider` are all the reasons for which the two programs differ. **`AgentBoot`** is one boot up to the
first guest, a step per file operation: `PassOver`, `Load`, `Validate`; the time zone from `Resolve` to
`SetTZ`; the log from `RemoveOldest` over each `ShiftLog` to `OpenLog`; the startup hook, which may be
left running (`StartHook`, `HookUnwatched`). `PowerCut` loses `/etc`, which is in memory, and `Respawn`
does not.

**`Journey`** composes the two programs: a session at the desk, then `Carry`, then boots with
the disk. What passes between them is the configuration file: one the host accepted is any document
it accepts, one put there unchecked is any at all. **`MCJourney`** is its instance.

Operators called "seeded defect" are wrong versions of a definition of the model, each next to
the definition it distorts. They are not part of any specification: replacing the definition by its
defect must break the property it is paired with in `PROJECT.json`, which shows that the property
depends on the code.

## The runs

| Run | Bounds | What it shows |
|---|---|---|
| `agent` | all configurations with up to 2 allowed restarts, 1 kill or failing call, log may fill | `CrashLoopBound`: never more launches than the limit allows, whatever mixture of ends. `ServicesLiveWithGuest`: a child has its services, no exit of the function leaves the agent with either, and what runs on without an owner comes from an agent's death or a failed `wait`. `HookBeforePowerOff`. `ImplementsAppliance`. `CrashLoopEnds`, `GuestEndActedOn` under fairness |
| `session` | 2 VMs, one device, 1 signal, 1 plugging-in, 1 event or refusal, 1 read that times out, with and without hotplug | `RepliesPaired`, `OneCommandInFlight`: the mutex keeps commands and replies together, on every stream on which no read has timed out. `AttachedIsAdded`, `DeviceAddedOnce`: the watcher's books agree with QEMU's, likewise. `SignalServed`, `HotplugServed` under fairness |
| `services` | 2 shares, 2 users, 2 passwords, 2 agents, 2 lapses; 3 devices of 3 ids, [usb] tables of up to 2 rules, 1 late watcher | `NothingLeftBehind` at every failure, `ReadyIsComplete`, `AccountsMatch`; `RequiredReaches`, `OnceEach`, `PolicyKept` for the devices |
| `storage` | 1 internal and 3 external disks, the boot disk external, indexes 0 to 3, 2 faults, 2 swaps | `GuestDiskKept`: only a power loss before write-back or a failing look replaces a guest's disk. `VolumeBehindDirectory` |
| `sized_disk` | sectors of 2 bytes, a device of 5, every contents, calls of up to 3 bytes at 0 to 5, failing after any sectors | `NeverRefused`, `TrailingKept`, `ImplementsByteFile` |
| `flash` | an ISO of 7 sectors, disks of 9, 13 and 16, alignment 2, 3 attempts, 2 faults | `IsoOnDisk`, `OneVolume`, `FailsWithCause`, `FlashEnds` |
| `journey` | 2 disks, 3 edits with 2 undo steps, 1 search, 2 operations, 2 faults; some 2,200 documents; 3 zones, of which 2 are known to each machine; 2 old logs, 2 restarts, 1 error | `EditorImplementsTimeline`; `EditsKept`: what was typed is saved, discarded on request, or was never changed; `HandleCurrent`: an outdated volume is used only after a failed flash; `Contract`: the validators differ in the listed ways only, whichever zones each machine knows, and a document that passes makes a consistent command line; `LogsInOrder`; `BootEnds`, with one time zone, under fairness |
| `agent_shell_tty`, `session_signal_lost`, `session_stale_watcher`, `storage_torn_seed`, `storage_stale_mount` | small | the code does not do what it says: see below |

**Why the bounds suffice.**

* `agent`: two restarts tell the first, a middle and the last attempt apart. The counters start
  over with every process, and what a kill leaves behind (`orphan`, `stale`) are flags, so a
  second kill meets what the first one did; the theorems hold for every value of these bounds.
* `session`: two generations are what a leftover thread needs, as a third would meet a leftover exactly
  as the second does. One device is enough for it to come, be refused, go, and come back. One timeout
  mispairs a stream for good, as nothing drains it. Deadlock is not checked: when both VMs have ended
  nothing needs to happen.
* `services`: either the services vary, on a host without USB devices, or the devices, without
  services: the two meet only in the order of the steps. Three addresses are two devices that look alike
  and one that comes back, and two rules can name one id, different ones, and none. A service depends on
  the ones before it only by whether they failed; two shares can conflict over a user, a password and a
  scope in every way. Two lapses
  are one of an earlier agent and one of this, or two that meet in one `Drop`; a late watcher keeps whoever else
  tries off the one connection there is. Deadlock is not checked: the last
  agent may stop for good. Shares, users and passwords are symmetric: the code compares them only.
* `storage`: index 1 is an internal disk, and the external disks next to the boot disk are two
  numbered ones and one to swap in. Two faults are a failed copy or look and the power loss that meets it.
* `sized_disk`: a call of 3 bytes starts and ends inside, at the start of, and across sectors; the fifth
  byte is the partial sector. A write that fails leaves any set of its sectors written.
* `journey`: five starts give one part of the wizard room each: editing, searching and completing,
  saving with a failure, files and flashes on one disk, flashes with two. With three edits and a limit
  of two the oldest version is dropped, also with versions to redo. Rules relate at most three keys,
  which lie in one of three bases; every document with one key changed, or two of those that rules
  relate, is tried over one boot without restarts, and four over two restarts. Of three zones one is
  known to both machines and one to each alone. Two old logs are the last, which is removed, and one in
  between. Deadlock is not checked: the tool quits, and a boot may end in the shell.
* `flash`: the sizes are one that preflight refuses, one that leaves room for no partition, and one
  that leaves room for it. With 3 attempts there is a first, a repeated and a last one. Two faults tear
  both tables.

**What a bound hides.** With `OnMedia = TRUE`, as in `Storage.cfg`, the boot disk is recognised.
`boot_disk_name` (`storage.rs:55-76`) does so by mounts only: with `FALSE` the boot disk, mounted
nowhere it looks, is numbered like any other and offered to the guest as storage. The theorems about
storage hold for either. In `AgentLifecycle` the liveness properties make an exception for a full log
volume: every report then panics, also the one `drop_to_shell` prints before it becomes the shell
(`main.rs:402`), so that init starts agents for ever and the rescue shell is not reached.

**What a property excepts.** Some properties say how far a fault of the code reaches, and no more, because
nothing in the code promises to prevent it:

* A read of the QMP stream that times out (`qmp.rs:17-30`) leaves its reply to be taken for the next
  command's (`qmp.rs:43`), for ever. `RepliesPaired`, `AttachedIsAdded` and `DeviceAddedOnce` hold on
  every stream on which none has (`late[c] = 0`); `OneCommandInFlight` counts the answers that come
  late. `SignalServed` excepts a request whose thread gave up and whose stream was then closed. On a
  stream with one, a device that was added may be asked for again under another id.
* `ServicesLiveWithGuest`: when waiting for QEMU fails (`main.rs:320`), it runs on without an owner, its
  services gone; an agent that dies leaves both.
* `NothingLeftBehind`: what the code lets go of, as listed at `lapses`. Nothing cleans up after a dead agent.
* `OnceEach`: the watcher of an ended guest, once it has the next guest's connection, gives that guest
  what it has already (`session_stale_watcher` is the finding).
* `GuestDiskKept`: a power loss before the copy is written back, and a look at the disk that fails.
* `HandleCurrent`: the handle kept after a flash that failed. `EditsKept`: the save whose write failed.

## Fairness

* `AgentLifecycle`: weak fairness of the agent's own next step (or panic). The agent is a runnable
  thread, its hooks have deadlines (`hooks.rs`), and it waits for nothing but its child. Nothing is
  assumed of the guest, the operator, the faults and the log. A guest that never ends, or an
  operator who never leaves the shell, is allowed.
* `VmSession`: weak fairness of each thread's steps and of QEMU's answers. A mutex is waited for
  while its holder waits for one answer only, so that strong fairness is not needed. That QEMU exits,
  a device is plugged in, a signal arrives or a read times out is left open.
* `Flash`: weak fairness of the tool's steps, busy devices included. The device may be busy for
  ever; then the attempts run out.
* `Journey`: weak fairness of the agent's own steps of a boot. A hook is waited for in a loop with a deadline
  and killed with SIGKILL (`hooks.rs:40-66`), so that nothing is assumed of it; nor of the user,
  the power, or that the appliance is turned on.
* `Storage`, `Launch` and `SizedDisk` state safety only.

## The proofs

All theorems hold for every value of the constants that satisfies the named assumptions of the
modules. There are eight modules of proofs. An invariant a run checks is seldom inductive by
itself; what has to be known besides it is named here, and TLC has checked it on the run's instance.

* **`AgentLifecycleProofs`**. The inductive invariant is `Accounting`: types, `Ownership`,
  `CrashAccount` and `HookAccount`. `CrashLoopBound` alone is not inductive: a step must know
  that every launch before it is in the crash count wherever the next one may be decided
  (`launches <= attempts` while preparing), and that the count stays within the limit. From it:
  `CrashLoopBounded`, `ServicesOwned`, the action properties `HookPrecedesPowerOff` and
  `CrashesAreCounted`, and the refinement `AgentImplementsAppliance`, whose lemma `StepRefines` maps
  every action to a step of `Appliance` or a stutter.
* **`VmSessionProofs`**, for every number of VMs, devices and signals. `RepliesPaired`,
  `OneCommandInFlight`, `AttachedIsAdded` and `DeviceAddedOnce` cannot be proved one after the other:
  that a device is added once needs that the reply to `device_add` is the one to it, and that needs to
  know whose command is on the stream. `VInv` says all of it together: `Linked` and `Sole` (no two
  handles are to one VM), `Balance`, `Holds` (who has the mutex is sending), `Flow` (at most one command
  or its answer is on a stream, and it is the holder's), `Recorded` (what was added is attached, or its
  reply is still to be read) and `Owners`. The code pairs replies with commands only by their order, so
  that a stream is out of step from the first read that times out **on it**: `Balance` counts the
  answers that are late (`late[c]`), and `InStep` asks for `Flow` and `Recorded` where there are none. A
  timeout on one stream is shown to disturb no other; the theorems hold for every `MaxTimeouts`.
* **`LaunchProofs`**, services and devices. `NothingLeftBehind` needs `Custody`: what is started before
  a failure is already in `children`, and an
  interface `start_macvtap` has returned in `macvtap`, so that `Drop` is told of all of it; and what is not the current owner's is some agent's in
  `lapses`. `ReadyIsComplete` needs `Progress`: at every stage, just the daemons behind it that are
  wanted have been started. `AccountsMatch` needs `Samba`: from the accounts on, every enabled share has
  the account of its own password file, or `start` has ended. `RequiredReaches`, `OnceEach` and
  `PolicyKept` rest on `UInv` (`Stages`, `Scanned`, `Checked`), and on `ResolveIs`: for every list of
  rules, `resolve` returns the devices plugged in which the policy gives, each once. It is proved by
  induction on the number of rules (lemma `UpTo`, an induction over the set of the numbers for which the
  claim fails, as the library's theorem takes an operator), and `Recursion` proves that the recursive
  function `ResolvedBy` exists. `LaunchKeepsServices`: `Launch` implements `RuntimeServices`, so that
  what is proved of the services holds in the composition.
* **`StorageProofs`**. `GuestDiskKept` needs `CopyIsPartial`: the file a copy is writing is partial, so that
  its end replaces no guest's disk. `DirectoryBacked`: a directory given to the guest has its volume behind it.
* **`SizedDiskProofs`**, with `Sector = 512`, the constant of the code: rounding is then linear
  arithmetic. From `Sound`: no transfer is refused, the trailing bytes are kept, and `SizedDisk`
  implements `ByteFile`, by the lemma that a store of the patched sectors is the store of the bytes; of
  a store that fails, those in the sectors that were reached (`Reached`).
* **`FlashProofs`**, with `Align = 2048`, the code's `ALIGN_LBA`, for the same reason. `IsoOnDisk` and
  `OneVolume` become inductive with `Recoverable` (while the partition is to be added, the
  primary table is the ISO's, or it is torn and the backup holds the ISO's partitions beside this tool's)
  and `BehindIso` (the partition being formatted lies behind the ISO). The lemma `CandidateFits` says of the
  plan that whatever runs are reported free, the chosen one is behind the ISO, aligned and free.
  `FailureHasCause` needs `ChosenExists` besides: a disk that is large enough has such a run.
* **`EditorProofs`** are the lemmas `JourneyProofs` takes the editor from. `EditorInv` is
  `EditorTypeOK`, of which the cursor in its text and the limit of the stacks are the point, and
  `Reset`, what a closed editor leaves to the next text. The *sum* of both stacks stays within the
  limit, so that moving an entry from one to the other keeps each within it: `Redo` needs no trimming.
  The lemma `VersionsAt` says which version of `Timeline` is where on the two stacks; each key then is a
  step on the line of versions, or none.
* **`JourneyProofs`**, both programs, for every text, document and number of disks. `JourneyInv` is
  `DeskInv` for `nq-disk`, `BootInv` for the boot, and `LogsInOrder`.
  - `HandlesCurrent` needs `DiskChosen`; `EditsAreKept` needs `TextKept`: a text that is not dirty is the
    one opened, and a text about to be saved has been accepted. `EditorIsTimeline` is the refinement.
  - `ContractHolds` compares the two validators key by key, over all documents and sets of zones, and not only
    those the run tries.
  - `LogsOrdered` needs `Shifting`: while logs are renamed, the number the next one goes to is free, unless
    a rename has failed. `LogsInOrder` is proved in its two halves, `Ordered` and `OldestLost`.

The type invariants of `AgentLifecycle`, `RuntimeServices`, `UsbPolicy` and `Storage` are proved and not
checked in their runs.

**Only model-checked**: the liveness properties (`CrashLoopEnds`, `GuestEndActedOn`, `SignalServed`,
`HotplugServed`, `FlashEnds`, `BootEnds`), as fairness and `ENABLED` are beyond the
prover. Every other property of a passing run is stated by a theorem. The disagreements below are
counterexamples, of small instances by their nature.

## Disagreements between the code and its documentation

Each is a run whose counterexample is the evidence, and a finding in `PROJECT.json`.

* `agent_shell_tty`: the rescue shell inherits the redirection of the log; its output is in the
  log file and not on "whatever tty we're attached to" (`main.rs:397-398`).
* `session_signal_lost`: a signal that arrives before the QMP connection is announced as a
  "graceful guest shutdown" (`main.rs:307`), taken, and not sent; the thread ends, and later signals
  are taken by nobody.
* `session_stale_watcher`: the watcher of an ended VM reaches the next VM's socket and adds
  devices that VM was started with, against "newly plugged-in" (`main.rs:335`).
* `storage_torn_seed`: a copy of the seed image that was cut short is the guest's disk at the next
  start, against "copy … once, then continue" (`main.rs:230-231`).
* `storage_stale_mount`: after a swap of disks `/mnt/native-qemu/storage<i>` is still the disk that had
  number i, against "stable order" of the disks there are (`storage.rs:320-324`).

## What is not modelled

The options of QEMU that only pass a value on, and the copying of the UEFI variables (`qemu.rs`); the
listing of disks and the search for tools on the desktop machine (`flash.rs`, `tools.rs`); the
extraction of the image from an ISO (an external program); directories on the data volume; the table of
keys and help texts the editor completes from (data, `schema.rs`); the command line of `nq-disk`; errors
of the terminal, which end `nq-disk` with whatever is in the editor (`editor.rs:85-95`); drawing and
formatting; the stubs for an unbuilt platform; and the scripts that build the images. The file system
(lwext4), the gpt crate, QEMU and the kernel are environment: modelled by what the code relies on, and
marked external in the map. What a guest does to its own image, torn writes included, is the guest's.

**Worth knowing**, because the models contain it and no property forbids it:

* A search does not close the completion popup, so that a value may be accepted on a line it was not
  offered for (`Editor.Accept`); undo takes it back.
* After a flash that failed, or whose volume could not be opened, the wizard goes on with the handle it had
  (`wizard.rs:744-757`): that is the exception `kept` in `HandleCurrent`.
* `ensure_config` takes every error of `exists()` for a missing file, and then writes the default over the
  user's configuration (`Workbench.EditConfig`). Files put on the volume are not validated.
* The agent refuses some documents the editor accepts (`Schema.Gaps`): a required key left out or of
  another type, no version, zero memory or processors, aarch64 with BIOS or IDE, a bridge without an
  interface, a zone only the desktop machine knows, and settings only the agent checks. The editor
  refuses some that the agent accepts (`Schema.Wider`), a zone only the appliance knows among them.
  Without tzdata the agent takes every well-formed name, cannot apply it, and drops to the shell
  (`AgentBoot.ZoneFails`).
* A file that does not parse is passed over for the example in the image; one that parses and does not
  validate ends in the rescue shell (`AgentBoot.PassOver`, `Validate`).
* A power cut during a rotation may cost one more of the oldest logs, never one between two others.
* A hook's deadline kills its shell; what the shell started runs on. A hook that cannot be waited for is left
  running and counts as failed (`hooks.rs:61-65`), and one that is not blocking is nobody's.
* With `on_guest_shutdown = restart_vm` a shutdown asked for by signal starts the guest again: the loop does not
  know who ended it, and `GuestEndActedOn` does not either.
* Nothing compares `vm_iface` with `lan_iface`: two smbds may be told to serve one interface. Interfaces
  are not modelled.
* The renames of a log rotation are taken as durable, and in order, when they return; nothing syncs them
  (`logging.rs:39`).
* An id in `[usb]` written with `0X` names no device (`normalize`): excluded it is not, required it is missing.
* A required device that is pulled out between the check and the launch is not missed (`RequiredReaches`).
* The UEFI variables are copied in place once; a copy the power cut short is used by every later boot, as
  the guest's disk is in `storage_torn_seed`.

## The plan

Done, in order of importance: the control loop and its promise; the threads beside QEMU; the
services; storage; raw access; flashing; the editor and the wizard; the two validators; the boot; the
USB policy and the launch. Proved: everything the passing runs check but liveness.

1. `AgentLifecycle` composed with `Storage` over power losses, so that a guest's writes survive every
   path of the control loop.
2. `Flash` on a `SizedDisk`, so that the sectors of the one are the bytes of the other.
3. `VmSession` as a part of `AgentLifecycle`: the forwarded signal is the clean end the loop acts on.
