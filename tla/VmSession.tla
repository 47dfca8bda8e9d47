------------------------------ MODULE VmSession ------------------------------
(***************************************************************************)
(* The threads the agent runs beside QEMU (agent/src/main.rs, qmp.rs).     *)
(* Every VM the agent launches is a generation with a QMP connector, a     *)
(* signal thread and, with usb.hotplug, a hotplug watcher; the three share *)
(* one Option<Qmp> behind a mutex.  The threads are not joined: those of a *)
(* generation whose VM has ended live on beside the next one's, and every  *)
(* generation uses the same socket path.  QEMU is modelled by what the     *)
(* agent relies on: one QMP client at a time, commands answered in order.  *)
(***************************************************************************)
EXTENDS Naturals, Sequences, FiniteSets

CONSTANTS
  MaxGens,      \* VMs launched by one agent process
  MaxTries,     \* connection attempts of a connector (50 in the code)
  Devices,      \* USB entries: vendor, product, bus and device number
  MaxSignals,   \* SIGTERM or SIGINT delivered to the agent
  MaxPlugs,     \* devices plugged in after the agent started
  MaxTimeouts,  \* QMP reads that hit the five-second timeout
  MaxIds,       \* ids a watcher hands out; an unbounded counter in the code
  MaxNoise      \* asynchronous events and refused commands QEMU produces

ASSUME MaxGensAssumption  == MaxGens \in Nat \ {0}
ASSUME MaxTriesAssumption == MaxTries \in Nat \ {0}
ASSUME BoundsAssumption ==
  /\ MaxIds \in Nat /\ MaxSignals \in Nat /\ MaxPlugs \in Nat /\ MaxTimeouts \in Nat /\ MaxNoise \in Nat
ASSUME DevicesAssumption == IsFiniteSet(Devices)

Gens == 1..MaxGens

VARIABLES
  hotplug,  \* usb.hotplug
  gen,      \* the generation main() is in; 0 before the first launch
  vm,       \* vm[g]: the QEMU process of generation g
  sock,     \* the generation whose QEMU bound the socket path last, or 0
  conn,     \* conn[g]: the connector thread
  tries,    \* tries[g]: failed attempts of the connector
  handle,   \* handle[g]: generation whose QEMU the shared Qmp talks to, or 0
  lock,     \* lock[g]: the thread that holds the mutex of handle[g]
  sig,      \* sig[g]: the signal thread
  watch,    \* watch[g]: the hotplug watcher
  wire,     \* wire[g]: commands and answers on the stream of handle[g]
  plugged,  \* USB entries present on the host
  guest,    \* guest[g]: what QEMU g did: devices added and powerdown requested
  used,     \* how much of each bound is used up
  late,     \* history: late[g], reads that have timed out on the stream of handle[g]
  mixed,    \* history: generations that took an answer for another command's
  dropped   \* history: generations whose signal was announced and not sent

vars == <<hotplug, gen, vm, sock, conn, tries, handle, lock, sig, watch, wire, plugged,
          guest, used, late, mixed, dropped>>

Powerdown    == [cmd |-> "system_powerdown"]
Add(d, n)    == [cmd |-> "device_add", dev |-> d, id |-> n]
Adding       == [cmd : {"device_add"}, dev : Devices, id : Nat]
Command      == {Powerdown} \cup Adding
Answer       == [kind : {"return", "error"}, to : Command]
Event        == [kind |-> "event"]
Stream       == [reqs : Seq(Command), reps : Seq(Answer \cup {Event})]
Watch        == [at : {"none", "sleep", "scan", "sending"}, todo : SUBSET Devices,
                 attached : SUBSET Devices, initial : SUBSET Devices, dev : SUBSET Devices, next : Nat]
NoWatch      == [at |-> "none", todo |-> {}, attached |-> {}, initial |-> {},
                 dev |-> {}, next |-> 0]

TypeOK ==
  /\ hotplug \in BOOLEAN
  /\ gen \in 0..MaxGens
  /\ vm \in [Gens -> {"none", "booting", "up", "gone"}]
  /\ sock \in 0..MaxGens
  /\ conn \in [Gens -> {"none", "trying", "stored", "gave_up"}]
  /\ tries \in [Gens -> 0..MaxTries]
  /\ handle \in [Gens -> 0..MaxGens]
  /\ lock \in [Gens -> {"free", "signal", "watcher"}]
  /\ sig \in [Gens -> {"none", "waiting", "pending", "sending", "done"}]
  /\ watch \in [Gens -> Watch]
  /\ wire \in [Gens -> Stream]
  /\ guest \in [Gens -> [added : Seq(Adding), powerdown : BOOLEAN]]
  /\ used \in [signals : 0..MaxSignals, plugs : 0..MaxPlugs, timeouts : 0..MaxTimeouts, noise : 0..MaxNoise]
  /\ plugged \subseteq Devices
  /\ late \in [Gens -> Nat]
  /\ mixed \subseteq Gens
  /\ dropped \subseteq Gens

Init ==
  /\ hotplug \in BOOLEAN
  /\ gen = 0
  /\ vm = [g \in Gens |-> "none"]
  /\ sock = 0
  /\ conn = [g \in Gens |-> "none"]
  /\ tries = [g \in Gens |-> 0]
  /\ handle = [g \in Gens |-> 0]
  /\ lock = [g \in Gens |-> "free"]
  /\ sig = [g \in Gens |-> "none"]
  /\ watch = [g \in Gens |-> NoWatch]
  /\ wire = [g \in Gens |-> [reqs |-> <<>>, reps |-> <<>>]]
  /\ plugged \in SUBSET Devices
  /\ guest = [g \in Gens |-> [added |-> <<>>, powerdown |-> FALSE]]
  /\ used = [signals |-> 0, plugs |-> 0, timeouts |-> 0, noise |-> 0]
  /\ late = [g \in Gens |-> 0]
  /\ mixed = {}
  /\ dropped = {}

threads == <<conn, tries, handle, lock, sig, watch, wire>>
host    == <<sock, plugged, guest, used>>
history == <<late, mixed, dropped>>

Spend(what, max) == used[what] < max /\ used' = [used EXCEPT ![what] = @ + 1]

-----------------------------------------------------------------------------
(***************************************************************************)
(* Generations.                                                            *)
(***************************************************************************)

\* run_one_vm_lifecycle spawns QEMU with the devices present at that moment
\* and starts the threads; under restart_vm this follows the end of the last.
Launch ==
  /\ gen < MaxGens
  /\ gen > 0 => vm[gen] = "gone"
  /\ gen' = gen + 1
  /\ vm' = [vm EXCEPT ![gen'] = "booting"]
  /\ conn' = [conn EXCEPT ![gen'] = "trying"]
  /\ sig' = [sig EXCEPT ![gen'] = "waiting"]
  /\ watch' = IF hotplug
              THEN [watch EXCEPT ![gen'] =
                      [NoWatch EXCEPT !.at = "sleep", !.attached = plugged, !.initial = plugged,
                                      !.next = Cardinality(plugged)]]
              ELSE watch
  /\ UNCHANGED <<hotplug, tries, handle, lock, wire, host, history>>

\* QEMU binds the QMP socket, replacing whatever is at the path.
QemuListens(g) ==
  /\ vm[g] = "booting"
  /\ vm' = [vm EXCEPT ![g] = "up"]
  /\ sock' = g
  /\ UNCHANGED <<hotplug, gen, threads, plugged, guest, used, history>>

\* The guest shuts down or QEMU fails; child.wait() returns in main().
QemuExits(g) ==
  /\ vm[g] \in {"booting", "up"}
  /\ vm' = [vm EXCEPT ![g] = "gone"]
  /\ UNCHANGED <<hotplug, gen, threads, host, history>>

-----------------------------------------------------------------------------
(***************************************************************************)
(* The connector: up to MaxTries attempts, a tenth of a second apart.      *)
(***************************************************************************)

\* QEMU serves one QMP client: a second one connects but gets no greeting.
Free(g) == vm[g] = "up" /\ \A c \in Gens : handle[c] # g

\* Seeded defect: one attempt more than the loop's range allows.
ConnectFailsOnceMore(c) ==
  /\ conn[c] = "trying"
  /\ tries' = [tries EXCEPT ![c] = @ + 1]
  /\ conn' = [conn EXCEPT ![c] = IF tries'[c] > MaxTries THEN "gave_up" ELSE @]
  /\ UNCHANGED <<hotplug, gen, vm, handle, lock, sig, watch, wire, host, history>>

Connect(c) ==
  /\ conn[c] = "trying"
  /\ sock # 0 /\ Free(sock)
  /\ lock[c] = "free"
  /\ handle' = [handle EXCEPT ![c] = sock]
  /\ conn' = [conn EXCEPT ![c] = "stored"]
  /\ UNCHANGED <<hotplug, gen, vm, tries, lock, sig, watch, wire, host, history>>

\* No socket yet, connection refused, or no greeting within the timeout.
ConnectFails(c) ==
  /\ conn[c] = "trying"
  /\ tries' = [tries EXCEPT ![c] = @ + 1]
  /\ conn' = [conn EXCEPT ![c] = IF tries'[c] = MaxTries THEN "gave_up" ELSE @]
  /\ UNCHANGED <<hotplug, gen, vm, handle, lock, sig, watch, wire, host, history>>

\* main() has left generation c and its signal thread has ended: without a
\* watcher nobody holds the shared handle any more, and the stream closes.
Unreferenced(c) ==
  /\ handle[c] # 0
  /\ ~hotplug
  /\ c < gen \/ vm[c] = "gone"
  /\ sig[c] = "done" /\ conn[c] = "stored"

CloseHandle(c) ==
  /\ handle' = [handle EXCEPT ![c] = 0]
  /\ wire' = [wire EXCEPT ![c] = [reqs |-> <<>>, reps |-> <<>>]]
  /\ UNCHANGED <<hotplug, gen, vm, conn, tries, lock, sig, watch, host, history>>

ReleaseHandle(c) == Unreferenced(c) /\ CloseHandle(c)

-----------------------------------------------------------------------------
(***************************************************************************)
(* Qmp::execute, for the thread that holds the mutex of handle c.          *)
(***************************************************************************)

Acquire(c, who)  == lock[c] = "free" /\ lock' = [lock EXCEPT ![c] = who]
Release(c)       == lock' = [lock EXCEPT ![c] = "free"]
Send(c, command) == wire' = [wire EXCEPT ![c].reqs = Append(@, command)]

\* Seeded defect: the first value read counts as the answer, events included.
ReceiveAnyValue(c, own, kind) ==
  /\ wire[c].reps # <<>>
  /\ kind = IF Head(wire[c].reps).kind = "error" THEN "error" ELSE "return"
  /\ wire' = [wire EXCEPT ![c].reps = Tail(@)]
  /\ UNCHANGED <<used, late, mixed>>

\* read_value returns the next answer on the stream, whichever command it is
\* for: commands carry no id.
Receive(c, own, kind) ==
  /\ wire[c].reps # <<>>
  /\ Head(wire[c].reps).kind = kind
  /\ kind \in {"return", "error"}
  /\ mixed' = (IF Head(wire[c].reps).to = own THEN mixed ELSE mixed \cup {c})
  /\ wire' = [wire EXCEPT ![c].reps = Tail(@)]
  /\ UNCHANGED <<used, late>>

\* Events are read and skipped.
SkipEvent(c) ==
  /\ lock[c] # "free"
  /\ wire[c].reps # <<>>
  /\ Head(wire[c].reps).kind = "event"
  /\ wire' = [wire EXCEPT ![c].reps = Tail(@)]
  /\ UNCHANGED <<hotplug, gen, vm, conn, tries, handle, lock, sig, watch, host, history>>

\* The read times out; the answer, when it comes, stays in the stream.
ReadTimesOut(c) ==
  /\ wire[c].reps = <<>>
  /\ vm[handle[c]] = "up"
  /\ Spend("timeouts", MaxTimeouts)
  /\ late' = [late EXCEPT ![c] = @ + 1]
  /\ UNCHANGED <<wire, mixed>>

\* The peer has closed the stream.
PeerGone(c) ==
  /\ vm[handle[c]] = "gone"
  /\ wire[c].reps = <<>>
  /\ UNCHANGED <<wire, late, mixed, used>>

\* How a command ends: with an answer, or with an io::Error.
Returns(c, own) == Receive(c, own, "return")
Fails(c, own)   == Receive(c, own, "error") \/ ReadTimesOut(c) \/ PeerGone(c)

\* QEMU works through the commands of its client in order.  system_powerdown
\* presses the guest's power button; device_add refuses an id in use, and may
\* refuse for reasons of its own.
QemuAnswers(c) ==
  LET g       == handle[c]
      command == Head(wire[c].reqs)
      inUse   == \E i \in DOMAIN guest[g].added : guest[g].added[i].id = command.id
      reply(kind) == wire' = [wire EXCEPT ![c] =
                       [reqs |-> Tail(@.reqs),
                        reps |-> Append(@.reps, [kind |-> kind, to |-> command])]]
  IN /\ g # 0 /\ vm[g] = "up"
     /\ wire[c].reqs # <<>>
     /\ \/ /\ command = Powerdown
           /\ guest' = [guest EXCEPT ![g].powerdown = TRUE]
           /\ reply("return")
           /\ UNCHANGED used
        \/ /\ command # Powerdown /\ ~inUse
           /\ guest' = [guest EXCEPT ![g].added = Append(@, command)]
           /\ reply("return")
           /\ UNCHANGED used
        \/ /\ command # Powerdown
           /\ IF inUse THEN UNCHANGED used ELSE Spend("noise", MaxNoise)
           /\ reply("error")
           /\ UNCHANGED guest
     /\ UNCHANGED <<hotplug, gen, vm, sock, conn, tries, handle, lock, sig, watch, plugged, history>>

QemuEmitsEvent(c) ==
  /\ handle[c] # 0 /\ vm[handle[c]] = "up"
  /\ Spend("noise", MaxNoise)
  /\ wire' = [wire EXCEPT ![c].reps = Append(@, Event)]
  /\ UNCHANGED <<hotplug, gen, vm, sock, conn, tries, handle, lock, sig, watch, plugged, guest, history>>

-----------------------------------------------------------------------------
(***************************************************************************)
(* The signal thread: it serves one signal and ends.                       *)
(***************************************************************************)

\* signal-hook hands a signal to every thread that still waits for one; when
\* none does any more, the installed handler swallows it.
Signal ==
  /\ gen > 0
  /\ Spend("signals", MaxSignals)
  /\ sig' = [g \in Gens |-> IF sig[g] = "waiting" THEN "pending" ELSE sig[g]]
  /\ UNCHANGED <<hotplug, gen, vm, sock, conn, tries, handle, lock, watch, wire, plugged, guest, history>>

\* Seeded defect: the signal thread writes to the stream without the mutex.
TakeSignalUnlocked(c) ==
  /\ sig[c] = "pending"
  /\ handle[c] # 0
  /\ lock' = [lock EXCEPT ![c] = "signal"]
  /\ Send(c, Powerdown)
  /\ sig' = [sig EXCEPT ![c] = "sending"]
  /\ UNCHANGED <<hotplug, gen, vm, conn, tries, handle, watch, host, history>>

\* It announces the request, and sends it if there is a connection.
TakeSignal(c) ==
  /\ sig[c] = "pending"
  /\ lock[c] = "free"
  /\ IF handle[c] = 0
     THEN /\ sig' = [sig EXCEPT ![c] = "done"]
          /\ dropped' = dropped \cup {c}
          /\ UNCHANGED <<lock, wire>>
     ELSE /\ Acquire(c, "signal")
          /\ Send(c, Powerdown)
          /\ sig' = [sig EXCEPT ![c] = "sending"]
          /\ UNCHANGED dropped
  /\ UNCHANGED <<hotplug, gen, vm, conn, tries, handle, watch, host, late, mixed>>

\* Its result is ignored.
EndSignal(c) ==
  /\ sig[c] = "sending"
  /\ Returns(c, Powerdown) \/ Fails(c, Powerdown)
  /\ sig' = [sig EXCEPT ![c] = "done"]
  /\ Release(c)
  /\ UNCHANGED <<hotplug, gen, vm, sock, conn, tries, handle, watch, plugged, guest, dropped>>

-----------------------------------------------------------------------------
(***************************************************************************)
(* The hotplug watcher.                                                    *)
(***************************************************************************)

Watcher(c, w) == watch' = [watch EXCEPT ![c] = w]

\* The loop body reads the devices present once, and then goes through them.
Scan(c) ==
  /\ watch[c].at = "sleep"
  /\ plugged \ watch[c].attached # {}
  /\ Watcher(c, [watch[c] EXCEPT !.at = "scan", !.todo = plugged \ watch[c].attached])
  /\ UNCHANGED <<hotplug, gen, vm, conn, tries, handle, lock, sig, wire, host, history>>

\* Back to sleep after the last device of the scan.
PassedOver(w, d) ==
  [w EXCEPT !.todo = @ \ {d}, !.dev = {}, !.at = IF w.todo = {d} THEN "sleep" ELSE "scan"]

\* One device: without a connection it is passed over until the next scan.
TryAdd(c) ==
  /\ watch[c].at = "scan"
  /\ lock[c] = "free"
  /\ \E d \in watch[c].todo :
       IF handle[c] = 0
       THEN Watcher(c, PassedOver(watch[c], d)) /\ UNCHANGED <<lock, wire>>
       ELSE /\ watch[c].next < MaxIds
            /\ Acquire(c, "watcher")
            /\ Send(c, Add(d, watch[c].next))
            /\ Watcher(c, [watch[c] EXCEPT !.at = "sending", !.dev = {d}, !.next = @ + 1])
  /\ UNCHANGED <<hotplug, gen, vm, conn, tries, handle, sig, host, history>>

Attached(w, d) == [PassedOver(w, d) EXCEPT !.attached = @ \cup {d}]

\* device_add ends for the device being added; recorded says with which results
\* it goes into the attached set.
AddEnds(c, recorded) ==
  /\ watch[c].at = "sending"
  /\ \E d \in watch[c].dev, result \in {"returns", "fails"} :
       LET own == Add(d, watch[c].next - 1)
       IN /\ IF result = "returns" THEN Returns(c, own) ELSE Fails(c, own)
          /\ Watcher(c, IF result \in recorded THEN Attached(watch[c], d) ELSE PassedOver(watch[c], d))
  /\ UNCHANGED <<hotplug, gen, vm, sock, conn, tries, handle, sig, plugged, guest, dropped>>

\* Seeded defects: the device not recorded; recorded whatever the answer; the
\* mutex never released.
EndAddForgetting(c)  == AddEnds(c, {}) /\ Release(c)
EndAddPresuming(c)   == AddEnds(c, {"returns", "fails"}) /\ Release(c)
EndAddKeepingLock(c) == AddEnds(c, {"returns"}) /\ UNCHANGED lock

\* The device counts as attached when the command returned.
EndAdd(c) == AddEnds(c, {"returns"}) /\ Release(c)

Plug(d) ==
  /\ d \notin plugged
  /\ Spend("plugs", MaxPlugs)
  /\ plugged' = plugged \cup {d}
  /\ UNCHANGED <<hotplug, gen, vm, sock, threads, guest, history>>

Unplug(d) ==
  /\ d \in plugged
  /\ plugged' = plugged \ {d}
  /\ UNCHANGED <<hotplug, gen, vm, sock, threads, guest, used, history>>

-----------------------------------------------------------------------------
AgentThread(c) ==
  \/ Connect(c) \/ ConnectFails(c) \/ ReleaseHandle(c) \/ SkipEvent(c)
  \/ TakeSignal(c) \/ EndSignal(c)
  \/ Scan(c) \/ TryAdd(c) \/ EndAdd(c)

Qemu(c) == QemuListens(c) \/ QemuExits(c) \/ QemuAnswers(c) \/ QemuEmitsEvent(c)

Next ==
  \/ Launch
  \/ \E c \in Gens : AgentThread(c) \/ Qemu(c)
  \/ Signal
  \/ \E d \in Devices : Plug(d) \/ Unplug(d)

Spec == Init /\ [][Next]_vars

\* The agent's threads run, and QEMU answers what it is sent.  Whether QEMU ever
\* exits, is quick, or the host sees devices and signals, is left open.  A mutex
\* waits for its holder only: no stronger fairness is needed.
FairSpec ==
  /\ Spec
  /\ \A c \in Gens :
       /\ WF_vars(SkipEvent(c)) /\ WF_vars(QemuAnswers(c))
       /\ WF_vars(TakeSignal(c)) /\ WF_vars(EndSignal(c))
       /\ WF_vars(Scan(c)) /\ WF_vars(TryAdd(c)) /\ WF_vars(EndAdd(c))

-----------------------------------------------------------------------------
(***************************************************************************)
(* Properties.                                                             *)
(***************************************************************************)

\* execute "sends a command and reads values until a return/error reply
\* arrives" (qmp.rs:32-33): the reply it returns is the one to its command, until
\* a read on that stream has timed out.  The answer to the command that gave up
\* comes later and is taken for the next one's (qmp.rs:17, 43-53), on that stream
\* only.
RepliesPaired == \A c \in mixed : late[c] > 0

Answers(c) == {i \in DOMAIN wire[c].reps : wire[c].reps[i] # Event}

\* The mutex around the Qmp keeps the two threads that share it apart: on the
\* stream of a held handle is the one command of its holder, on that of a free one
\* none, and beside it exactly the commands whose reads have timed out, which are
\* never drained (main.rs:278-316, qmp.rs:34-53).
OneCommandInFlight ==
  \A c \in Gens : handle[c] # 0 /\ vm[handle[c]] # "gone" =>
    Len(wire[c].reqs) + Cardinality(Answers(c)) = late[c] + (IF lock[c] = "free" THEN 0 ELSE 1)

\* A device the watcher believes attached, and so never offers again, was there at
\* the start or has been added to the VM it talks to, unless a read of this watcher
\* has timed out: the late answer may be to another device (main.rs:350-366).
AttachedIsAdded ==
  \A c \in Gens : late[c] = 0 =>
    \A d \in watch[c].attached \ watch[c].initial :
      \E i \in DOMAIN guest[handle[c]].added : guest[handle[c]].added[i].dev = d

\* No device is added twice to one VM, refused commands, events, unplugging and
\* a watcher left over from an earlier VM notwithstanding, unless a read of its
\* client has timed out: the command that gave up may have been obeyed, and the next
\* scan gives the device again, under another id (main.rs:339-372).
DeviceAddedOnce ==
  \A g \in Gens : (\A c \in Gens : handle[c] = g => late[c] = 0) =>
    \A i, j \in DOMAIN guest[g].added :
      guest[g].added[i].dev = guest[g].added[j].dev => i = j

\* A signal taken up by a connected signal thread reaches the VM it is connected
\* to, however the watcher uses the connection meanwhile (main.rs:302-314): only if
\* the thread has stopped waiting for the answer can the stream be closed, by its
\* last owner, before QEMU has read the request.
SignalServed ==
  \A c, g \in Gens :
    (sig[c] = "pending" /\ handle[c] = g)
      ~> (guest[g].powerdown \/ vm[g] = "gone" \/ (late[c] > 0 /\ handle[c] = 0))

\* A device plugged in under a connected watcher is attached, also when QEMU
\* refuses it at first (plan.md:102, main.rs:335-338).
HotplugServed ==
  \A c \in Gens, d \in Devices :
    (watch[c].at # "none" /\ handle[c] = c /\ d \in plugged)
      ~> (d \in watch[c].attached \/ d \notin plugged \/ vm[c] = "gone")

\* "received shutdown signal, requesting graceful guest shutdown" (main.rs:307):
\* a signal so announced is passed on to QEMU.
AnnouncedIsRequested == dropped = {}

\* The watcher adds "newly plugged-in USB devices" (main.rs:335): not one the
\* VM was started with.
OnlyNewDevicesAdded ==
  \A g \in Gens : \A i \in DOMAIN guest[g].added :
    guest[g].added[i].dev \notin watch[g].initial

=============================================================================
