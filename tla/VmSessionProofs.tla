-------------------------- MODULE VmSessionProofs ---------------------------
(***************************************************************************)
(* The threads beside QEMU and the one stream they share, for every number *)
(* of VMs, devices, signals and refused commands.  VInv is the inductive   *)
(* invariant.  How many commands and answers are on a stream it says of    *)
(* every stream; what they are, and so that a reply is the one to its      *)
(* command, that a device which counts as attached has been added and that *)
(* none is added twice, of those on which no read has timed out.           *)
(***************************************************************************)
EXTENDS VmSession, FiniteSetTheorems, FunctionTheorems, SequenceTheorems, TLAPS

\* A generation that has not been launched has no threads and no connection.
Idle ==
  \A g \in Gens : g > gen => /\ vm[g] = "none" /\ conn[g] = "none" /\ sig[g] = "none"
                             /\ watch[g] = NoWatch /\ handle[g] = 0

\* A connector that tries has attempts left.
Attempts ==
  \A c \in Gens : conn[c] \in {"none", "trying"} => tries[c] < MaxTries

TypeInv == TypeOK /\ Idle /\ Attempts

\* A handle is to a VM that has been up; without one nothing is sent.
Linked(c) ==
  /\ conn[c] # "stored" => handle[c] = 0 /\ late[c] = 0
  /\ handle[c] # 0 => vm[handle[c]] \in {"up", "gone"}
  /\ handle[c] = 0 => lock[c] = "free" /\ wire[c].reqs = <<>> /\ wire[c].reps = <<>>

\* No two handles are to one VM.
Sole == \A c, e \in Gens : handle[c] = handle[e] /\ handle[c] # 0 => c = e

\* Who holds the mutex is sending; the watcher sends what is not attached.
Holds(c) ==
  /\ lock[c] = "signal" <=> sig[c] = "sending"
  /\ lock[c] = "watcher" <=> watch[c].at = "sending"
  /\ watch[c].at # "none" => hotplug
  /\ watch[c].at = "sending" => \E d \in watch[c].todo : watch[c].dev = {d}
  /\ watch[c].at \in {"scan", "sending"} => watch[c].todo \cap watch[c].attached = {}

NoAnswer(s)  == \A i \in 1..Len(s) : s[i] = Event
OneAnswer(s) == \E i \in 1..Len(s) : s[i] # Event /\ \A j \in 1..Len(s) : j # i => s[j] = Event

\* The command the holder of c's mutex waits for.
Own(c, command) ==
  \/ lock[c] = "signal" /\ command = Powerdown
  \/ lock[c] = "watcher" /\ \E d \in watch[c].dev : command = Add(d, watch[c].next - 1)

Live(c) == handle[c] # 0 /\ vm[handle[c]] # "gone"

\* Commands and answers on a stream are the holder's one and those that it and its
\* predecessors gave up; devices are sent by watchers only.
Balance(c) ==
  /\ Live(c) => Len(wire[c].reqs) + Cardinality(Answers(c)) = late[c] + (IF lock[c] = "free" THEN 0 ELSE 1)
  /\ \A i \in 1..Len(wire[c].reqs) : wire[c].reqs[i] # Powerdown => hotplug

\* At most one answer is on a stream, and it is the holder's; while the VM runs
\* it is there, or its command is.
Flow(c) ==
  /\ NoAnswer(wire[c].reps) \/ (lock[c] # "free" /\ OneAnswer(wire[c].reps))
  /\ Live(c) => \/ lock[c] = "free" /\ wire[c].reqs = <<>>
                \/ lock[c] # "free" /\ Len(wire[c].reqs) = 1 /\ NoAnswer(wire[c].reps)
                \/ lock[c] # "free" /\ wire[c].reqs = <<>> /\ OneAnswer(wire[c].reps)
  /\ \A i \in 1..Len(wire[c].reps) : wire[c].reps[i] # Event => Own(c, wire[c].reps[i].to)
  /\ Live(c) => \A i \in 1..Len(wire[c].reqs) : Own(c, wire[c].reqs[i])

\* Device d was added to VM g; and the stream of c says that it was.
Has(q, d) == \E i \in 1..Len(q) : q[i].dev = d
Says(v, d) == v # Event /\ v.kind = "return" /\ v.to # Powerdown /\ v.to.dev = d
Reports(s, d) == \E i \in 1..Len(s) : Says(s[i], d)

AddedTo(g, d)  == Has(guest[g].added, d)
Reported(c, d) == Reports(wire[c].reps, d)

\* Attached, but for the devices of the start, and reported is what was added.
Recorded(c) ==
  \A d \in Devices :
    /\ Reported(c, d) => handle[c] # 0 /\ AddedTo(handle[c], d)
    /\ d \in watch[c].attached \ watch[c].initial => handle[c] # 0 /\ AddedTo(handle[c], d)
    /\ handle[c] # 0 /\ AddedTo(handle[c], d) => d \in watch[c].attached \/ Reported(c, d)

\* What is on the stream and what was added agree as long as no read timed out.
InStep(c) == late[c] = 0 => Flow(c) /\ Recorded(c)

\* Devices are added by the watcher that is connected.
Owners ==
  \A g \in Gens : guest[g].added # <<>> => hotplug /\ \E c \in Gens : handle[c] = g

VInv ==
  /\ TypeInv /\ Sole
  /\ \A c \in Gens : Linked(c) /\ Holds(c) /\ Balance(c) /\ InStep(c)
  /\ Owners /\ DeviceAddedOnce /\ RepliesPaired

-----------------------------------------------------------------------------
(***************************************************************************)
(* Streams.                                                                *)
(***************************************************************************)

Replies == Answer \cup {Event}

\* The first of the replies is read.
LEMMA Read ==
  ASSUME NEW s \in Seq(Replies), s # <<>>
  PROVE  /\ Len(s) \in Nat \ {0} /\ Head(s) = s[1] /\ 1 \in 1..Len(s)
         /\ Tail(s) \in Seq(Replies) /\ Len(Tail(s)) = Len(s) - 1
         /\ \A i \in 1..Len(Tail(s)) : i + 1 \in 1..Len(s) /\ Tail(s)[i] = s[i + 1]
         /\ \A i \in 1..Len(s) : i # 1 => i - 1 \in 1..Len(Tail(s)) /\ s[i] = Tail(s)[i - 1]
<1>1. Len(s) \in Nat \ {0} /\ Head(s) = s[1]
  BY EmptySeq
<1>. DEFINE t == Tail(s)
<1>2. t \in Seq(Replies) /\ Len(t) = Len(s) - 1 /\ \A i \in 1..Len(t) : t[i] = s[i + 1]
  BY HeadTailProperties
<1>. HIDE DEF t
<1>3. \A i \in 1..Len(t) : i + 1 \in 1..Len(s)
  BY <1>1, <1>2
<1>4. \A i \in 1..Len(s) : i # 1 => i - 1 \in 1..Len(t) /\ (i - 1) + 1 = i
  BY <1>1, <1>2
<1>5. 1 \in 1..Len(s)
  BY <1>1
<1>6. \A i \in 1..Len(s) : i # 1 => s[i] = t[i - 1]
  BY <1>2, <1>4
<1>. QED
  BY <1>1, <1>2, <1>3, <1>4, <1>5, <1>6 DEF t

\* An event is skipped, or the answer taken.
LEMMA ReadAnswers ==
  ASSUME NEW s \in Seq(Replies), s # <<>>
  PROVE  /\ Head(s) = Event => /\ NoAnswer(s) => NoAnswer(Tail(s))
                               /\ OneAnswer(s) => OneAnswer(Tail(s))
         /\ Head(s) # Event => ~NoAnswer(s) /\ (OneAnswer(s) => NoAnswer(Tail(s)))
<1>. DEFINE t == Tail(s)
<1>1. /\ Len(s) \in Nat \ {0} /\ Head(s) = s[1] /\ 1 \in 1..Len(s)
      /\ \A i \in 1..Len(t) : i + 1 \in 1..Len(s) /\ t[i] = s[i + 1]
      /\ \A i \in 1..Len(s) : i # 1 => i - 1 \in 1..Len(t) /\ s[i] = t[i - 1]
  BY Read
<1>. HIDE DEF t
<1>2. ASSUME NoAnswer(s) PROVE NoAnswer(t)
  BY <1>1, <1>2 DEF NoAnswer
<1>3. ASSUME Head(s) = Event, OneAnswer(s) PROVE OneAnswer(t)
  <2>1. PICK i \in 1..Len(s) : s[i] # Event /\ \A j \in 1..Len(s) : j # i => s[j] = Event
    BY <1>3 DEF OneAnswer
  <2>2. i # 1 /\ i - 1 \in 1..Len(t) /\ t[i - 1] # Event
    BY <1>1, <1>3, <2>1
  <2>3. ASSUME NEW j \in 1..Len(t), j # i - 1 PROVE t[j] = Event
    <3>1. j + 1 \in 1..Len(s) /\ j + 1 # i
      BY <1>1, <2>3
    <3>. QED
      BY <1>1, <2>1, <3>1
  <2>. QED
    BY <2>2, <2>3 DEF OneAnswer
<1>4. ASSUME Head(s) # Event PROVE ~NoAnswer(s) /\ (OneAnswer(s) => NoAnswer(t))
  <2>1. ~NoAnswer(s)
    BY <1>1, <1>4 DEF NoAnswer
  <2>2. ASSUME OneAnswer(s) PROVE NoAnswer(t)
    <3>1. PICK i \in 1..Len(s) : s[i] # Event /\ \A j \in 1..Len(s) : j # i => s[j] = Event
      BY <2>2 DEF OneAnswer
    <3>2. i = 1
      BY <1>1, <1>4, <3>1
    <3>3. \A j \in 1..Len(t) : j + 1 # i
      BY <3>2
    <3>. QED
      BY <1>1, <3>1, <3>3 DEF NoAnswer
  <2>. QED
    BY <2>1, <2>2
<1>. QED
  BY <1>2, <1>3, <1>4 DEF t

\* What a stream reports before and after one is read.
LEMMA ReadReports ==
  ASSUME NEW s \in Seq(Replies), s # <<>>, NEW d
  PROVE  Reports(s, d) <=> Says(Head(s), d) \/ Reports(Tail(s), d)
<1>. DEFINE t == Tail(s)
<1>1. /\ Head(s) = s[1] /\ 1 \in 1..Len(s)
      /\ \A i \in 1..Len(t) : i + 1 \in 1..Len(s) /\ t[i] = s[i + 1]
      /\ \A i \in 1..Len(s) : i # 1 => i - 1 \in 1..Len(t) /\ s[i] = t[i - 1]
  BY Read
<1>. HIDE DEF t
<1>2. Reports(s, d) <=> Says(Head(s), d) \/ Reports(t, d)
  BY <1>1 DEF Reports
<1>. QED
  BY <1>2 DEF t

\* A reply comes in.
LEMMA Arrive ==
  ASSUME NEW s \in Seq(Replies), NEW v \in Replies
  PROVE  /\ Append(s, v) \in Seq(Replies)
         /\ v = Event => /\ NoAnswer(s) => NoAnswer(Append(s, v))
                         /\ OneAnswer(s) => OneAnswer(Append(s, v))
         /\ v # Event => (NoAnswer(s) => OneAnswer(Append(s, v)))
         /\ \A d : Reports(Append(s, v), d) <=> Reports(s, d) \/ Says(v, d)
         /\ \A i \in 1..Len(Append(s, v)) : Append(s, v)[i] = v \/ (i \in 1..Len(s) /\ Append(s, v)[i] = s[i])
<1>. DEFINE t == Append(s, v)
<1>1. /\ t \in Seq(Replies) /\ Len(t) = Len(s) + 1 /\ Len(s) \in Nat
      /\ \A i \in 1..(Len(s) + 1) : t[i] = IF i <= Len(s) THEN s[i] ELSE v
  BY AppendProperties, LenProperties
<1>. HIDE DEF t
<1>2. /\ Len(s) + 1 \in 1..Len(t) /\ t[Len(s) + 1] = v
      /\ \A i \in 1..Len(s) : i \in 1..Len(t) /\ t[i] = s[i] /\ i # Len(s) + 1
      /\ \A i \in 1..Len(t) : i = Len(s) + 1 \/ i \in 1..Len(s)
  BY <1>1
<1>3. v = Event => (NoAnswer(s) => NoAnswer(t)) /\ (OneAnswer(s) => OneAnswer(t))
  BY <1>2 DEF NoAnswer, OneAnswer
<1>4. v # Event => (NoAnswer(s) => OneAnswer(t))
  BY <1>2 DEF NoAnswer, OneAnswer
<1>5. \A d : Reports(t, d) <=> Reports(s, d) \/ Says(v, d)
  BY <1>2 DEF Reports
<1>. QED
  BY <1>1, <1>2, <1>3, <1>4, <1>5 DEF t

\* One more device.
LEMMA OneMore ==
  ASSUME NEW q \in Seq(Adding), NEW command \in Adding
  PROVE  /\ Append(q, command) \in Seq(Adding) /\ Append(q, command) # <<>>
         /\ \A d : Has(Append(q, command), d) <=> Has(q, d) \/ command.dev = d
         /\ (\A i, j \in 1..Len(q) : q[i].dev = q[j].dev => i = j) /\ ~Has(q, command.dev)
              => \A i, j \in 1..Len(Append(q, command)) :
                   Append(q, command)[i].dev = Append(q, command)[j].dev => i = j
<1>. DEFINE t == Append(q, command)
<1>1. /\ t \in Seq(Adding) /\ Len(t) = Len(q) + 1 /\ Len(q) \in Nat
      /\ \A i \in 1..(Len(q) + 1) : t[i] = IF i <= Len(q) THEN q[i] ELSE command
  BY AppendProperties, LenProperties
<1>0. t # <<>>
  BY AppendProperties
<1>. HIDE DEF t
<1>2. /\ Len(q) + 1 \in 1..Len(t) /\ t[Len(q) + 1] = command
      /\ \A i \in 1..Len(q) : i \in 1..Len(t) /\ t[i] = q[i] /\ i # Len(q) + 1
      /\ \A i \in 1..Len(t) : i = Len(q) + 1 \/ i \in 1..Len(q)
  BY <1>1
<1>3. \A d : Has(t, d) <=> Has(q, d) \/ command.dev = d
  BY <1>2 DEF Has
<1>4. ASSUME \A i, j \in 1..Len(q) : q[i].dev = q[j].dev => i = j, ~Has(q, command.dev)
      PROVE  \A i, j \in 1..Len(t) : t[i].dev = t[j].dev => i = j
  BY <1>2, <1>4 DEF Has
<1>. QED
  BY <1>0, <1>1, <1>3, <1>4 DEF t

-----------------------------------------------------------------------------
(***************************************************************************)
(* What the steps of Qmp::execute do to a stream.                          *)
(***************************************************************************)

\* The commands are of the stream's types, and none is a reply.
LEMMA CommandsAre ==
  /\ Powerdown \in Command
  /\ \A d \in Devices, n \in Nat : Add(d, n) \in Adding /\ Add(d, n) \in Command /\ Add(d, n) # Powerdown
                                   /\ Add(d, n).dev = d
  /\ \A command \in Command : command # Powerdown => command \in Adding
  /\ \A v \in Answer : v # Event /\ v \in Replies
  /\ \A v \in Replies : v.kind = "event" <=> v = Event
  /\ \A v \in Replies : v # Event => v \in Answer /\ v.to \in Command
<1>1. \A d \in Devices, n \in Nat : Add(d, n) \in Adding
  BY DEF Add, Adding
<1>2. \A d \in Devices, n \in Nat : Add(d, n).cmd = "device_add" /\ Powerdown.cmd = "system_powerdown" /\ Add(d, n).dev = d
  BY DEF Add, Powerdown
<1>3. \A d \in Devices, n \in Nat : Add(d, n) # Powerdown
  BY <1>2
<1>4. \A v \in Answer : v.kind \in {"return", "error"} /\ v.to \in Command
  BY DEF Answer
<1>5. Event.kind = "event"
  BY DEF Event
<1>6. \A v \in Answer : v # Event /\ v.kind # "event"
  BY <1>4, <1>5
<1>7. \A d \in Devices, n \in Nat : Add(d, n) \in Command
  BY <1>1 DEF Command
<1>. QED
  BY <1>1, <1>2, <1>3, <1>4, <1>5, <1>6, <1>7 DEF Command, Replies

\* A stream of the type has commands and replies.
LEMMA StreamIs ==
  ASSUME NEW s \in Stream
  PROVE  s.reqs \in Seq(Command) /\ s.reps \in Seq(Replies)
BY DEF Stream, Replies

\* A command is sent.
LEMMA Sends ==
  ASSUME TypeOK, NEW c \in Gens, NEW command \in Command, Send(c, command)
  PROVE  /\ wire' \in [Gens -> Stream]
         /\ wire'[c].reqs = Append(wire[c].reqs, command) /\ wire'[c].reps = wire[c].reps
         /\ \A e \in Gens : e # c => wire'[e] = wire[e]
<1>1. wire \in [Gens -> Stream] /\ wire[c] \in Stream
  BY DEF TypeOK
<1>2. wire' = [wire EXCEPT ![c] = [wire[c] EXCEPT !.reqs = Append(wire[c].reqs, command)]]
  BY DEF Send
<1>3. wire[c].reqs \in Seq(Command) /\ wire[c].reps \in Seq(Replies)
  BY <1>1, StreamIs
<1>4. Append(wire[c].reqs, command) \in Seq(Command)
  BY <1>3, AppendProperties
<1>5. wire[c] = [reqs |-> wire[c].reqs, reps |-> wire[c].reps]
  BY <1>1 DEF Stream
<1>. DEFINE s == [wire[c] EXCEPT !.reqs = Append(wire[c].reqs, command)]
<1>6. s = [reqs |-> Append(wire[c].reqs, command), reps |-> wire[c].reps]
  BY <1>5
<1>7. s \in Stream /\ s.reqs = Append(wire[c].reqs, command) /\ s.reps = wire[c].reps
  BY <1>3, <1>4, <1>6 DEF Stream, Replies
<1>. HIDE DEF s
<1>8. wire' = [wire EXCEPT ![c] = s]
  BY <1>2 DEF s
<1>. QED
  BY <1>1, <1>7, <1>8

\* The first of the replies is taken from the stream.
LEMMA Takes ==
  ASSUME TypeOK, NEW c \in Gens, wire[c].reps # <<>>, wire' = [wire EXCEPT ![c].reps = Tail(@)]
  PROVE  /\ wire' \in [Gens -> Stream]
         /\ wire'[c].reqs = wire[c].reqs /\ wire'[c].reps = Tail(wire[c].reps)
         /\ Head(wire[c].reps) \in Replies
         /\ \A e \in Gens : e # c => wire'[e] = wire[e]
<1>1. wire \in [Gens -> Stream] /\ wire[c] \in Stream
  BY DEF TypeOK
<1>3. wire[c].reqs \in Seq(Command) /\ wire[c].reps \in Seq(Replies)
  BY <1>1, StreamIs
<1>4. Tail(wire[c].reps) \in Seq(Replies) /\ Head(wire[c].reps) \in Replies
  BY <1>3, HeadTailProperties
<1>5. wire[c] = [reqs |-> wire[c].reqs, reps |-> wire[c].reps]
  BY <1>1 DEF Stream
<1>. DEFINE s == [wire[c] EXCEPT !.reps = Tail(wire[c].reps)]
<1>6. s = [reqs |-> wire[c].reqs, reps |-> Tail(wire[c].reps)]
  <2>1. \A w \in Stream : \A r : [w EXCEPT !.reps = r] = [reqs |-> w.reqs, reps |-> r]
    BY DEF Stream
  <2>. QED
    BY <1>1, <2>1
<1>7. s \in Stream /\ s.reqs = wire[c].reqs /\ s.reps = Tail(wire[c].reps)
  BY <1>3, <1>4, <1>6 DEF Stream, Replies
<1>. HIDE DEF s
<1>8. wire' = [wire EXCEPT ![c] = s]
  BY DEF s
<1>. QED
  BY <1>1, <1>4, <1>7, <1>8

\* What was received, and from where the rest of the stream is left.
LEMMA Receives ==
  ASSUME TypeOK, NEW c \in Gens, NEW own, NEW kind, Receive(c, own, kind)
  PROVE  /\ wire[c].reps # <<>> /\ wire' \in [Gens -> Stream]
         /\ wire'[c].reqs = wire[c].reqs /\ wire'[c].reps = Tail(wire[c].reps)
         /\ Head(wire[c].reps) \in Answer /\ Head(wire[c].reps).kind = kind
         /\ \A e \in Gens : e # c => wire'[e] = wire[e]
         /\ mixed' = IF Head(wire[c].reps).to = own THEN mixed ELSE mixed \cup {c}
         /\ used' = used /\ late' = late
<1>1. wire[c].reps # <<>> /\ wire' = [wire EXCEPT ![c].reps = Tail(@)] /\ used' = used /\ late' = late
      /\ Head(wire[c].reps).kind = kind /\ kind \in {"return", "error"}
  BY DEF Receive
<1>2. mixed' = IF Head(wire[c].reps).to = own THEN mixed ELSE mixed \cup {c}
  BY DEF Receive
<1>3. /\ wire' \in [Gens -> Stream]
      /\ wire'[c].reqs = wire[c].reqs /\ wire'[c].reps = Tail(wire[c].reps)
      /\ Head(wire[c].reps) \in Replies
      /\ \A e \in Gens : e # c => wire'[e] = wire[e]
  BY <1>1, Takes
<1>4. Head(wire[c].reps) \in Answer
  BY <1>1, <1>3, CommandsAre DEF Event
<1>. QED
  BY <1>1, <1>2, <1>3, <1>4

\* A command is answered, and the answer is behind the other replies.
LEMMA Replied ==
  ASSUME TypeOK, NEW c \in Gens, wire[c].reqs # <<>>, NEW v \in Answer,
         wire' = [wire EXCEPT ![c] = [reqs |-> Tail(@.reqs), reps |-> Append(@.reps, v)]]
  PROVE  /\ wire' \in [Gens -> Stream]
         /\ wire'[c].reqs = Tail(wire[c].reqs) /\ wire'[c].reps = Append(wire[c].reps, v)
         /\ \A e \in Gens : e # c => wire'[e] = wire[e]
<1>1. wire \in [Gens -> Stream] /\ wire[c].reqs \in Seq(Command) /\ wire[c].reps \in Seq(Replies)
  BY StreamIs DEF TypeOK
<1>2. Tail(wire[c].reqs) \in Seq(Command)
  BY <1>1, HeadTailProperties
<1>3. Append(wire[c].reps, v) \in Seq(Replies)
  BY <1>1, CommandsAre, AppendProperties
<1>. DEFINE a == Tail(wire[c].reqs)
            b == Append(wire[c].reps, v)
            s == [reqs |-> a, reps |-> b]
<1>4. a \in Seq(Command) /\ b \in Seq(Replies) /\ wire' = [wire EXCEPT ![c] = [reqs |-> a, reps |-> b]]
  BY <1>2, <1>3
<1>. HIDE DEF a, b
<1>5. s \in Stream /\ s.reqs = a /\ s.reps = b
  BY <1>4 DEF Stream, Replies
<1>6. wire' = [wire EXCEPT ![c] = s]
  BY <1>4
<1>. HIDE DEF s
<1>7. wire'[c] = s /\ wire' \in [Gens -> Stream] /\ \A e \in Gens : e # c => wire'[e] = wire[e]
  BY <1>1, <1>5, <1>6
<1>. QED
  BY <1>5, <1>7 DEF a, b

\* An event comes in behind the other replies.
LEMMA Emitted ==
  ASSUME TypeOK, NEW c \in Gens, wire' = [wire EXCEPT ![c].reps = Append(@, Event)]
  PROVE  /\ wire' \in [Gens -> Stream]
         /\ wire'[c].reqs = wire[c].reqs /\ wire'[c].reps = Append(wire[c].reps, Event)
         /\ \A e \in Gens : e # c => wire'[e] = wire[e]
<1>1. wire \in [Gens -> Stream] /\ wire[c] \in Stream
  BY DEF TypeOK
<1>2. wire[c].reqs \in Seq(Command) /\ wire[c].reps \in Seq(Replies)
  BY <1>1, StreamIs
<1>. DEFINE b == Append(wire[c].reps, Event)
            s == [wire[c] EXCEPT !.reps = b]
<1>3. b \in Seq(Replies)
  BY <1>2, AppendProperties DEF Replies
<1>4. wire' = [wire EXCEPT ![c] = [wire[c] EXCEPT !.reps = b]]
  OBVIOUS
<1>. HIDE DEF b
<1>5. s = [reqs |-> wire[c].reqs, reps |-> b]
  <2>1. \A w \in Stream : \A r : [w EXCEPT !.reps = r] = [reqs |-> w.reqs, reps |-> r]
    BY DEF Stream
  <2>. QED
    BY <1>1, <2>1
<1>6. s \in Stream /\ s.reqs = wire[c].reqs /\ s.reps = b
  BY <1>2, <1>3, <1>5 DEF Stream, Replies
<1>7. wire' = [wire EXCEPT ![c] = s]
  BY <1>4
<1>. HIDE DEF s
<1>8. wire'[c] = s /\ wire' \in [Gens -> Stream] /\ \A e \in Gens : e # c => wire'[e] = wire[e]
  BY <1>1, <1>6, <1>7
<1>. QED
  BY <1>6, <1>8 DEF b

Used == [signals : 0..MaxSignals, plugs : 0..MaxPlugs, timeouts : 0..MaxTimeouts, noise : 0..MaxNoise]

\* Nothing is spent beyond its bound.
LEMMA Spent ==
  ASSUME used \in Used,
         \/ Spend("signals", MaxSignals) \/ Spend("plugs", MaxPlugs)
         \/ Spend("timeouts", MaxTimeouts) \/ Spend("noise", MaxNoise)
  PROVE  used' \in Used
<1>1. /\ used.signals \in 0..MaxSignals /\ used.plugs \in 0..MaxPlugs
      /\ used.timeouts \in 0..MaxTimeouts /\ used.noise \in 0..MaxNoise
  BY DEF Used
<1>2. MaxSignals \in Nat /\ MaxPlugs \in Nat /\ MaxTimeouts \in Nat /\ MaxNoise \in Nat
  BY BoundsAssumption
<1>3. CASE Spend("signals", MaxSignals)
  BY <1>1, <1>2, <1>3 DEF Spend, Used
<1>4. CASE Spend("plugs", MaxPlugs)
  BY <1>1, <1>2, <1>4 DEF Spend, Used
<1>5. CASE Spend("timeouts", MaxTimeouts)
  BY <1>1, <1>2, <1>5 DEF Spend, Used
<1>6. CASE Spend("noise", MaxNoise)
  BY <1>1, <1>2, <1>6 DEF Spend, Used
<1>. QED
  BY <1>3, <1>4, <1>5, <1>6

Guests == [Gens -> [added : Seq(Adding), powerdown : BOOLEAN]]

\* What QEMU does for a command, and what it answers: a device that it added
\* is the command's, and the answer is to the command.
LEMMA AnswersStep ==
  ASSUME TypeOK, NEW c \in Gens, QemuAnswers(c)
  PROVE  LET g == handle[c]
             command == Head(wire[c].reqs)
         IN /\ g \in Gens /\ vm[g] = "up" /\ wire[c].reqs # <<>> /\ command \in Command
            /\ \E v \in Answer :
                 /\ v.to = command
                 /\ wire'[c].reqs = Tail(wire[c].reqs) /\ wire'[c].reps = Append(wire[c].reps, v)
                 /\ IF v.kind = "return" /\ command # Powerdown
                    THEN guest'[g].added = Append(guest[g].added, command)
                    ELSE guest'[g].added = guest[g].added
            /\ wire' \in [Gens -> Stream] /\ guest' \in Guests /\ used' \in Used
            /\ \A e \in Gens : /\ e # c => wire'[e] = wire[e]
                               /\ e # g => guest'[e] = guest[e]
<1>. DEFINE g == handle[c]
            command == Head(wire[c].reqs)
            reply(kind) == wire' = [wire EXCEPT ![c] =
                             [reqs |-> Tail(@.reqs), reps |-> Append(@.reps, [kind |-> kind, to |-> command])]]
<1>1. g \in Gens /\ vm[g] = "up" /\ wire[c].reqs # <<>>
  BY DEF TypeOK, QemuAnswers, Gens
<1>2. wire[c].reqs \in Seq(Command)
  BY StreamIs DEF TypeOK
<1>3. command \in Command
  BY <1>1, <1>2, HeadTailProperties
<1>4. used \in Used /\ guest \in Guests /\ guest[g].added \in Seq(Adding)
  BY <1>1 DEF TypeOK, Used, Guests
<1>5. \/ command = Powerdown /\ guest' = [guest EXCEPT ![g].powerdown = TRUE] /\ reply("return") /\ used' = used
      \/ command # Powerdown /\ guest' = [guest EXCEPT ![g].added = Append(@, command)] /\ reply("return") /\ used' = used
      \/ command # Powerdown /\ guest' = guest /\ reply("error") /\ (used' = used \/ Spend("noise", MaxNoise))
  BY DEF QemuAnswers
<1>. HIDE DEF g, command
<1>6. used' \in Used
  BY <1>4, <1>5, Spent
<1>7. ASSUME NEW kind \in {"return", "error"}, reply(kind)
      PROVE  \E v \in Answer :
               /\ v.kind = kind /\ v.to = command
               /\ wire'[c].reqs = Tail(wire[c].reqs) /\ wire'[c].reps = Append(wire[c].reps, v)
               /\ wire' \in [Gens -> Stream] /\ \A e \in Gens : e # c => wire'[e] = wire[e]
  <2>. DEFINE v == [kind |-> kind, to |-> command]
  <2>1. v \in Answer /\ v.kind = kind /\ v.to = command
    BY <1>3 DEF Answer
  <2>2. wire' = [wire EXCEPT ![c] = [reqs |-> Tail(@.reqs), reps |-> Append(@.reps, v)]]
    BY <1>7
  <2>. HIDE DEF v
  <2>3. /\ wire' \in [Gens -> Stream]
        /\ wire'[c].reqs = Tail(wire[c].reqs) /\ wire'[c].reps = Append(wire[c].reps, v)
        /\ \A e \in Gens : e # c => wire'[e] = wire[e]
    BY <1>1, <2>1, <2>2, Replied
  <2>. QED
    BY <2>1, <2>3
<1>. HIDE DEF reply
<1>8. CASE command = Powerdown /\ guest' = [guest EXCEPT ![g].powerdown = TRUE] /\ reply("return")
  <2>1. guest' \in Guests /\ guest'[g].added = guest[g].added /\ \A e \in Gens : e # g => guest'[e] = guest[e]
    BY <1>1, <1>4, <1>8 DEF Guests
  <2>. QED
    BY <1>1, <1>3, <1>6, <1>7, <1>8, <2>1 DEF g, command
<1>9. CASE command # Powerdown /\ guest' = [guest EXCEPT ![g].added = Append(@, command)] /\ reply("return")
  <2>1. Append(guest[g].added, command) \in Seq(Adding)
    BY <1>3, <1>4, <1>9, CommandsAre, AppendProperties
  <2>2. guest' \in Guests /\ guest'[g].added = Append(guest[g].added, command)
        /\ \A e \in Gens : e # g => guest'[e] = guest[e]
    BY <1>1, <1>4, <1>9, <2>1 DEF Guests
  <2>. QED
    BY <1>1, <1>3, <1>6, <1>7, <1>9, <2>2 DEF g, command
<1>10. CASE command # Powerdown /\ guest' = guest /\ reply("error")
  <2>1. guest' \in Guests /\ guest'[g].added = guest[g].added /\ \A e \in Gens : e # g => guest'[e] = guest[e]
    BY <1>4, <1>10
  <2>2. PICK v \in Answer :
               /\ v.kind = "error" /\ v.to = command
               /\ wire'[c].reqs = Tail(wire[c].reqs) /\ wire'[c].reps = Append(wire[c].reps, v)
               /\ wire' \in [Gens -> Stream] /\ \A e \in Gens : e # c => wire'[e] = wire[e]
    BY <1>7, <1>10
  <2>. QED
    BY <1>1, <1>3, <1>6, <2>1, <2>2 DEF g, command
<1>. QED
  BY <1>5, <1>8, <1>9, <1>10

-----------------------------------------------------------------------------
(***************************************************************************)
(* Types.                                                                  *)
(***************************************************************************)

\* However a command ends, the streams have their type.
LEMMA Ends ==
  ASSUME TypeOK, NEW c \in Gens, NEW own, Returns(c, own) \/ Fails(c, own)
  PROVE  wire' \in [Gens -> Stream] /\ mixed' \subseteq Gens /\ late' \in [Gens -> Nat] /\ used' \in Used
<1>1. wire \in [Gens -> Stream] /\ used \in Used /\ mixed \subseteq Gens /\ late \in [Gens -> Nat]
  BY DEF TypeOK, Used
<1>2. ASSUME NEW kind, Receive(c, own, kind)
      PROVE  wire' \in [Gens -> Stream] /\ mixed' \subseteq Gens /\ late' \in [Gens -> Nat] /\ used' \in Used
  <2>1. wire' \in [Gens -> Stream] /\ used' = used
    BY <1>2, Receives
  <2>2. mixed' \subseteq Gens /\ late' \in [Gens -> Nat]
    BY <1>1, <1>2 DEF Receive
  <2>. QED
    BY <1>1, <2>1, <2>2
<1>3. CASE ReadTimesOut(c)
  <2>1. wire' = wire /\ mixed' = mixed /\ Spend("timeouts", MaxTimeouts)
    BY <1>3 DEF ReadTimesOut
  <2>2. late' \in [Gens -> Nat]
    BY <1>1, <1>3 DEF ReadTimesOut
  <2>3. used' \in Used
    BY <1>1, <2>1, Spent
  <2>. QED
    BY <1>1, <2>1, <2>2, <2>3
<1>4. CASE PeerGone(c)
  BY <1>1, <1>4 DEF PeerGone
<1>. QED
  BY <1>2, <1>3, <1>4 DEF Returns, Fails

\* The devices present are counted.
LEMMA Counted ==
  ASSUME TypeOK
  PROVE  Cardinality(plugged) \in Nat
BY DevicesAssumption, FS_Subset, FS_CardinalityType DEF TypeOK

\* Every watcher keeps its type.
LEMMA WatcherTyped ==
  ASSUME TypeOK, NEW c \in Gens, NEW w \in Watch, Watcher(c, w)
  PROVE  watch' \in [Gens -> Watch] /\ watch'[c] = w /\ \A e \in Gens : e # c => watch'[e] = watch[e]
BY DEF TypeOK, Watcher

\* What becomes of a watcher when a device is passed over, or attached.
LEMMA Passed ==
  ASSUME NEW w \in Watch, NEW d \in Devices
  PROVE  /\ PassedOver(w, d) \in Watch /\ Attached(w, d) \in Watch
         /\ PassedOver(w, d).todo = w.todo \ {d} /\ PassedOver(w, d).attached = w.attached
         /\ PassedOver(w, d).initial = w.initial /\ PassedOver(w, d).next = w.next
         /\ PassedOver(w, d).at \in {"sleep", "scan"}
         /\ Attached(w, d).todo = w.todo \ {d} /\ Attached(w, d).attached = w.attached \cup {d}
         /\ Attached(w, d).initial = w.initial /\ Attached(w, d).next = w.next
         /\ Attached(w, d).at \in {"sleep", "scan"}
<1>1. PICK at \in {"sleep", "scan"} : at = IF w.todo = {d} THEN "sleep" ELSE "scan"
  OBVIOUS
<1>2. PICK todo \in SUBSET Devices : todo = w.todo \ {d}
  BY DEF Watch
<1>. DEFINE p == [w EXCEPT !.todo = todo, !.dev = {}, !.at = at]
<1>3. PassedOver(w, d) = p
  BY <1>1, <1>2 DEF PassedOver
<1>4. p \in Watch
  BY DEF Watch
<1>5. p.todo = todo /\ p.at = at
  BY DEF Watch
<1>6. p.attached = w.attached /\ p.initial = w.initial /\ p.next = w.next
  BY DEF Watch
<1>. HIDE DEF p
<1>. DEFINE a == [p EXCEPT !.attached = w.attached \cup {d}]
<1>7. Attached(w, d) = a
  BY <1>3, <1>6 DEF Attached
<1>8. a \in Watch /\ a.todo = p.todo /\ a.at = p.at /\ a.initial = p.initial /\ a.next = p.next
      /\ a.attached = w.attached \cup {d}
  BY <1>4 DEF Watch
<1>. HIDE DEF a
<1>. QED
  BY <1>1, <1>2, <1>3, <1>4, <1>5, <1>6, <1>7, <1>8

\* The mutex of one handle is taken or released.
LEMMA LockTyped ==
  ASSUME TypeOK, NEW c \in Gens, NEW who \in {"free", "signal", "watcher"}, lock' = [lock EXCEPT ![c] = who]
  PROVE  /\ lock' \in [Gens -> {"free", "signal", "watcher"}] /\ lock'[c] = who
         /\ \A e \in Gens : e # c => lock'[e] = lock[e]
BY DEF TypeOK

ScanOf(w, todo) == [w EXCEPT !.at = "scan", !.todo = todo]
SendingOf(w, d) == [w EXCEPT !.at = "sending", !.dev = {d}, !.next = @ + 1]

\* A scan leaves a watcher a watcher.
LEMMA Scanned ==
  ASSUME NEW w \in Watch, NEW todo \in SUBSET Devices, NEW s, s = ScanOf(w, todo)
  PROVE  /\ s \in Watch /\ s.at = "scan" /\ s.todo = todo /\ s.attached = w.attached
         /\ s.initial = w.initial /\ s.dev = w.dev /\ s.next = w.next
<1>1. s \in Watch
  BY DEF Watch, ScanOf
<1>2. s.at = "scan" /\ s.todo = todo /\ s.attached = w.attached
  BY DEF Watch, ScanOf
<1>3. s.initial = w.initial /\ s.dev = w.dev /\ s.next = w.next
  BY DEF Watch, ScanOf
<1>. QED
  BY <1>1, <1>2, <1>3

\* So does a device taken up.
LEMMA TakenUp ==
  ASSUME NEW w \in Watch, NEW d \in Devices, NEW t, t = SendingOf(w, d)
  PROVE  /\ t \in Watch /\ t.at = "sending" /\ t.todo = w.todo /\ t.attached = w.attached
         /\ t.initial = w.initial /\ t.dev = {d} /\ t.next = w.next + 1
<1>1. PICK n \in Nat : n = w.next + 1
  BY DEF Watch
<1>. DEFINE u == [w EXCEPT !.at = "sending", !.dev = {d}, !.next = n]
<1>2. t = u
  BY <1>1 DEF SendingOf
<1>3. u \in Watch
  BY DEF Watch
<1>4. u.at = "sending" /\ u.dev = {d} /\ u.next = n
  BY DEF Watch
<1>5. u.todo = w.todo /\ u.attached = w.attached /\ u.initial = w.initial
  BY DEF Watch
<1>. HIDE DEF u
<1>. QED
  BY <1>1, <1>2, <1>3, <1>4, <1>5

\* A launch starts the threads of one more generation, and changes no other.
LEMMA LaunchStep ==
  ASSUME TypeOK, Launch
  PROVE  LET n == gen + 1
         IN /\ n \in Gens /\ gen' = n
            /\ vm' = [vm EXCEPT ![n] = "booting"] /\ conn' = [conn EXCEPT ![n] = "trying"]
            /\ sig' = [sig EXCEPT ![n] = "waiting"]
            /\ watch' \in [Gens -> Watch]
            /\ \A e \in Gens : e # n => watch'[e] = watch[e]
            /\ watch'[n] = watch[n] \/ /\ hotplug /\ watch'[n].at = "sleep"
                                       /\ watch'[n].attached = watch'[n].initial
            /\ UNCHANGED <<hotplug, tries, handle, lock, wire, host, history>>
<1>1. gen + 1 \in Gens
  BY MaxGensAssumption DEF Launch, TypeOK, Gens
<1>2. Cardinality(plugged) \in Nat /\ plugged \in SUBSET Devices
  BY Counted DEF TypeOK
<1>3. PICK k \in Nat : k = Cardinality(plugged)
  BY <1>2
<1>. DEFINE w == [NoWatch EXCEPT !.at = "sleep", !.attached = plugged, !.initial = plugged, !.next = k]
<1>4. NoWatch \in Watch
  BY DEF NoWatch, Watch
<1>5. w \in Watch
  BY <1>2, <1>4 DEF Watch
<1>6. w.at = "sleep" /\ w.attached = plugged /\ w.initial = plugged
  BY <1>4 DEF Watch
<1>7. watch' = IF hotplug THEN [watch EXCEPT ![gen + 1] = w] ELSE watch
  BY <1>3 DEF Launch
<1>. HIDE DEF w
<1>8. watch \in [Gens -> Watch]
  BY DEF TypeOK
<1>9. CASE hotplug
  <2>1. watch' \in [Gens -> Watch] /\ watch'[gen + 1] = w /\ \A e \in Gens : e # gen + 1 => watch'[e] = watch[e]
    BY <1>1, <1>5, <1>7, <1>8, <1>9
  <2>. QED
    BY <1>1, <1>6, <1>9, <2>1 DEF Launch
<1>10. CASE ~hotplug
  BY <1>1, <1>7, <1>8, <1>10 DEF Launch
<1>. QED
  BY <1>9, <1>10

\* What the types of the next state come to.
LEMMA Typed ==
  ASSUME TypeOK, UNCHANGED hotplug, gen' \in 0..MaxGens,
         vm' \in [Gens -> {"none", "booting", "up", "gone"}], sock' \in 0..MaxGens,
         conn' \in [Gens -> {"none", "trying", "stored", "gave_up"}], tries' \in [Gens -> 0..MaxTries],
         handle' \in [Gens -> 0..MaxGens], lock' \in [Gens -> {"free", "signal", "watcher"}],
         sig' \in [Gens -> {"none", "waiting", "pending", "sending", "done"}],
         watch' \in [Gens -> Watch], wire' \in [Gens -> Stream], guest' \in Guests, used' \in Used,
         plugged' \subseteq Devices, mixed' \subseteq Gens /\ late' \in [Gens -> Nat], dropped' \subseteq Gens
  PROVE  TypeOK'
<1>1. hotplug' \in BOOLEAN
  BY DEF TypeOK
<1>. QED
  BY <1>1 DEF TypeOK, Guests, Used

\* The types before a step, as the names above have them.
LEMMA Are ==
  ASSUME TypeOK
  PROVE  /\ gen \in 0..MaxGens /\ gen \in Nat /\ \A g \in Gens : g \in Nat
         /\ vm \in [Gens -> {"none", "booting", "up", "gone"}] /\ sock \in 0..MaxGens
         /\ conn \in [Gens -> {"none", "trying", "stored", "gave_up"}] /\ tries \in [Gens -> 0..MaxTries]
         /\ handle \in [Gens -> 0..MaxGens] /\ lock \in [Gens -> {"free", "signal", "watcher"}]
         /\ sig \in [Gens -> {"none", "waiting", "pending", "sending", "done"}]
         /\ watch \in [Gens -> Watch] /\ wire \in [Gens -> Stream] /\ guest \in Guests /\ used \in Used
         /\ plugged \subseteq Devices /\ mixed \subseteq Gens /\ late \in [Gens -> Nat] /\ dropped \subseteq Gens
BY DEF TypeOK, Guests, Used, Gens

\* A VM that is launched has a number that had none.
LEMMA LaunchTypes ==
  ASSUME TypeInv, Launch
  PROVE  TypeInv'
<1>. DEFINE n == gen + 1
<1>1. /\ n \in Gens /\ gen' = n
      /\ vm' = [vm EXCEPT ![n] = "booting"] /\ conn' = [conn EXCEPT ![n] = "trying"]
      /\ sig' = [sig EXCEPT ![n] = "waiting"]
      /\ watch' \in [Gens -> Watch]
      /\ \A e \in Gens : e # n => watch'[e] = watch[e]
      /\ UNCHANGED <<hotplug, tries, handle, lock, wire, host, history>>
  BY LaunchStep DEF TypeInv
<1>2. TypeOK
  BY DEF TypeInv
<1>3. TypeOK'
  <2>1. /\ vm' \in [Gens -> {"none", "booting", "up", "gone"}]
        /\ conn' \in [Gens -> {"none", "trying", "stored", "gave_up"}]
        /\ sig' \in [Gens -> {"none", "waiting", "pending", "sending", "done"}]
    BY <1>1, <1>2, Are
  <2>2. gen' \in 0..MaxGens
    BY <1>1 DEF Gens
  <2>. HIDE DEF n
  <2>3. UNCHANGED <<hotplug, tries, handle, lock, wire, sock, plugged, guest, used, late, mixed, dropped>>
    BY <1>1 DEF host, history
  <2>. QED
    BY <1>1, <1>2, <2>1, <2>2, <2>3, Are, Typed
<1>4. Idle'
  <2>1. \A g \in Gens : g > n => g # n /\ g > gen
    BY <1>2, Are
  <2>. QED
    BY <1>1, <1>2, <2>1, Are DEF TypeInv, Idle
<1>5. Attempts'
  <2>1. n > gen
    BY <1>2, Are
  <2>2. conn[n] = "none"
    BY <1>1, <2>1 DEF TypeInv, Idle
  <2>. QED
    BY <1>1, <1>2, <2>2, Are DEF TypeInv, Attempts
<1>. QED
  BY <1>3, <1>4, <1>5 DEF TypeInv

\* The connector, and the handle given back.
LEMMA ConnectorTypes ==
  ASSUME TypeInv, NEW c \in Gens, Connect(c) \/ ConnectFails(c) \/ ReleaseHandle(c)
  PROVE  TypeInv'
<1>. USE DEF host, history
<1>1. TypeOK /\ Idle /\ Attempts
  BY DEF TypeInv
<1>2. CASE Connect(c)
  <2>1. /\ handle' = [handle EXCEPT ![c] = sock] /\ conn' = [conn EXCEPT ![c] = "stored"]
        /\ conn[c] = "trying"
        /\ UNCHANGED <<hotplug, gen, vm, tries, lock, sig, watch, wire, host, history>>
    BY <1>2 DEF Connect
  <2>2. TypeOK'
    BY <1>1, <2>1, Are, Typed
  <2>3. Idle'
    BY <1>1, <2>1, Are DEF Idle
  <2>4. Attempts'
    BY <1>1, <2>1, Are DEF Attempts
  <2>. QED
    BY <2>2, <2>3, <2>4 DEF TypeInv
<1>3. CASE ConnectFails(c)
  <2>1. /\ conn[c] = "trying" /\ tries' = [tries EXCEPT ![c] = @ + 1]
        /\ conn' = [conn EXCEPT ![c] = IF tries'[c] = MaxTries THEN "gave_up" ELSE "trying"]
        /\ UNCHANGED <<hotplug, gen, vm, handle, lock, sig, watch, wire, host, history>>
    BY <1>3 DEF ConnectFails
  <2>2. tries[c] < MaxTries /\ tries[c] \in Nat /\ MaxTries \in Nat
    BY <1>1, <2>1, Are, MaxTriesAssumption DEF Attempts
  <2>3. tries'[c] = tries[c] + 1 /\ tries' \in [Gens -> 0..MaxTries] /\ \A e \in Gens : e # c => tries'[e] = tries[e]
    BY <1>1, <2>1, <2>2, Are
  <2>4. conn' \in [Gens -> {"none", "trying", "stored", "gave_up"}] /\ \A e \in Gens : e # c => conn'[e] = conn[e]
    BY <1>1, <2>1, Are
  <2>5. TypeOK'
    BY <1>1, <2>1, <2>3, <2>4, Are, Typed
  <2>6. Idle'
    BY <1>1, <2>1, <2>4, Are DEF Idle
  <2>7. conn'[c] \in {"none", "trying"} => tries'[c] < MaxTries
    BY <1>1, <2>1, <2>2, <2>3, Are
  <2>8. Attempts'
    BY <1>1, <2>3, <2>4, <2>7 DEF Attempts
  <2>. QED
    BY <2>5, <2>6, <2>8 DEF TypeInv
<1>4. CASE ReleaseHandle(c)
  <2>1. /\ handle' = [handle EXCEPT ![c] = 0] /\ wire' = [wire EXCEPT ![c] = [reqs |-> <<>>, reps |-> <<>>]]
        /\ UNCHANGED <<hotplug, gen, vm, conn, tries, lock, sig, watch, host, history>>
    BY <1>4 DEF ReleaseHandle, CloseHandle
  <2>2. <<>> \in Seq(Command) /\ <<>> \in Seq(Answer \cup {Event})
    BY EmptySeq
  <2>3. [reqs |-> <<>>, reps |-> <<>>] \in Stream
    BY <2>2 DEF Stream
  <2>4. wire' \in [Gens -> Stream] /\ handle' \in [Gens -> 0..MaxGens]
    BY <1>1, <2>1, <2>3, Are, MaxGensAssumption
  <2>5. TypeOK'
    BY <1>1, <2>1, <2>4, Are, Typed
  <2>6. Idle'
    BY <1>1, <2>1, Are DEF Idle
  <2>7. Attempts'
    BY <1>1, <2>1 DEF Attempts
  <2>. QED
    BY <2>5, <2>6, <2>7 DEF TypeInv
<1>. QED
  BY <1>2, <1>3, <1>4

\* What goes over the stream.
LEMMA StreamTypes ==
  ASSUME TypeInv, NEW c \in Gens, SkipEvent(c) \/ QemuAnswers(c) \/ QemuEmitsEvent(c)
  PROVE  TypeInv'
<1>. USE DEF host, history
<1>1. TypeOK /\ Idle /\ Attempts
  BY DEF TypeInv
<1>2. UNCHANGED <<hotplug, gen, vm, sock, conn, tries, handle, lock, sig, watch, plugged, late, mixed, dropped>>
  BY DEF SkipEvent, QemuAnswers, QemuEmitsEvent
<1>3. wire' \in [Gens -> Stream] /\ guest' \in Guests /\ used' \in Used
  <2>1. CASE SkipEvent(c)
    <3>1. wire' \in [Gens -> Stream] /\ UNCHANGED <<guest, used>>
      BY <1>1, <2>1, Takes DEF SkipEvent
    <3>. QED
      BY <1>1, <3>1, Are
  <2>2. CASE QemuAnswers(c)
    BY <1>1, <2>2, AnswersStep
  <2>3. CASE QemuEmitsEvent(c)
    <3>1. wire' \in [Gens -> Stream] /\ guest' = guest /\ Spend("noise", MaxNoise)
      BY <1>1, <2>3, Emitted DEF QemuEmitsEvent
    <3>. QED
      BY <1>1, <3>1, Are, Spent
  <2>. QED
    BY <2>1, <2>2, <2>3
<1>4. TypeOK'
  BY <1>1, <1>2, <1>3, Are, Typed
<1>5. Idle' /\ Attempts'
  BY <1>1, <1>2 DEF Idle, Attempts
<1>. QED
  BY <1>4, <1>5 DEF TypeInv

\* The signal thread.
LEMMA SignalTypes ==
  ASSUME TypeInv, Signal \/ \E c \in Gens : TakeSignal(c) \/ EndSignal(c)
  PROVE  TypeInv'
<1>. USE DEF host, history
<1>1. TypeOK /\ Idle /\ Attempts
  BY DEF TypeInv
<1>2. CASE Signal
  <2>1. /\ sig' = [g \in Gens |-> IF sig[g] = "waiting" THEN "pending" ELSE sig[g]]
        /\ Spend("signals", MaxSignals)
        /\ UNCHANGED <<hotplug, gen, vm, sock, conn, tries, handle, lock, watch, wire, plugged, guest, history>>
    BY <1>2 DEF Signal
  <2>2. TypeOK'
    BY <1>1, <2>1, Are, Spent, Typed
  <2>3. Idle' /\ Attempts'
    BY <1>1, <2>1, Are DEF Idle, Attempts
  <2>. QED
    BY <2>2, <2>3 DEF TypeInv
<1>3. ASSUME NEW c \in Gens, TakeSignal(c) PROVE TypeInv'
  <2>1. /\ sig[c] = "pending" /\ UNCHANGED <<hotplug, gen, vm, conn, tries, handle, watch, host, late, mixed>>
        /\ sig' = [sig EXCEPT ![c] = "done"] \/ sig' = [sig EXCEPT ![c] = "sending"]
        /\ dropped' = dropped \/ dropped' = dropped \cup {c}
        /\ lock' = lock \/ lock' = [lock EXCEPT ![c] = "signal"]
        /\ wire' = wire \/ Send(c, Powerdown)
    BY <1>3 DEF TakeSignal, Acquire
  <2>2. wire' \in [Gens -> Stream]
    BY <1>1, <2>1, Are, CommandsAre, Sends
  <2>3. sig' \in [Gens -> {"none", "waiting", "pending", "sending", "done"}] /\ \A e \in Gens : e # c => sig'[e] = sig[e]
    BY <1>1, <2>1, Are
  <2>4. lock' \in [Gens -> {"free", "signal", "watcher"}]
    BY <1>1, <2>1, Are
  <2>5. TypeOK'
    BY <1>1, <2>1, <2>2, <2>3, <2>4, Are, Typed
  <2>6. Idle' /\ Attempts'
    BY <1>1, <2>1, <2>3, Are DEF Idle, Attempts
  <2>. QED
    BY <2>5, <2>6 DEF TypeInv
<1>4. ASSUME NEW c \in Gens, EndSignal(c) PROVE TypeInv'
  <2>1. /\ sig[c] = "sending"
        /\ UNCHANGED <<hotplug, gen, vm, sock, conn, tries, handle, watch, plugged, guest, dropped>>
        /\ sig' = [sig EXCEPT ![c] = "done"] /\ lock' = [lock EXCEPT ![c] = "free"]
        /\ Returns(c, Powerdown) \/ Fails(c, Powerdown)
    BY <1>4 DEF EndSignal, Release
  <2>2. wire' \in [Gens -> Stream] /\ mixed' \subseteq Gens /\ late' \in [Gens -> Nat] /\ used' \in Used
    BY <1>1, <2>1, Ends
  <2>3. sig' \in [Gens -> {"none", "waiting", "pending", "sending", "done"}]
        /\ lock' \in [Gens -> {"free", "signal", "watcher"}] /\ \A e \in Gens : e # c => sig'[e] = sig[e]
    BY <1>1, <2>1, Are
  <2>5. TypeOK'
    BY <1>1, <2>1, <2>2, <2>3, Are, Typed
  <2>6. Idle' /\ Attempts'
    BY <1>1, <2>1, <2>3, Are DEF Idle, Attempts
  <2>. QED
    BY <2>5, <2>6 DEF TypeInv
<1>. QED
  BY <1>2, <1>3, <1>4

\* The host's steps.
LEMMA HostTypes ==
  ASSUME TypeInv, \/ \E g \in Gens : QemuListens(g) \/ QemuExits(g)
                  \/ \E d \in Devices : Plug(d) \/ Unplug(d)
                  \/ UNCHANGED vars
  PROVE  TypeInv'
<1>. USE DEF host, history, threads
<1>1. TypeOK /\ Idle /\ Attempts
  BY DEF TypeInv
<1>2. ASSUME NEW g \in Gens, QemuListens(g) \/ QemuExits(g) PROVE TypeInv'
  <2>1. /\ vm[g] # "none"
        /\ vm' = [vm EXCEPT ![g] = "up"] \/ vm' = [vm EXCEPT ![g] = "gone"]
        /\ sock' = sock \/ sock' = g
        /\ UNCHANGED <<hotplug, gen, threads, plugged, guest, used, history>>
    BY <1>2 DEF QemuListens, QemuExits
  <2>2. vm' \in [Gens -> {"none", "booting", "up", "gone"}] /\ \A e \in Gens : e # g => vm'[e] = vm[e]
    BY <1>1, <2>1, Are
  <2>3. sock' \in 0..MaxGens
    BY <1>1, <2>1, Are DEF Gens
  <2>4. TypeOK'
    BY <1>1, <2>1, <2>2, <2>3, Are, Typed
  <2>5. Idle' /\ Attempts'
    BY <1>1, <2>1, <2>2 DEF Idle, Attempts
  <2>. QED
    BY <2>4, <2>5 DEF TypeInv
<1>3. ASSUME NEW d \in Devices, Plug(d) \/ Unplug(d) PROVE TypeInv'
  <2>1. /\ plugged' = plugged \cup {d} \/ plugged' = plugged \ {d}
        /\ used' = used \/ Spend("plugs", MaxPlugs)
        /\ UNCHANGED <<hotplug, gen, vm, sock, threads, guest, history>>
    BY <1>3 DEF Plug, Unplug
  <2>2. plugged' \subseteq Devices /\ used' \in Used
    BY <1>1, <2>1, Are, Spent
  <2>3. TypeOK'
    BY <1>1, <2>1, <2>2, Are, Typed
  <2>4. Idle' /\ Attempts'
    BY <1>1, <2>1 DEF Idle, Attempts
  <2>. QED
    BY <2>3, <2>4 DEF TypeInv
<1>4. CASE UNCHANGED vars
  <2>1. TypeOK'
    BY <1>1, <1>4, Are, Typed DEF vars
  <2>2. Idle' /\ Attempts'
    BY <1>1, <1>4 DEF vars, Idle, Attempts
  <2>. QED
    BY <2>1, <2>2 DEF TypeInv
<1>. QED
  BY <1>2, <1>3, <1>4

\* The hotplug watcher.
LEMMA WatcherTypes ==
  ASSUME TypeInv, NEW c \in Gens, Scan(c) \/ TryAdd(c) \/ EndAdd(c)
  PROVE  TypeInv'
<1>. USE DEF host, history
<1>1. TypeOK /\ Idle /\ Attempts /\ watch[c] \in Watch /\ \A w \in Watch : w.todo \subseteq Devices /\ w.dev \subseteq Devices /\ w.next \in Nat
  BY Are DEF TypeInv, Watch
<1>2. ASSUME NEW w \in Watch, Watcher(c, w), watch[c].at # "none",
             UNCHANGED <<hotplug, gen, vm, sock, conn, tries, handle, sig, plugged, guest, dropped>>,
             wire' \in [Gens -> Stream], lock' \in [Gens -> {"free", "signal", "watcher"}],
             mixed' \subseteq Gens /\ late' \in [Gens -> Nat], used' \in Used
      PROVE  TypeInv'
  <2>1. watch' \in [Gens -> Watch] /\ \A e \in Gens : e # c => watch'[e] = watch[e]
    BY <1>1, <1>2, WatcherTyped
  <2>2. TypeOK'
    BY <1>1, <1>2, <2>1, Are, Typed
  <2>3. watch[c] # NoWatch
    BY <1>2 DEF NoWatch
  <2>4. Idle' /\ Attempts'
    BY <1>1, <1>2, <2>1, <2>3 DEF Idle, Attempts
  <2>. QED
    BY <2>2, <2>4 DEF TypeInv
<1>3. CASE Scan(c)
  <2>. DEFINE w == ScanOf(watch[c], plugged \ watch[c].attached)
  <2>1. plugged \ watch[c].attached \in SUBSET Devices
    BY <1>1, Are
  <2>2. plugged \ watch[c].attached # {}
    BY <1>3 DEF Scan
  <2>3. PICK d \in Devices : d \in plugged
    BY <2>1, <2>2, <1>1, Are
  <2>4. w \in Watch
    BY <1>1, <2>1, Scanned
  <2>5. /\ Watcher(c, w) /\ watch[c].at = "sleep"
        /\ UNCHANGED <<hotplug, gen, vm, conn, tries, handle, lock, sig, wire, host, history>>
    BY <1>3 DEF Scan, ScanOf
  <2>. HIDE DEF w
  <2>. QED
    BY <1>1, <1>2, <2>4, <2>5, Are
<1>4. CASE TryAdd(c)
  <2>1. PICK d \in watch[c].todo :
       IF handle[c] = 0
       THEN Watcher(c, PassedOver(watch[c], d)) /\ UNCHANGED <<lock, wire>>
       ELSE /\ Acquire(c, "watcher")
            /\ Send(c, Add(d, watch[c].next))
            /\ Watcher(c, SendingOf(watch[c], d))
    BY <1>4 DEF TryAdd, SendingOf
  <2>2. /\ watch[c].at = "scan"
        /\ UNCHANGED <<hotplug, gen, vm, conn, tries, handle, sig, host, history>>
    BY <1>4 DEF TryAdd
  <2>3. d \in Devices /\ watch[c].next \in Nat
    BY <1>1
  <2>4. CASE handle[c] = 0
    <3>1. PassedOver(watch[c], d) \in Watch
      BY <1>1, <2>3, Passed
    <3>. QED
      BY <1>1, <1>2, <2>1, <2>2, <2>4, <3>1, Are
  <2>5. CASE handle[c] # 0
    <3>. DEFINE w == SendingOf(watch[c], d)
    <3>1. w \in Watch
      BY <1>1, <2>3, TakenUp
    <3>2. Watcher(c, w) /\ Send(c, Add(d, watch[c].next)) /\ lock' = [lock EXCEPT ![c] = "watcher"]
      BY <2>1, <2>5 DEF Acquire
    <3>. HIDE DEF w
    <3>3. Add(d, watch[c].next) \in Command
      BY <2>3, CommandsAre
    <3>4. wire' \in [Gens -> Stream]
      BY <1>1, <3>2, <3>3, Sends
    <3>5. lock' \in [Gens -> {"free", "signal", "watcher"}]
      BY <1>1, <3>2, Are
    <3>. QED
      BY <1>1, <1>2, <2>2, <3>1, <3>2, <3>4, <3>5, Are
  <2>. QED
    BY <2>4, <2>5
<1>5. CASE EndAdd(c)
  <2>1. PICK d \in watch[c].dev :
          LET own == Add(d, watch[c].next - 1)
          IN /\ Returns(c, own) \/ Fails(c, own)
             /\ Watcher(c, Attached(watch[c], d)) \/ Watcher(c, PassedOver(watch[c], d))
    BY <1>5 DEF EndAdd, AddEnds
  <2>2. /\ watch[c].at = "sending" /\ lock' = [lock EXCEPT ![c] = "free"]
        /\ UNCHANGED <<hotplug, gen, vm, sock, conn, tries, handle, sig, plugged, guest, dropped>>
    BY <1>5 DEF EndAdd, AddEnds, Release
  <2>3. d \in Devices
    BY <1>1
  <2>4. wire' \in [Gens -> Stream] /\ mixed' \subseteq Gens /\ late' \in [Gens -> Nat] /\ used' \in Used
    BY <1>1, <2>1, Ends
  <2>5. lock' \in [Gens -> {"free", "signal", "watcher"}]
    BY <1>1, <2>2, Are
  <2>6. Attached(watch[c], d) \in Watch /\ PassedOver(watch[c], d) \in Watch
    BY <1>1, <2>3, Passed
  <2>. QED
    BY <1>2, <2>1, <2>2, <2>4, <2>5, <2>6
<1>. QED
  BY <1>3, <1>4, <1>5

\* So every step keeps the types.
LEMMA TypeKeeps ==
  ASSUME TypeInv, [Next]_vars
  PROVE  TypeInv'
<1>1. CASE Launch
  BY <1>1, LaunchTypes
<1>2. ASSUME NEW c \in Gens, AgentThread(c) PROVE TypeInv'
  BY <1>2, ConnectorTypes, StreamTypes, SignalTypes, WatcherTypes DEF AgentThread
<1>3. ASSUME NEW c \in Gens, Qemu(c) PROVE TypeInv'
  BY <1>3, HostTypes, StreamTypes DEF Qemu
<1>4. CASE Signal
  BY <1>4, SignalTypes
<1>5. CASE (\E d \in Devices : Plug(d) \/ Unplug(d)) \/ UNCHANGED vars
  BY <1>5, HostTypes
<1>. QED
  BY <1>1, <1>2, <1>3, <1>4, <1>5 DEF Next

\* The first state has them.
LEMMA TypeInit ==
  ASSUME Init
  PROVE  TypeInv
<1>1. <<>> \in Seq(Command) /\ <<>> \in Seq(Answer \cup {Event}) /\ <<>> \in Seq(Adding)
  BY EmptySeq
<1>2. [reqs |-> <<>>, reps |-> <<>>] \in Stream /\ [added |-> <<>>, powerdown |-> FALSE] \in [added : Seq(Adding), powerdown : BOOLEAN]
  BY <1>1 DEF Stream
<1>3. NoWatch \in Watch
  BY DEF NoWatch, Watch
<1>4. [signals |-> 0, plugs |-> 0, timeouts |-> 0, noise |-> 0] \in Used
  BY BoundsAssumption DEF Used
<1>5. wire \in [Gens -> Stream] /\ watch \in [Gens -> Watch]
      /\ guest \in [Gens -> [added : Seq(Adding), powerdown : BOOLEAN]] /\ used \in Used
  BY <1>2, <1>3, <1>4 DEF Init
<1>6. 0 \in 0..MaxGens /\ 0 \in 0..MaxTries /\ 0 < MaxTries
  BY MaxGensAssumption, MaxTriesAssumption
<1>7. TypeOK
  BY <1>5, <1>6 DEF Init, TypeOK, Used
<1>8. Idle /\ Attempts
  BY <1>6 DEF Init, Idle, Attempts
<1>. QED
  BY <1>7, <1>8 DEF TypeInv

\* The state of the session has its type in every reachable state, whatever
\* the bounds (agent/src/main.rs:200-372, qmp.rs).
THEOREM SessionTyped == Spec => []TypeOK
<1>1. Init => TypeInv
  BY TypeInit
<1>2. TypeInv /\ [Next]_vars => TypeInv'
  BY TypeKeeps
<1>3. TypeInv => TypeOK
  BY DEF TypeInv
<1>. QED
  BY <1>1, <1>2, <1>3, PTL DEF Spec

-----------------------------------------------------------------------------
(***************************************************************************)
(* What a step leaves as it was.                                           *)
(***************************************************************************)

\* Nothing of generation c changes.
Untouched(c) == /\ conn'[c] = conn[c] /\ handle'[c] = handle[c] /\ lock'[c] = lock[c]
                /\ sig'[c] = sig[c] /\ watch'[c] = watch[c] /\ wire'[c] = wire[c]
                /\ late'[c] = late[c] /\ (c \in mixed' <=> c \in mixed)

\* No VM goes back to an earlier stage, and no device is added.
Onward ==
  \A g \in Gens : /\ vm[g] = "gone" => vm'[g] = "gone"
                  /\ vm[g] = "up" => vm'[g] \in {"up", "gone"}
                  /\ guest'[g].added = guest[g].added

\* What is said of the stream holds on, when nothing of it changes.
LEMMA FlowHolds ==
  ASSUME NEW c \in Gens, Flow(c), Live(c)' => Live(c),
         wire'[c] = wire[c], lock'[c] = lock[c], watch'[c].dev = watch[c].dev, watch'[c].next = watch[c].next
  PROVE  Flow(c)'
<1>1. \A command : Own(c, command)' <=> Own(c, command)
  BY DEF Own
<1>. QED
  BY <1>1 DEF Flow

\* What is said of the devices holds on.
LEMMA RecordedHolds ==
  ASSUME NEW c \in Gens, Recorded(c), handle'[c] = handle[c], handle[c] # 0 => guest'[handle[c]].added = guest[handle[c]].added,
         wire'[c].reps = wire[c].reps, watch'[c].attached = watch[c].attached, watch'[c].initial = watch[c].initial
  PROVE  Recorded(c)'
<1>1. \A d : Reported(c, d)' <=> Reported(c, d)
  BY DEF Reported
<1>2. handle[c] # 0 => \A d : AddedTo(handle[c], d)' <=> AddedTo(handle[c], d)
  BY DEF AddedTo
<1>. QED
  BY <1>1, <1>2 DEF Recorded

\* What is said of the numbers holds on.
LEMMA BalanceHolds ==
  ASSUME NEW c \in Gens, Balance(c), Live(c)' => Live(c), hotplug' = hotplug, late'[c] = late[c],
         wire'[c] = wire[c], lock'[c] = lock[c]
  PROVE  Balance(c)'
BY DEF Balance, Answers

\* A generation that a step does not touch is as consistent as it was.
LEMMA OtherHolds ==
  ASSUME TypeOK, NEW e \in Gens, Linked(e), Holds(e), Balance(e), InStep(e),
         Untouched(e), Onward, hotplug' = hotplug
  PROVE  Linked(e)' /\ Holds(e)' /\ Balance(e)' /\ InStep(e)'
<1>1. handle[e] # 0 => handle[e] \in Gens
  BY DEF TypeOK, Gens
<1>2. Linked(e)'
  BY <1>1 DEF Linked, Untouched, Onward
<1>3. Holds(e)'
  BY DEF Holds, Untouched
<1>4. Live(e)' => Live(e)
  BY <1>1 DEF Live, Untouched, Onward
<1>5. Flow(e) => Flow(e)'
  BY <1>4, FlowHolds DEF Untouched
<1>6. Recorded(e) => Recorded(e)'
  BY <1>1, RecordedHolds DEF Untouched, Onward
<1>7. Balance(e)'
  BY <1>4, BalanceHolds DEF Untouched
<1>8. InStep(e)'
  BY <1>5, <1>6 DEF InStep, Untouched
<1>. QED
  BY <1>2, <1>3, <1>7, <1>8

\* A step of one generation: what has to be seen of that one.
LEMMA Around ==
  ASSUME VInv, TypeInv', NEW c \in Gens, \A e \in Gens : e # c => Untouched(e),
         Onward, hotplug' = hotplug,
         late'[c] = 0 => late[c] = 0, c \in mixed' => late'[c] > 0,
         \/ handle'[c] = handle[c]
         \/ handle'[c] = 0 /\ ~hotplug
         \/ handle[c] = 0 /\ \A e \in Gens : handle[e] # handle'[c],
         Linked(c)', Holds(c)', Balance(c)', InStep(c)'
  PROVE  VInv'
<1>1. ASSUME NEW e \in Gens PROVE Linked(e)' /\ Holds(e)' /\ Balance(e)' /\ InStep(e)'
  BY OtherHolds DEF VInv, TypeInv
<1>2. Sole'
  BY DEF VInv, Sole, Untouched
<1>3. Owners'
  <2>1. ASSUME NEW g \in Gens, guest'[g].added # <<>> PROVE hotplug' /\ \E e \in Gens : handle'[e] = g
    <3>1. hotplug /\ \E e \in Gens : handle[e] = g
      BY <2>1 DEF VInv, Owners, Onward
    <3>2. g # 0
      BY DEF Gens
    <3>. QED
      BY <3>1, <3>2 DEF Untouched
  <2>. QED
    BY <2>1 DEF Owners
<1>4. DeviceAddedOnce'
  <2>. SUFFICES ASSUME NEW g \in Gens, \A e \in Gens : handle'[e] = g => late'[e] = 0
                PROVE  \A i, j \in DOMAIN guest'[g].added : guest'[g].added[i].dev = guest'[g].added[j].dev => i = j
    BY DEF DeviceAddedOnce
  <2>1. guest'[g].added = guest[g].added
    BY DEF Onward
  <2>2. CASE guest[g].added = <<>>
    BY <2>1, <2>2
  <2>3. CASE guest[g].added # <<>>
    <3>1. hotplug /\ g # 0
      BY <2>3 DEF VInv, Owners, Gens
    <3>2. ASSUME NEW e \in Gens, handle[e] = g PROVE late[e] = 0
      BY <3>1, <3>2 DEF Untouched
    <3>. QED
      BY <2>1, <3>2 DEF VInv, DeviceAddedOnce
  <2>. QED
    BY <2>2, <2>3
<1>5. RepliesPaired'
  <2>. SUFFICES ASSUME NEW e \in mixed' PROVE late'[e] > 0
    BY DEF RepliesPaired
  <2>1. e \in Gens
    BY DEF TypeInv, TypeOK
  <2>. QED
    BY <2>1 DEF VInv, RepliesPaired, Untouched
<1>. QED
  BY <1>1, <1>2, <1>3, <1>4, <1>5 DEF VInv

\* A thread changes its own generation, and no VM.
LEMMA Local ==
  ASSUME TypeOK, NEW c \in Gens, AgentThread(c)
  PROVE  /\ UNCHANGED <<hotplug, gen, vm, sock, plugged, guest>>
         /\ Onward /\ \A e \in Gens : e # c => Untouched(e)
<1>. USE DEF host, history
<1>0. UNCHANGED <<hotplug, gen, vm, sock, plugged, guest>>
  BY DEF AgentThread, Connect, ConnectFails, ReleaseHandle, CloseHandle, SkipEvent, TakeSignal, EndSignal, Scan, TryAdd,
         EndAdd, AddEnds
<1>1. Onward
  BY <1>0 DEF Onward
<1>2. ASSUME NEW e \in Gens, e # c PROVE Untouched(e)
  <2>. USE DEF Untouched
  <2>0. /\ conn \in [Gens -> {"none", "trying", "stored", "gave_up"}] /\ tries \in [Gens -> 0..MaxTries]
        /\ handle \in [Gens -> 0..MaxGens] /\ lock \in [Gens -> {"free", "signal", "watcher"}]
        /\ sig \in [Gens -> {"none", "waiting", "pending", "sending", "done"}]
        /\ watch \in [Gens -> Watch] /\ wire \in [Gens -> Stream]
        /\ late \in [Gens -> Nat]
    BY Are
  <2>1. CASE Connect(c)
    BY <1>2, <2>0, <2>1 DEF Connect
  <2>2. CASE ConnectFails(c)
    BY <1>2, <2>0, <2>2 DEF ConnectFails
  <2>3. CASE ReleaseHandle(c)
    BY <1>2, <2>0, <2>3 DEF ReleaseHandle, CloseHandle
  <2>4. CASE SkipEvent(c)
    BY <1>2, <2>0, <2>4 DEF SkipEvent
  <2>5. CASE TakeSignal(c)
    BY <1>2, <2>0, <2>5 DEF TakeSignal, Acquire, Send
  <2>6. ASSUME NEW own, Returns(c, own) \/ Fails(c, own)
        PROVE  wire'[e] = wire[e] /\ late'[e] = late[e] /\ (e \in mixed' <=> e \in mixed)
    BY <1>2, <2>0, <2>6 DEF Returns, Fails, Receive, ReadTimesOut, PeerGone
  <2>7. CASE EndSignal(c)
    BY <1>2, <2>0, <2>6, <2>7 DEF EndSignal, Release
  <2>8. CASE Scan(c)
    BY <1>2, <2>0, <2>8 DEF Scan, Watcher
  <2>9. CASE TryAdd(c)
    <3>2. wire'[e] = wire[e]
      BY <1>2, <2>0, <2>9 DEF TryAdd, Send
    <3>3. watch'[e] = watch[e]
      BY <1>2, <2>0, <2>9 DEF TryAdd, Watcher
    <3>4. UNCHANGED <<conn, handle, sig, history>>
      BY <2>9 DEF TryAdd
    <3>5. lock'[e] = lock[e]
      BY <1>2, <2>0, <2>9 DEF TryAdd, Acquire
    <3>. QED
      BY <3>2, <3>3, <3>4, <3>5
  <2>10. CASE EndAdd(c)
    <3>1. UNCHANGED <<conn, handle, sig>> /\ lock'[e] = lock[e]
      BY <1>2, <2>0, <2>10 DEF EndAdd, AddEnds, Release
    <3>2. watch'[e] = watch[e]
      BY <1>2, <2>0, <2>10 DEF EndAdd, AddEnds, Watcher
    <3>3. wire'[e] = wire[e] /\ late'[e] = late[e] /\ (e \in mixed' <=> e \in mixed)
      BY <2>6, <2>10 DEF EndAdd, AddEnds
    <3>. QED
      BY <3>1, <3>2, <3>3
  <2>. QED
    BY <2>1, <2>2, <2>3, <2>4, <2>5, <2>7, <2>8, <2>9, <2>10 DEF AgentThread
<1>. QED
  BY <1>0, <1>1, <1>2

-----------------------------------------------------------------------------
(***************************************************************************)
(* How many of the replies are answers.                                    *)
(***************************************************************************)

AnswersIn(s) == {i \in DOMAIN s : s[i] # Event}

\* They are as many as there are on a stream, and no more than its replies.
LEMMA AnswersAre ==
  ASSUME NEW s \in Seq(Replies)
  PROVE  /\ AnswersIn(s) = {i \in 1..Len(s) : s[i] # Event} /\ Len(s) \in Nat
         /\ IsFiniteSet(AnswersIn(s)) /\ Cardinality(AnswersIn(s)) \in Nat
<1>1. AnswersIn(s) = {i \in 1..Len(s) : s[i] # Event} /\ Len(s) \in Nat
  BY DEF AnswersIn
<1>2. IsFiniteSet(1..Len(s))
  BY <1>1, FS_Interval
<1>3. IsFiniteSet(AnswersIn(s))
  BY <1>1, <1>2, FS_Subset
<1>. QED
  BY <1>1, <1>3, FS_CardinalityType

\* A reply comes in: one answer more, if it is one.
LEMMA OneMoreAnswer ==
  ASSUME NEW s \in Seq(Replies), NEW v \in Replies
  PROVE  Cardinality(AnswersIn(Append(s, v))) = Cardinality(AnswersIn(s)) + IF v = Event THEN 0 ELSE 1
<1>. DEFINE t == Append(s, v)
<1>1. /\ t \in Seq(Replies) /\ Len(t) = Len(s) + 1 /\ Len(s) \in Nat
      /\ \A i \in 1..(Len(s) + 1) : t[i] = IF i <= Len(s) THEN s[i] ELSE v
  BY AppendProperties, LenProperties
<1>. HIDE DEF t
<1>2. /\ AnswersIn(s) = {i \in 1..Len(s) : s[i] # Event} /\ IsFiniteSet(AnswersIn(s))
      /\ Cardinality(AnswersIn(s)) \in Nat
      /\ AnswersIn(t) = {i \in 1..Len(t) : t[i] # Event}
  BY <1>1, AnswersAre
<1>3. ASSUME v = Event PROVE Cardinality(AnswersIn(t)) = Cardinality(AnswersIn(s))
  <2>1. AnswersIn(t) = AnswersIn(s)
    BY <1>1, <1>2, <1>3
  <2>. QED
    BY <2>1
<1>4. ASSUME v # Event PROVE Cardinality(AnswersIn(t)) = Cardinality(AnswersIn(s)) + 1
  <2>1. AnswersIn(t) = AnswersIn(s) \cup {Len(s) + 1} /\ Len(s) + 1 \notin AnswersIn(s)
    BY <1>1, <1>2, <1>4
  <2>. QED
    BY <1>2, <2>1, FS_AddElement
<1>5. Cardinality(AnswersIn(t)) = Cardinality(AnswersIn(s)) + IF v = Event THEN 0 ELSE 1
  <2>. DEFINE m == Cardinality(AnswersIn(t))
              k == Cardinality(AnswersIn(s))
  <2>1. k \in Nat /\ (v = Event => m = k) /\ (v # Event => m = k + 1)
    BY <1>2, <1>3, <1>4
  <2>. HIDE DEF m, k
  <2>2. m = k + IF v = Event THEN 0 ELSE 1
    BY <2>1
  <2>. QED
    BY <2>2 DEF m, k
<1>. QED
  BY <1>5 DEF t

\* The first is read: one answer less, if it is one.
LEMMA OneAnswerLess ==
  ASSUME NEW s \in Seq(Replies), s # <<>>
  PROVE  Cardinality(AnswersIn(s)) = Cardinality(AnswersIn(Tail(s))) + IF Head(s) = Event THEN 0 ELSE 1
<1>. DEFINE t == Tail(s)
<1>1. /\ Len(s) \in Nat \ {0} /\ Head(s) = s[1] /\ 1 \in 1..Len(s)
      /\ t \in Seq(Replies)
      /\ \A i \in 1..Len(t) : i + 1 \in 1..Len(s) /\ t[i] = s[i + 1]
      /\ \A i \in 1..Len(s) : i # 1 => i - 1 \in 1..Len(t) /\ s[i] = t[i - 1]
  BY Read
<1>. HIDE DEF t
<1>2. /\ AnswersIn(s) = {i \in 1..Len(s) : s[i] # Event} /\ IsFiniteSet(AnswersIn(s))
      /\ AnswersIn(t) = {i \in 1..Len(t) : t[i] # Event} /\ IsFiniteSet(AnswersIn(t))
      /\ Cardinality(AnswersIn(t)) \in Nat /\ Cardinality(AnswersIn(s)) \in Nat /\ Len(t) \in Nat
  BY <1>1, AnswersAre
<1>. DEFINE rest == AnswersIn(s) \ {1}
            f    == [i \in AnswersIn(t) |-> i + 1]
<1>3. Cardinality(rest) = Cardinality(AnswersIn(t)) /\ IsFiniteSet(rest)
  <2>1. \A i \in AnswersIn(t) : i \in Nat /\ i >= 1 /\ i + 1 \in rest
    BY <1>1, <1>2
  <2>2. \A j \in rest : j - 1 \in AnswersIn(t) /\ (j - 1) + 1 = j
    BY <1>1, <1>2
  <2>3. f \in Bijection(AnswersIn(t), rest)
    <3>1. f \in [AnswersIn(t) -> rest]
      BY <2>1
    <3>2. \A i, j \in AnswersIn(t) : f[i] = f[j] => i = j
      BY <2>1
    <3>3. \A j \in rest : \E i \in AnswersIn(t) : f[i] = j
      BY <2>2
    <3>. QED
      BY <3>1, <3>2, <3>3, Fun_IsBij
  <2>. QED
    BY <1>2, <2>3, FS_Bijection DEF ExistsBijection
<1>4. ASSUME Head(s) = Event PROVE Cardinality(AnswersIn(s)) = Cardinality(AnswersIn(t))
  <2>1. rest = AnswersIn(s)
    BY <1>1, <1>2, <1>4
  <2>. QED
    BY <1>3, <2>1
<1>5. ASSUME Head(s) # Event PROVE Cardinality(AnswersIn(s)) = Cardinality(AnswersIn(t)) + 1
  <2>1. 1 \in AnswersIn(s)
    BY <1>1, <1>2, <1>5
  <2>2. Cardinality(rest) = Cardinality(AnswersIn(s)) - 1
    BY <1>2, <2>1, FS_RemoveElement
  <2>. HIDE DEF rest
  <2>. DEFINE m == Cardinality(AnswersIn(t))
              k == Cardinality(AnswersIn(s))
  <2>3. m \in Nat /\ k \in Nat /\ m = k - 1
    BY <1>2, <1>3, <2>2
  <2>. HIDE DEF m, k
  <2>4. k = m + 1
    BY <2>3
  <2>. QED
    BY <2>4 DEF m, k
<1>. HIDE DEF rest, f
<1>6. Cardinality(AnswersIn(s)) = Cardinality(AnswersIn(t)) + IF Head(s) = Event THEN 0 ELSE 1
  <2>. DEFINE m == Cardinality(AnswersIn(t))
              k == Cardinality(AnswersIn(s))
  <2>1. m \in Nat /\ (Head(s) = Event => k = m) /\ (Head(s) # Event => k = m + 1)
    BY <1>2, <1>4, <1>5
  <2>. HIDE DEF m, k
  <2>2. k = m + IF Head(s) = Event THEN 0 ELSE 1
    BY <2>1
  <2>. QED
    BY <2>2 DEF m, k
<1>. QED
  BY <1>6 DEF t

\* The numbers before a step, and what they are of.
LEMMA Numbers ==
  ASSUME TypeOK, NEW c \in Gens
  PROVE  /\ wire[c].reqs \in Seq(Command) /\ wire[c].reps \in Seq(Replies) /\ Len(wire[c].reqs) \in Nat
         /\ Answers(c) = AnswersIn(wire[c].reps) /\ Cardinality(Answers(c)) \in Nat /\ late[c] \in Nat
<1>1. wire[c].reqs \in Seq(Command) /\ wire[c].reps \in Seq(Replies) /\ late[c] \in Nat
  BY Are, StreamIs
<1>2. Answers(c) = AnswersIn(wire[c].reps)
  BY DEF Answers, AnswersIn
<1>. QED
  BY <1>1, <1>2, AnswersAre, LenProperties

\* The same of the next state.
LEMMA NumbersNext ==
  ASSUME NEW c \in Gens
  PROVE  Answers(c)' = AnswersIn(wire'[c].reps)
BY DEF Answers, AnswersIn

-----------------------------------------------------------------------------
(***************************************************************************)
(* Each step of a thread keeps the invariant.                              *)
(***************************************************************************)

\* Nothing is on an empty stream, and a VM nothing was added to has nothing.
LEMMA Empty ==
  /\ NoAnswer(<<>>) /\ \A d : ~Reports(<<>>, d) /\ ~Has(<<>>, d)
  /\ Cardinality(AnswersIn(<<>>)) = 0 /\ Len(<<>>) = 0
<1>1. 1..Len(<<>>) = {} /\ DOMAIN <<>> = {} /\ Len(<<>>) = 0
  OBVIOUS
<1>2. AnswersIn(<<>>) = {}
  BY <1>1 DEF AnswersIn
<1>. QED
  BY <1>1, <1>2, FS_EmptySet DEF NoAnswer, Reports, Has

\* A stream without a command that its client waits for has its numbers.
LEMMA Blank ==
  ASSUME NEW c \in Gens, wire'[c].reqs = <<>>, wire'[c].reps = <<>>, lock'[c] = "free",
         handle'[c] # 0 => late'[c] = 0
  PROVE  Balance(c)'
<1>1. Cardinality(Answers(c)') = 0
  BY NumbersNext, Empty
<1>2. Len(wire'[c].reqs) = 0 /\ 1..0 = {}
  BY Empty
<1>3. Live(c)' => Len(wire'[c].reqs) + Cardinality(Answers(c)') = late'[c] + (IF lock'[c] = "free" THEN 0 ELSE 1)
  BY <1>1, <1>2 DEF Live
<1>4. \A i \in 1..Len(wire'[c].reqs) : wire'[c].reqs[i] # Powerdown => hotplug'
  BY <1>2
<1>. QED
  BY <1>3, <1>4 DEF Balance

\* A new handle has an empty stream, and QEMU is free for it.
LEMMA ConnectKeeps ==
  ASSUME VInv, NEW c \in Gens, Connect(c)
  PROVE  VInv'
<1>. USE DEF host, history
<1>0. TypeInv' /\ TypeOK
  BY ConnectorTypes DEF VInv, TypeInv
<1>1. /\ conn[c] = "trying" /\ sock \in Gens /\ vm[sock] = "up" /\ \A e \in Gens : handle[e] # sock
      /\ handle' = [handle EXCEPT ![c] = sock] /\ conn' = [conn EXCEPT ![c] = "stored"]
      /\ UNCHANGED <<hotplug, gen, vm, tries, lock, sig, watch, wire, host, history>>
  BY <1>0 DEF Connect, Free, TypeOK, Gens
<1>2. Onward /\ \A e \in Gens : e # c => Untouched(e)
  BY <1>0, Local DEF AgentThread
<1>3. handle[c] = 0 /\ lock[c] = "free" /\ wire[c].reqs = <<>> /\ wire[c].reps = <<>> /\ late[c] = 0
  BY <1>1 DEF VInv, Linked
<1>4. handle'[c] = sock /\ conn'[c] = "stored" /\ sock # 0
  BY <1>0, <1>1, Are DEF Gens
<1>5. Linked(c)'
  BY <1>1, <1>3, <1>4 DEF Linked
<1>6. Holds(c)'
  BY <1>1 DEF VInv, Holds
<1>7. Flow(c)'
  <2>1. \A i \in 1..Len(<<>>) : FALSE
    OBVIOUS
  <2>. QED
    BY <1>1, <1>3, <2>1, Empty DEF Flow
<1>8. Recorded(c)'
  <2>1. guest[sock].added = <<>>
    BY <1>1 DEF VInv, Owners
  <2>2. \A d : ~Reported(c, d)' /\ ~AddedTo(handle[c], d)'
    BY <1>1, <1>3, <1>4, <2>1, Empty DEF Reported, AddedTo
  <2>3. \A d \in Devices : d \notin watch[c].attached \ watch[c].initial
    BY <1>3 DEF VInv, InStep, Recorded
  <2>. QED
    BY <1>1, <2>2, <2>3 DEF Recorded
<1>9. Balance(c)'
  BY <1>1, <1>3, Blank
<1>10. InStep(c)'
  BY <1>7, <1>8 DEF InStep
<1>. QED
  BY <1>0, <1>1, <1>2, <1>3, <1>4, <1>5, <1>6, <1>9, <1>10, Around DEF VInv, RepliesPaired

\* An attempt that fails changes nothing but its count.
LEMMA ConnectFailsKeeps ==
  ASSUME VInv, NEW c \in Gens, ConnectFails(c)
  PROVE  VInv'
<1>. USE DEF host, history
<1>0. TypeInv' /\ TypeOK
  BY ConnectorTypes DEF VInv, TypeInv
<1>1. conn[c] = "trying" /\ UNCHANGED <<hotplug, gen, vm, handle, lock, sig, watch, wire, host, history>>
  BY DEF ConnectFails
<1>2. Onward /\ \A e \in Gens : e # c => Untouched(e)
  BY <1>0, Local DEF AgentThread
<1>3. Linked(c) /\ Holds(c) /\ Balance(c) /\ InStep(c)
  BY DEF VInv
<1>4. Linked(c)' /\ Holds(c)'
  BY <1>1, <1>3 DEF Linked, Holds
<1>5. Live(c)' => Live(c)
  BY <1>1 DEF Live
<1>6. Balance(c)' /\ InStep(c)'
  BY <1>1, <1>3, <1>5, BalanceHolds, FlowHolds, RecordedHolds DEF InStep
<1>. QED
  BY <1>0, <1>1, <1>2, <1>4, <1>6, Around DEF VInv, RepliesPaired

\* A handle is given back when nobody waits for an answer on it.
LEMMA ReleaseKeeps ==
  ASSUME VInv, NEW c \in Gens, ReleaseHandle(c)
  PROVE  VInv'
<1>. USE DEF host, history
<1>0. TypeInv' /\ TypeOK
  BY ConnectorTypes DEF VInv, TypeInv
<1>1. /\ ~hotplug /\ sig[c] = "done" /\ handle[c] # 0
      /\ handle' = [handle EXCEPT ![c] = 0] /\ wire' = [wire EXCEPT ![c] = [reqs |-> <<>>, reps |-> <<>>]]
      /\ UNCHANGED <<hotplug, gen, vm, conn, tries, lock, sig, watch, host, history>>
  BY DEF ReleaseHandle, CloseHandle, Unreferenced
<1>2. Onward /\ \A e \in Gens : e # c => Untouched(e)
  BY <1>0, Local DEF AgentThread
<1>3. Linked(c) /\ Holds(c) /\ Balance(c) /\ InStep(c)
  BY DEF VInv
<1>4. handle'[c] = 0 /\ wire'[c].reqs = <<>> /\ wire'[c].reps = <<>>
  BY <1>0, <1>1, Are
<1>5. lock[c] = "free"
  BY <1>0, <1>1, <1>3, Are DEF Holds
<1>6. Linked(c)' /\ Holds(c)'
  BY <1>1, <1>3, <1>4, <1>5 DEF Linked, Holds
<1>7. Flow(c)'
  <2>1. \A i \in 1..Len(<<>>) : FALSE
    OBVIOUS
  <2>. QED
    BY <1>1, <1>4, <1>5, <2>1, Empty DEF Flow
<1>8. late[c] = 0 => Recorded(c)'
  <2>1. handle[c] \in Gens
    BY <1>0, <1>1, Are DEF Gens
  <2>2. guest[handle[c]].added = <<>>
    BY <1>1, <2>1 DEF VInv, Owners
  <2>3. \A d : ~Reported(c, d)' /\ ~AddedTo(handle[c], d)
    BY <1>4, <2>2, Empty DEF Reported, AddedTo
  <2>4. late[c] = 0 => \A d \in Devices : d \notin watch[c].attached \ watch[c].initial
    BY <1>3, <2>3 DEF InStep, Recorded
  <2>. QED
    BY <1>1, <1>4, <2>3, <2>4 DEF Recorded
<1>9. Balance(c)' /\ InStep(c)'
  BY <1>1, <1>4, <1>5, <1>7, <1>8, Blank DEF InStep
<1>. QED
  BY <1>0, <1>1, <1>2, <1>4, <1>6, <1>9, Around DEF VInv, RepliesPaired

\* An event read is no answer.
LEMMA SkipKeeps ==
  ASSUME VInv, NEW c \in Gens, SkipEvent(c)
  PROVE  VInv'
<1>. USE DEF host, history
<1>0. TypeInv' /\ TypeOK
  BY StreamTypes DEF VInv, TypeInv
<1>1. /\ lock[c] # "free" /\ wire[c].reps # <<>> /\ Head(wire[c].reps).kind = "event"
      /\ wire' = [wire EXCEPT ![c].reps = Tail(@)]
      /\ UNCHANGED <<hotplug, gen, vm, conn, tries, handle, lock, sig, watch, host, history>>
  BY DEF SkipEvent
<1>2. Onward /\ \A e \in Gens : e # c => Untouched(e)
  BY <1>0, Local DEF AgentThread
<1>3. Linked(c) /\ Holds(c) /\ Balance(c) /\ InStep(c)
  BY DEF VInv
<1>. DEFINE s == wire[c].reps
<1>4. wire'[c].reqs = wire[c].reqs /\ wire'[c].reps = Tail(s) /\ Head(s) \in Replies
  BY <1>0, <1>1, Takes
<1>5. s \in Seq(Replies) /\ s # <<>> /\ Head(s) = Event
  BY <1>0, <1>1, <1>4, StreamIs, CommandsAre, Are
<1>6. /\ NoAnswer(s) => NoAnswer(Tail(s))
      /\ OneAnswer(s) => OneAnswer(Tail(s))
      /\ \A i \in 1..Len(Tail(s)) : i + 1 \in 1..Len(s) /\ Tail(s)[i] = s[i + 1]
  BY <1>5, Read, ReadAnswers
<1>7. Linked(c)' /\ Holds(c)'
  BY <1>1, <1>3, <1>4 DEF Linked, Holds
<1>8. ASSUME late[c] = 0 PROVE Flow(c)'
  <2>1. (Live(c)' <=> Live(c)) /\ \A command : Own(c, command)' <=> Own(c, command)
    BY <1>1 DEF Live, Own
  <2>. HIDE DEF s
  <2>2. wire[c].reps = s /\ Flow(c)
    BY <1>3, <1>8 DEF s, InStep
  <2>3. NoAnswer(wire'[c].reps) \/ (lock[c] # "free" /\ OneAnswer(wire'[c].reps))
    BY <1>4, <1>6, <2>2 DEF Flow
  <2>4. Live(c) => \/ lock[c] = "free" /\ wire[c].reqs = <<>>
                   \/ lock[c] # "free" /\ Len(wire[c].reqs) = 1 /\ NoAnswer(Tail(s))
                   \/ lock[c] # "free" /\ wire[c].reqs = <<>> /\ OneAnswer(Tail(s))
    BY <1>6, <2>2 DEF Flow
  <2>5. \A i \in 1..Len(Tail(s)) : Tail(s)[i] # Event => Own(c, Tail(s)[i].to)
    BY <1>6, <2>2 DEF Flow
  <2>6. Live(c) => \A i \in 1..Len(wire[c].reqs) : Own(c, wire[c].reqs[i])
    BY <2>2 DEF Flow
  <2>. QED
    BY <1>1, <1>4, <2>1, <2>3, <2>4, <2>5, <2>6 DEF Flow
<1>9. ASSUME late[c] = 0 PROVE Recorded(c)'
  <2>1. \A d : ~Says(Event, d)
    BY DEF Says
  <2>2. \A d : Reports(s, d) <=> Reports(Tail(s), d)
    BY <1>5, <2>1, ReadReports
  <2>3. \A d : Reported(c, d)' <=> Reported(c, d)
    BY <1>4, <2>2 DEF Reported
  <2>4. \A d : AddedTo(handle[c], d)' <=> AddedTo(handle[c], d)
    BY <1>1 DEF AddedTo
  <2>. QED
    BY <1>1, <1>3, <1>9, <2>3, <2>4 DEF InStep, Recorded
<1>10. Balance(c)'
  <2>. HIDE DEF s
  <2>0. wire[c].reps = s /\ Tail(s) \in Seq(Replies)
    BY <1>5, Read DEF s
  <2>3. Cardinality(AnswersIn(s)) = Cardinality(AnswersIn(Tail(s)))
    <3>1. Cardinality(AnswersIn(s)) = Cardinality(AnswersIn(Tail(s))) + 0
      BY <1>5, OneAnswerLess
    <3>2. Cardinality(AnswersIn(Tail(s))) \in Nat
      BY <2>0, AnswersAre
    <3>. QED
      BY <3>1, <3>2
  <2>1. Cardinality(Answers(c)') = Cardinality(Answers(c))
    <3>1. Answers(c)' = AnswersIn(Tail(s)) /\ Answers(c) = AnswersIn(s)
      BY <1>0, <1>4, <2>0, Numbers, NumbersNext
    <3>. QED
      BY <2>3, <3>1
  <2>2. Live(c)' <=> Live(c)
    BY <1>1 DEF Live
  <2>. QED
    BY <1>1, <1>3, <1>4, <2>1, <2>2 DEF Balance
<1>11. InStep(c)'
  BY <1>1, <1>8, <1>9 DEF InStep
<1>. QED
  BY <1>0, <1>1, <1>2, <1>7, <1>10, <1>11, Around DEF VInv, RepliesPaired

\* A device_add is for its device.
LEMMA AddIs == \A d, n : Add(d, n).dev = d /\ Add(d, n) # Powerdown
<1>1. \A d, n : Add(d, n).cmd = "device_add" /\ Add(d, n).dev = d
  BY DEF Add
<1>2. Powerdown.cmd = "system_powerdown"
  BY DEF Powerdown
<1>. QED
  BY <1>1, <1>2

\* A command is sent by the thread that has just taken the mutex.
LEMMA Begun ==
  ASSUME TypeOK, NEW c \in Gens, Flow(c), lock[c] = "free", NEW command \in Command, Send(c, command),
         lock'[c] # "free", handle' = handle, vm' = vm, Own(c, command)'
  PROVE  Flow(c)' /\ wire'[c].reps = wire[c].reps
<1>1. wire'[c].reqs = Append(wire[c].reqs, command) /\ wire'[c].reps = wire[c].reps
  BY Sends
<1>2. NoAnswer(wire[c].reps)
  BY DEF Flow
<1>3. Live(c)' => wire[c].reqs = <<>>
  BY DEF Flow, Live
<1>4. Live(c)' => Len(wire'[c].reqs) = 1 /\ wire'[c].reqs[1] = command
  BY <1>1, <1>3
<1>5. \A i \in 1..Len(wire'[c].reps) : wire'[c].reps[i] = Event
  BY <1>1, <1>2 DEF NoAnswer
<1>6. Live(c)' => \A i \in 1..Len(wire'[c].reqs) : (Own(c, wire[c].reqs[i]))'
  <2>. SUFFICES ASSUME Live(c)' PROVE \A i \in 1..Len(wire'[c].reqs) : (Own(c, wire[c].reqs[i]))'
    OBVIOUS
  <2>0. 1..1 = {1}
    OBVIOUS
  <2>1. 1..Len(wire'[c].reqs) = {1}
    BY <1>4, <2>0, Zenon
  <2>2. wire'[c].reqs[1] = command
    BY <1>4
  <2>3. \A i \in {1} : wire'[c].reqs[i] = command
    BY <2>2
  <2>. QED
    BY <2>1, <2>3 DEF Own
<1>7. NoAnswer(wire'[c].reps)
  BY <1>1, <1>2
<1>. QED
  BY <1>1, <1>4, <1>5, <1>6, <1>7 DEF Flow

\* That is one command more, for one holder more.
LEMMA BalanceBegun ==
  ASSUME TypeOK, NEW c \in Gens, Balance(c), lock[c] = "free", NEW command \in Command, Send(c, command),
         command # Powerdown => hotplug,
         lock'[c] # "free", handle' = handle, vm' = vm, late' = late, hotplug' = hotplug
  PROVE  Balance(c)'
<1>. DEFINE q == wire[c].reqs
            t == Append(q, command)
<1>1. wire'[c].reqs = t /\ wire'[c].reps = wire[c].reps
  BY Sends
<1>2. /\ q \in Seq(Command) /\ Len(q) \in Nat /\ late[c] \in Nat
      /\ Cardinality(Answers(c)) \in Nat /\ Answers(c)' = Answers(c)
  BY <1>1, Numbers, NumbersNext
<1>3. Len(t) = Len(q) + 1 /\ \A i \in 1..(Len(q) + 1) : t[i] = IF i <= Len(q) THEN q[i] ELSE command
  BY <1>2, AppendProperties
<1>4. \A i \in 1..Len(q) : q[i] # Powerdown => hotplug
  BY DEF Balance
<1>. HIDE DEF t
<1>5. \A i \in 1..Len(t) : t[i] # Powerdown => hotplug
  BY <1>2, <1>3, <1>4
<1>6. Live(c)' => Len(q) + Cardinality(Answers(c)) = late[c]
  BY <1>2 DEF Balance, Live
<1>7. Live(c)' => Len(t) + Cardinality(Answers(c)) = late[c] + 1
  BY <1>2, <1>3, <1>6
<1>. QED
  BY <1>1, <1>2, <1>5, <1>7 DEF Balance

\* When it ends, one of the answers has been taken, or one more is outstanding.
LEMMA BalanceEnded ==
  ASSUME TypeOK, NEW c \in Gens, Balance(c), lock[c] # "free", lock'[c] = "free", NEW own,
         Returns(c, own) \/ Fails(c, own), handle' = handle, vm' = vm, hotplug' = hotplug
  PROVE  Balance(c)' /\ (late'[c] = 0 => late[c] = 0)
<1>1. /\ Len(wire[c].reqs) \in Nat /\ Cardinality(Answers(c)) \in Nat /\ late[c] \in Nat
      /\ wire[c].reps \in Seq(Replies) /\ Answers(c) = AnswersIn(wire[c].reps)
  BY Numbers
<1>2. (Live(c)' <=> Live(c)) /\ (Live(c) => Len(wire[c].reqs) + Cardinality(Answers(c)) = late[c] + 1)
  BY DEF Live, Balance
<1>3. ASSUME NEW kind, Receive(c, own, kind) PROVE Balance(c)' /\ late'[c] = late[c]
  <2>1. /\ wire[c].reps # <<>> /\ wire'[c].reqs = wire[c].reqs /\ wire'[c].reps = Tail(wire[c].reps)
        /\ Head(wire[c].reps) # Event /\ late' = late
    BY <1>3, Receives, CommandsAre
  <2>2. Tail(wire[c].reps) \in Seq(Replies)
    BY <1>1, <2>1, Read
  <2>3. Cardinality(Answers(c)') \in Nat /\ Cardinality(Answers(c)) = Cardinality(Answers(c)') + 1
    <3>1. Answers(c)' = AnswersIn(Tail(wire[c].reps))
      BY <2>1, NumbersNext
    <3>2. Cardinality(AnswersIn(Tail(wire[c].reps))) \in Nat
      BY <2>2, AnswersAre
    <3>3. Cardinality(AnswersIn(wire[c].reps)) = Cardinality(AnswersIn(Tail(wire[c].reps))) + 1
      BY <1>1, <2>1, OneAnswerLess
    <3>. QED
      BY <1>1, <3>1, <3>2, <3>3
  <2>4. Live(c) => Len(wire[c].reqs) + Cardinality(Answers(c)') = late[c]
    BY <1>1, <1>2, <2>3
  <2>5. \A i \in 1..Len(wire[c].reqs) : wire[c].reqs[i] # Powerdown => hotplug
    BY DEF Balance
  <2>6. Live(c)' => Len(wire'[c].reqs) + Cardinality(Answers(c)') = late'[c] + (IF lock'[c] = "free" THEN 0 ELSE 1)
    BY <1>1, <1>2, <2>1, <2>4
  <2>7. \A i \in 1..Len(wire'[c].reqs) : wire'[c].reqs[i] # Powerdown => hotplug'
    BY <2>1, <2>5
  <2>. QED
    BY <2>1, <2>6, <2>7 DEF Balance
<1>4. ASSUME ReadTimesOut(c) PROVE Balance(c)' /\ late'[c] = late[c] + 1
  <2>1. wire' = wire /\ late'[c] = late[c] + 1
    BY <1>4, Are DEF ReadTimesOut
  <2>2. Answers(c)' = Answers(c)
    BY <2>1 DEF Answers
  <2>. QED
    BY <1>1, <1>2, <2>1, <2>2 DEF Balance
<1>5. ASSUME PeerGone(c) PROVE Balance(c)' /\ late'[c] = late[c]
  BY <1>2, <1>5 DEF PeerGone, Balance, Live
<1>. QED
  BY <1>1, <1>3, <1>4, <1>5 DEF Returns, Fails

\* When its command has ended, there is no other answer on the stream; and
\* the answer it got was its own.
LEMMA Ended ==
  ASSUME TypeOK, NEW c \in Gens, late'[c] = 0, c \notin mixed, Flow(c), lock[c] # "free", handle[c] # 0,
         NEW own, \A command : Own(c, command) => command = own, Returns(c, own) \/ Fails(c, own)
  PROVE  /\ c \notin mixed' /\ NoAnswer(wire'[c].reps) /\ (Live(c) => wire'[c].reqs = <<>>)
         /\ Returns(c, own) => \A d : Reported(c, d) <=> own # Powerdown /\ own.dev = d
         /\ Fails(c, own) => \A d : ~Reported(c, d)
<1>. DEFINE s == wire[c].reps
<1>0. s \in Seq(Replies)
  BY Are, StreamIs
<1>1. ASSUME NEW kind, Receive(c, own, kind)
      PROVE  /\ c \notin mixed' /\ NoAnswer(wire'[c].reps) /\ (Live(c) => wire'[c].reqs = <<>>)
             /\ Head(s).kind = kind /\ s # <<>>
             /\ \A d : Reported(c, d) <=> kind = "return" /\ own # Powerdown /\ own.dev = d
  <2>1. /\ s # <<>> /\ wire'[c].reqs = wire[c].reqs /\ wire'[c].reps = Tail(s)
        /\ Head(s) \in Answer /\ Head(s).kind = kind
        /\ mixed' = IF Head(s).to = own THEN mixed ELSE mixed \cup {c}
    BY <1>1, Receives
  <2>2. Head(s) # Event /\ Head(s) = s[1] /\ 1 \in 1..Len(s)
    BY <1>0, <2>1, Read, CommandsAre
  <2>3. Own(c, Head(s).to)
    BY <2>2 DEF Flow
  <2>4. Head(s).to = own
    BY <2>3
  <2>5. ~NoAnswer(s) /\ (OneAnswer(s) => NoAnswer(Tail(s)))
    BY <1>0, <2>1, <2>2, ReadAnswers
  <2>6. NoAnswer(Tail(s)) /\ (Live(c) => wire[c].reqs = <<>>)
    BY <2>5 DEF Flow
  <2>7. \A d : ~Reports(Tail(s), d)
    BY <2>6 DEF NoAnswer, Reports, Says
  <2>8. \A d : Reported(c, d) <=> Says(Head(s), d)
    BY <1>0, <2>1, <2>7, ReadReports DEF Reported
  <2>. QED
    BY <2>1, <2>2, <2>4, <2>6, <2>8 DEF Says
<1>2. ~ReadTimesOut(c)
  BY Are DEF ReadTimesOut
<1>3. ASSUME PeerGone(c)
      PROVE  /\ c \notin mixed' /\ NoAnswer(wire'[c].reps) /\ ~Live(c) /\ s = <<>>
             /\ \A d : ~Reported(c, d)
  BY <1>3, Empty DEF PeerGone, Live, Reported
<1>. HIDE DEF s
<1>4. CASE Returns(c, own)
  <2>1. ~Receive(c, own, "error") /\ ~PeerGone(c)
    BY <1>1, <1>3, <1>4 DEF Returns
  <2>. QED
    BY <1>1, <1>2, <1>4, <2>1 DEF Returns, Fails
<1>5. CASE Fails(c, own)
  <2>1. ~Returns(c, own)
    BY <1>1, <1>2, <1>3, <1>5 DEF Returns, Fails
  <2>. QED
    BY <1>1, <1>2, <1>3, <1>5, <2>1 DEF Fails
<1>. QED
  BY <1>4, <1>5

\* The stream of a mutex that has been released.
LEMMA Drained ==
  ASSUME NEW c \in Gens, lock'[c] = "free", NoAnswer(wire'[c].reps), Live(c)' => wire'[c].reqs = <<>>
  PROVE  Flow(c)' /\ \A d : ~Reported(c, d)'
<1>1. \A i \in 1..Len(<<>>) : FALSE
  OBVIOUS
<1>2. \A i \in 1..Len(wire'[c].reps) : wire'[c].reps[i] = Event
  BY DEF NoAnswer
<1>3. Flow(c)'
  BY <1>1, <1>2 DEF Flow
<1>4. \A d : ~Reported(c, d)'
  BY <1>2 DEF Reported, Reports, Says
<1>. QED
  BY <1>3, <1>4

\* A free mutex has a drained stream to send powerdown on.
LEMMA TakeSignalKeeps ==
  ASSUME VInv, NEW c \in Gens, TakeSignal(c)
  PROVE  VInv'
<1>. USE DEF host, history
<1>0. TypeInv' /\ TypeOK
  BY SignalTypes DEF VInv, TypeInv
<1>1. /\ sig[c] = "pending" /\ lock[c] = "free"
      /\ UNCHANGED <<hotplug, gen, vm, conn, tries, handle, watch, host, late, mixed>>
  BY DEF TakeSignal
<1>2. Onward /\ \A e \in Gens : e # c => Untouched(e)
  BY <1>0, Local DEF AgentThread
<1>3. Linked(c) /\ Holds(c) /\ Balance(c) /\ InStep(c)
  BY DEF VInv
<1>4. CASE handle[c] = 0
  <2>1. sig' = [sig EXCEPT ![c] = "done"] /\ UNCHANGED <<lock, wire>>
    BY <1>4 DEF TakeSignal
  <2>2. sig'[c] = "done"
    BY <1>0, <2>1, Are
  <2>3. Linked(c)'
    BY <1>1, <1>3, <2>1 DEF Linked
  <2>4. Holds(c)'
    BY <1>1, <1>3, <2>1, <2>2 DEF Holds
  <2>5. Live(c)' => Live(c)
    BY <1>1 DEF Live
  <2>6. Balance(c)' /\ InStep(c)'
    BY <1>1, <1>3, <2>1, <2>5, BalanceHolds, FlowHolds, RecordedHolds DEF InStep
  <2>. QED
    BY <1>0, <1>1, <1>2, <2>3, <2>4, <2>6, Around DEF VInv, RepliesPaired
<1>5. CASE handle[c] # 0
  <2>1. sig' = [sig EXCEPT ![c] = "sending"] /\ lock' = [lock EXCEPT ![c] = "signal"] /\ Send(c, Powerdown)
    BY <1>5 DEF TakeSignal, Acquire
  <2>2. sig'[c] = "sending" /\ lock'[c] = "signal"
    BY <1>0, <2>1, Are
  <2>3. Linked(c)'
    BY <1>1, <1>3, <1>5 DEF Linked
  <2>4. Holds(c)'
    BY <1>1, <1>3, <2>2 DEF Holds
  <2>5. Own(c, Powerdown)'
    BY <2>2 DEF Own
  <2>6. Balance(c)'
    BY <1>0, <1>1, <1>3, <2>1, <2>2, CommandsAre, BalanceBegun
  <2>7. InStep(c)'
    <3>. SUFFICES ASSUME late[c] = 0 PROVE Flow(c)' /\ Recorded(c)'
      BY <1>1 DEF InStep
    <3>1. Flow(c) /\ Recorded(c)
      BY <1>3 DEF InStep
    <3>2. Flow(c)' /\ wire'[c].reps = wire[c].reps
      BY <1>0, <1>1, <2>1, <2>2, <2>5, <3>1, CommandsAre, Begun
    <3>. QED
      BY <1>1, <3>1, <3>2, RecordedHolds
  <2>. QED
    BY <1>0, <1>1, <1>2, <2>3, <2>4, <2>6, <2>7, Around DEF VInv, RepliesPaired
<1>. QED
  BY <1>4, <1>5

\* The answer to powerdown leaves the stream drained.
LEMMA EndSignalKeeps ==
  ASSUME VInv, NEW c \in Gens, EndSignal(c)
  PROVE  VInv'
<1>0. TypeInv' /\ TypeOK
  BY SignalTypes DEF VInv, TypeInv
<1>1. /\ sig[c] = "sending" /\ sig' = [sig EXCEPT ![c] = "done"] /\ lock' = [lock EXCEPT ![c] = "free"]
      /\ Returns(c, Powerdown) \/ Fails(c, Powerdown)
      /\ UNCHANGED <<hotplug, gen, vm, sock, conn, tries, handle, watch, plugged, guest, dropped>>
  BY DEF EndSignal, Release
<1>2. Onward /\ \A e \in Gens : e # c => Untouched(e)
  BY <1>0, Local DEF AgentThread
<1>3. Linked(c) /\ Holds(c) /\ Balance(c) /\ InStep(c)
  BY DEF VInv
<1>4. lock[c] = "signal" /\ handle[c] # 0 /\ \A command : Own(c, command) => command = Powerdown
  BY <1>1, <1>3 DEF Linked, Holds, Own
<1>5. sig'[c] = "done" /\ lock'[c] = "free"
  BY <1>0, <1>1, Are
<1>6. Balance(c)' /\ (late'[c] = 0 => late[c] = 0)
  BY <1>0, <1>1, <1>3, <1>4, <1>5, BalanceEnded
<1>7. Linked(c)'
  BY <1>1, <1>3, <1>4 DEF Linked
<1>8. Holds(c)'
  BY <1>1, <1>3, <1>4, <1>5 DEF Holds
<1>9. Live(c)' => Live(c)
  BY <1>1 DEF Live
<1>10. ASSUME late'[c] = 0 PROVE Flow(c)' /\ Recorded(c)' /\ c \notin mixed'
  <2>0. Flow(c) /\ Recorded(c) /\ c \notin mixed
    BY <1>3, <1>6, <1>10 DEF InStep, VInv, RepliesPaired
  <2>1. /\ c \notin mixed' /\ NoAnswer(wire'[c].reps) /\ (Live(c) => wire'[c].reqs = <<>>)
        /\ \A d : ~Reported(c, d)
    BY <1>0, <1>1, <1>4, <1>10, <2>0, Ended
  <2>2. Flow(c)' /\ \A d : ~Reported(c, d)'
    BY <1>5, <1>9, <2>1, Drained
  <2>3. \A d : AddedTo(handle[c], d)' <=> AddedTo(handle[c], d)
    BY <1>1 DEF AddedTo
  <2>. QED
    BY <1>1, <2>0, <2>1, <2>2, <2>3 DEF Recorded
<1>11. InStep(c)' /\ (c \in mixed' => late'[c] > 0)
  <2>1. late'[c] \in Nat
    BY <1>0 DEF TypeInv, TypeOK
  <2>. QED
    BY <1>10, <2>1 DEF InStep
<1>. QED
  BY <1>0, <1>1, <1>2, <1>6, <1>7, <1>8, <1>11, Around

\* A scan offers what the watcher has not recorded.
LEMMA ScanKeeps ==
  ASSUME VInv, NEW c \in Gens, Scan(c)
  PROVE  VInv'
<1>. USE DEF host, history
<1>0. TypeInv' /\ TypeOK
  BY WatcherTypes DEF VInv, TypeInv
<1>. DEFINE w == ScanOf(watch[c], plugged \ watch[c].attached)
<1>1. /\ watch[c].at = "sleep" /\ plugged \ watch[c].attached # {} /\ Watcher(c, w)
      /\ UNCHANGED <<hotplug, gen, vm, conn, tries, handle, lock, sig, wire, host, history>>
  BY DEF Scan, ScanOf
<1>2. Onward /\ \A e \in Gens : e # c => Untouched(e)
  BY <1>0, Local DEF AgentThread
<1>3. Linked(c) /\ Holds(c) /\ Balance(c) /\ InStep(c)
  BY DEF VInv
<1>4. /\ w \in Watch /\ w.at = "scan" /\ w.todo = plugged \ watch[c].attached /\ w.attached = watch[c].attached
      /\ w.initial = watch[c].initial /\ w.dev = watch[c].dev /\ w.next = watch[c].next
  <2>1. plugged \ watch[c].attached \in SUBSET Devices /\ watch[c] \in Watch
    BY <1>0, Are
  <2>2. w = ScanOf(watch[c], plugged \ watch[c].attached)
    OBVIOUS
  <2>. HIDE DEF w
  <2>. QED
    BY <2>1, <2>2, Scanned
<1>. HIDE DEF w
<1>5. watch'[c] = w
  BY <1>0, <1>1, <1>4, WatcherTyped
<1>6. Linked(c)'
  BY <1>1, <1>3 DEF Linked
<1>7. Holds(c)'
  BY <1>1, <1>3, <1>4, <1>5 DEF Holds
<1>8. Live(c)' => Live(c)
  BY <1>1 DEF Live
<1>9. Balance(c)' /\ InStep(c)'
  BY <1>1, <1>3, <1>4, <1>5, <1>8, BalanceHolds, FlowHolds, RecordedHolds DEF InStep
<1>. QED
  BY <1>0, <1>1, <1>2, <1>6, <1>7, <1>9, Around DEF VInv, RepliesPaired

\* A device is sent that has not been added: one that had would be recorded.
LEMMA TryAddKeeps ==
  ASSUME VInv, NEW c \in Gens, TryAdd(c)
  PROVE  VInv'
<1>. USE DEF host, history
<1>0. TypeInv' /\ TypeOK
  BY WatcherTypes DEF VInv, TypeInv
<1>1. /\ watch[c].at = "scan" /\ lock[c] = "free"
      /\ UNCHANGED <<hotplug, gen, vm, conn, tries, handle, sig, host, history>>
  BY DEF TryAdd
<1>2. Onward /\ \A e \in Gens : e # c => Untouched(e)
  BY <1>0, Local DEF AgentThread
<1>3. Linked(c) /\ Holds(c) /\ Balance(c) /\ InStep(c)
  BY DEF VInv
<1>4. watch[c] \in Watch /\ watch[c].todo \subseteq Devices /\ watch[c].next \in Nat
  BY <1>0, Are DEF Watch
<1>. DEFINE t(d) == SendingOf(watch[c], d)
<1>5. PICK d \in watch[c].todo :
        IF handle[c] = 0
        THEN Watcher(c, PassedOver(watch[c], d)) /\ UNCHANGED <<lock, wire>>
        ELSE /\ Acquire(c, "watcher")
             /\ Send(c, Add(d, watch[c].next))
             /\ Watcher(c, t(d))
  BY DEF TryAdd, SendingOf
<1>6. d \in Devices
  BY <1>4
<1>7. CASE handle[c] = 0
  <2>. DEFINE w == PassedOver(watch[c], d)
  <2>1. w \in Watch /\ w.at \in {"sleep", "scan"} /\ w.todo = watch[c].todo \ {d}
        /\ w.attached = watch[c].attached /\ w.initial = watch[c].initial
    BY <1>4, <1>6, Passed
  <2>2. Watcher(c, w) /\ UNCHANGED <<lock, wire>>
    BY <1>5, <1>7
  <2>. HIDE DEF w
  <2>3. watch'[c] = w
    BY <1>0, <2>1, <2>2, WatcherTyped
  <2>4. Linked(c)'
    BY <1>1, <1>3, <2>2 DEF Linked
  <2>5. Holds(c)'
    BY <1>1, <1>3, <2>1, <2>2, <2>3 DEF Holds
  <2>6. Flow(c)'
    <3>1. lock'[c] = "free" /\ wire'[c].reqs = <<>> /\ wire'[c].reps = <<>>
      BY <1>3, <1>7, <2>2 DEF Linked
    <3>. QED
      BY <3>1, Drained, Empty
  <2>7. InStep(c)'
    BY <1>1, <1>3, <2>1, <2>2, <2>3, <2>6, RecordedHolds DEF InStep
  <2>8. Balance(c)'
    <3>1. Live(c)' <=> Live(c)
      BY <1>1 DEF Live
    <3>. QED
      BY <1>1, <1>3, <2>2, <3>1, BalanceHolds
  <2>. QED
    BY <1>0, <1>1, <1>2, <2>4, <2>5, <2>7, <2>8, Around DEF VInv, RepliesPaired
<1>8. CASE handle[c] # 0
  <2>. DEFINE w == t(d)
  <2>0. w = SendingOf(watch[c], d)
    OBVIOUS
  <2>2. Watcher(c, w) /\ lock' = [lock EXCEPT ![c] = "watcher"] /\ Send(c, Add(d, watch[c].next))
    BY <1>5, <1>8 DEF Acquire
  <2>. HIDE DEF w
  <2>1. w \in Watch /\ w.at = "sending" /\ w.todo = watch[c].todo /\ w.attached = watch[c].attached
        /\ w.initial = watch[c].initial /\ w.dev = {d} /\ w.next = watch[c].next + 1
    BY <1>4, <1>6, <2>0, TakenUp
  <2>12. watch'[c] = w
    BY <1>0, <2>1, <2>2, WatcherTyped
  <2>13. lock'[c] = "watcher"
    BY <1>0, <2>2, Are
  <2>3. watch'[c] = w /\ lock'[c] = "watcher"
    BY <2>12, <2>13
  <2>4. Linked(c)'
    BY <1>1, <1>3, <1>8 DEF Linked
  <2>5. Holds(c)'
    BY <1>1, <1>3, <2>1, <2>3 DEF Holds
  <2>6. watch'[c].next - 1 = watch[c].next
    BY <1>4, <2>1, <2>3
  <2>7. (Own(c, Add(d, watch[c].next - 1)))'
    BY <2>1, <2>3 DEF Own
  <2>8. PICK command \in Command : command = Add(d, watch[c].next)
    BY <1>4, <1>6, CommandsAre
  <2>9. Own(c, command)'
    BY <2>1, <2>3, <2>6, <2>8 DEF Own
  <2>10. Balance(c)'
    <3>1. hotplug
      BY <1>1, <1>3 DEF Holds
    <3>. QED
      BY <1>0, <1>1, <1>3, <2>2, <2>3, <2>8, <3>1, BalanceBegun
  <2>11. InStep(c)'
    <3>. SUFFICES ASSUME late[c] = 0 PROVE Flow(c)' /\ Recorded(c)'
      BY <1>1 DEF InStep
    <3>1. Flow(c) /\ Recorded(c)
      BY <1>3 DEF InStep
    <3>2. Flow(c)' /\ wire'[c].reps = wire[c].reps
      BY <1>0, <1>1, <2>2, <2>3, <2>8, <2>9, <3>1, Begun
    <3>. QED
      BY <1>1, <2>1, <2>3, <3>1, <3>2, RecordedHolds
  <2>. QED
    BY <1>0, <1>1, <1>2, <2>4, <2>5, <2>10, <2>11, Around DEF VInv, RepliesPaired
<1>. QED
  BY <1>7, <1>8

\* The answer to device_add was its own, so what is recorded was added.
LEMMA EndAddKeeps ==
  ASSUME VInv, NEW c \in Gens, EndAdd(c)
  PROVE  VInv'
<1>0. TypeInv' /\ TypeOK
  BY WatcherTypes DEF VInv, TypeInv
<1>1. /\ watch[c].at = "sending" /\ lock' = [lock EXCEPT ![c] = "free"]
      /\ UNCHANGED <<hotplug, gen, vm, sock, conn, tries, handle, sig, plugged, guest, dropped>>
  BY DEF EndAdd, AddEnds, Release
<1>2. Onward /\ \A e \in Gens : e # c => Untouched(e)
  BY <1>0, Local DEF AgentThread
<1>3. Linked(c) /\ Holds(c) /\ Balance(c) /\ InStep(c)
  BY DEF VInv
<1>4. watch[c] \in Watch
  BY <1>0, Are
<1>5. PICK d \in watch[c].dev :
        LET own == Add(d, watch[c].next - 1)
        IN \/ Returns(c, own) /\ Watcher(c, Attached(watch[c], d))
           \/ Fails(c, own) /\ Watcher(c, PassedOver(watch[c], d))
  BY DEF EndAdd, AddEnds
<1>. DEFINE own == Add(d, watch[c].next - 1)
<1>6. d \in Devices /\ d \in watch[c].todo /\ watch[c].dev = {d}
  BY <1>1, <1>3, <1>4, <1>5 DEF Holds, Watch
<1>7. lock[c] = "watcher" /\ handle[c] # 0 /\ \A command : Own(c, command) => command = own
  BY <1>1, <1>3, <1>6 DEF Linked, Holds, Own
<1>8. own.dev = d /\ own # Powerdown
  BY AddIs
<1>9. \/ Returns(c, own) /\ Watcher(c, Attached(watch[c], d))
      \/ Fails(c, own) /\ Watcher(c, PassedOver(watch[c], d))
  BY <1>5
<1>. HIDE DEF own
<1>10. lock'[c] = "free"
  BY <1>0, <1>1, LockTyped
<1>11. Balance(c)' /\ (late'[c] = 0 => late[c] = 0)
  BY <1>0, <1>1, <1>3, <1>7, <1>9, <1>10, BalanceEnded
<1>12. Linked(c)'
  BY <1>1, <1>3, <1>7 DEF Linked
<1>13. Live(c)' => Live(c)
  BY <1>1 DEF Live
<1>14. ASSUME late'[c] = 0
       PROVE  /\ c \notin mixed' /\ Flow(c)' /\ Recorded(c) /\ \A e : ~Reported(c, e)'
              /\ Returns(c, own) => \A e : Reported(c, e) <=> e = d
              /\ Fails(c, own) => \A e : ~Reported(c, e)
  <2>1. Flow(c) /\ Recorded(c) /\ c \notin mixed
    BY <1>3, <1>11, <1>14 DEF InStep, VInv, RepliesPaired
  <2>2. /\ c \notin mixed' /\ NoAnswer(wire'[c].reps) /\ (Live(c) => wire'[c].reqs = <<>>)
        /\ Returns(c, own) => \A e : Reported(c, e) <=> own # Powerdown /\ own.dev = e
        /\ Fails(c, own) => \A e : ~Reported(c, e)
    BY <1>0, <1>7, <1>9, <1>14, <2>1, Ended
  <2>3. Flow(c)' /\ \A e : ~Reported(c, e)'
    BY <1>10, <1>13, <2>2, Drained
  <2>. QED
    BY <1>8, <2>1, <2>2, <2>3
<1>15. \A e : AddedTo(handle[c], e)' <=> AddedTo(handle[c], e)
  BY <1>1 DEF AddedTo
<1>18. late'[c] \in Nat
  BY <1>0 DEF TypeInv, TypeOK
<1>19. c \in mixed' => late'[c] > 0
  BY <1>14, <1>18
<1>16. CASE Returns(c, own) /\ Watcher(c, Attached(watch[c], d))
  <2>. DEFINE w == Attached(watch[c], d)
  <2>1. w \in Watch /\ w.at \in {"sleep", "scan"} /\ w.todo = watch[c].todo \ {d}
        /\ w.attached = watch[c].attached \cup {d} /\ w.initial = watch[c].initial
    BY <1>4, <1>6, Passed
  <2>2. watch'[c] = w
    BY <1>0, <1>16, <2>1, WatcherTyped
  <2>. HIDE DEF w
  <2>3. Holds(c)'
    BY <1>1, <1>3, <1>7, <1>10, <2>1, <2>2 DEF Holds
  <2>5. ASSUME late'[c] = 0 PROVE Recorded(c)'
    <3>1. Recorded(c) /\ (\A e : ~Reported(c, e)') /\ \A e : Reported(c, e) <=> e = d
      BY <1>14, <1>16, <2>5
    <3>. QED
      BY <1>1, <1>15, <2>1, <2>2, <3>1 DEF Recorded
  <2>6. InStep(c)'
    BY <1>14, <2>5 DEF InStep
  <2>. QED
    BY <1>0, <1>1, <1>2, <1>11, <1>12, <1>19, <2>3, <2>6, Around
<1>17. CASE Fails(c, own) /\ Watcher(c, PassedOver(watch[c], d))
  <2>. DEFINE w == PassedOver(watch[c], d)
  <2>1. w \in Watch /\ w.at \in {"sleep", "scan"} /\ w.todo = watch[c].todo \ {d}
        /\ w.attached = watch[c].attached /\ w.initial = watch[c].initial
    BY <1>4, <1>6, Passed
  <2>2. watch'[c] = w
    BY <1>0, <1>17, <2>1, WatcherTyped
  <2>. HIDE DEF w
  <2>3. Holds(c)'
    BY <1>1, <1>3, <1>7, <1>10, <2>1, <2>2 DEF Holds
  <2>5. ASSUME late'[c] = 0 PROVE Recorded(c)'
    <3>1. Recorded(c) /\ (\A e : ~Reported(c, e)') /\ \A e : ~Reported(c, e)
      BY <1>14, <1>17, <2>5
    <3>. QED
      BY <1>1, <1>15, <2>1, <2>2, <3>1 DEF Recorded
  <2>6. InStep(c)'
    BY <1>14, <2>5 DEF InStep
  <2>. QED
    BY <1>0, <1>1, <1>2, <1>11, <1>12, <1>19, <2>3, <2>6, Around
<1>. QED
  BY <1>9, <1>16, <1>17

-----------------------------------------------------------------------------
(***************************************************************************)
(* Each step of QEMU, the host and main() keeps the invariant.             *)
(***************************************************************************)

\* A step that leaves the handles and their streams alone, and starts at most
\* the watcher of a generation that has no connection yet.
LEMMA QuietKeeps ==
  ASSUME VInv, TypeInv', Onward, UNCHANGED <<hotplug, handle, lock, wire, late, mixed>>,
         \A e \in Gens :
           /\ conn[e] = "stored" => conn'[e] = "stored"
           /\ sig'[e] = "sending" <=> sig[e] = "sending"
           /\ \/ watch'[e] = watch[e]
              \/ /\ handle[e] = 0 /\ hotplug /\ watch[e].at # "sending"
                 /\ watch'[e].at = "sleep" /\ watch'[e].attached = watch'[e].initial
  PROVE  VInv'
<1>0. TypeOK
  BY DEF VInv, TypeInv
<1>1. ASSUME NEW e \in Gens PROVE Linked(e)' /\ Holds(e)' /\ Balance(e)' /\ InStep(e)'
  <2>1. Linked(e) /\ Holds(e) /\ Balance(e) /\ InStep(e)
    BY DEF VInv
  <2>2. handle[e] # 0 => handle[e] \in Gens
    BY <1>0, Are DEF Gens
  <2>3. Linked(e)'
    BY <2>1, <2>2 DEF Linked, Onward
  <2>4. Live(e)' => Live(e)
    BY <2>2 DEF Live, Onward
  <2>7. Balance(e)'
    BY <2>1, <2>4, BalanceHolds
  <2>5. CASE watch'[e] = watch[e]
    <3>1. Holds(e)'
      BY <2>1, <2>5 DEF Holds
    <3>2. InStep(e)'
      BY <2>1, <2>2, <2>4, <2>5, FlowHolds, RecordedHolds DEF Onward, InStep
    <3>. QED
      BY <2>3, <2>7, <3>1, <3>2
  <2>6. CASE /\ handle[e] = 0 /\ hotplug /\ watch[e].at # "sending"
             /\ watch'[e].at = "sleep" /\ watch'[e].attached = watch'[e].initial
    <3>1. Holds(e)'
      BY <2>1, <2>6 DEF Holds
    <3>2. lock'[e] = "free" /\ wire'[e].reqs = <<>> /\ wire'[e].reps = <<>> /\ handle'[e] = 0
      BY <2>1, <2>6 DEF Linked
    <3>3. Flow(e)' /\ \A d : ~Reported(e, d)'
      BY <3>2, Drained, Empty
    <3>4. Recorded(e)'
      BY <2>6, <3>2, <3>3 DEF Recorded
    <3>. QED
      BY <2>3, <2>7, <3>1, <3>3, <3>4 DEF InStep
  <2>. QED
    BY <2>5, <2>6
<1>2. Sole'
  BY DEF VInv, Sole
<1>3. Owners'
  BY DEF VInv, Owners, Onward
<1>4. DeviceAddedOnce'
  BY DEF VInv, DeviceAddedOnce, Onward
<1>. QED
  BY <1>1, <1>2, <1>3, <1>4 DEF VInv, RepliesPaired

\* A VM that is launched has no devices added and no connection.
LEMMA LaunchKeeps ==
  ASSUME VInv, Launch
  PROVE  VInv'
<1>. DEFINE n == gen + 1
<1>0. TypeInv' /\ TypeOK /\ Idle
  BY LaunchTypes DEF VInv, TypeInv
<1>1. /\ n \in Gens /\ gen' = n
      /\ vm' = [vm EXCEPT ![n] = "booting"] /\ conn' = [conn EXCEPT ![n] = "trying"]
      /\ sig' = [sig EXCEPT ![n] = "waiting"]
      /\ \A e \in Gens : e # n => watch'[e] = watch[e]
      /\ watch'[n] = watch[n] \/ /\ hotplug /\ watch'[n].at = "sleep"
                                 /\ watch'[n].attached = watch'[n].initial
      /\ UNCHANGED <<hotplug, tries, handle, lock, wire, host, history>>
  BY <1>0, LaunchStep
<1>2. n > gen
  BY <1>0, Are
<1>. HIDE DEF n
<1>3. vm[n] = "none" /\ conn[n] = "none" /\ sig[n] = "none" /\ watch[n].at = "none" /\ handle[n] = 0
  BY <1>0, <1>1, <1>2 DEF Idle, NoWatch
<1>4. \A e \in Gens : e # n => vm'[e] = vm[e] /\ conn'[e] = conn[e] /\ sig'[e] = sig[e]
  BY <1>0, <1>1, Are
<1>5. conn'[n] = "trying" /\ sig'[n] = "waiting"
  BY <1>0, <1>1, Are
<1>6. Onward
  BY <1>1, <1>3, <1>4 DEF Onward, host
<1>7. ASSUME NEW e \in Gens
      PROVE  /\ conn[e] = "stored" => conn'[e] = "stored"
             /\ sig'[e] = "sending" <=> sig[e] = "sending"
             /\ \/ watch'[e] = watch[e]
                \/ /\ handle[e] = 0 /\ hotplug /\ watch[e].at # "sending"
                   /\ watch'[e].at = "sleep" /\ watch'[e].attached = watch'[e].initial
  BY <1>1, <1>3, <1>4, <1>5
<1>8. UNCHANGED <<hotplug, handle, lock, wire, late, mixed>>
  BY <1>1 DEF history
<1>. QED
  BY <1>0, <1>6, <1>7, <1>8, QuietKeeps

\* What happens on the host is no concern of the streams.
LEMMA HostKeeps ==
  ASSUME VInv, \/ \E g \in Gens : QemuListens(g) \/ QemuExits(g)
               \/ \E d \in Devices : Plug(d) \/ Unplug(d)
               \/ UNCHANGED vars \/ Signal
  PROVE  VInv'
<1>. USE DEF threads, host, history
<1>0. TypeInv' /\ TypeOK
  BY HostTypes, SignalTypes DEF VInv, TypeInv
<1>1. UNCHANGED <<hotplug, handle, lock, wire, conn, watch, guest, late, mixed>>
  BY DEF QemuListens, QemuExits, Plug, Unplug, vars, Signal
<1>2. ASSUME NEW e \in Gens PROVE sig'[e] = "sending" <=> sig[e] = "sending"
  <2>1. CASE Signal
    BY <2>1 DEF Signal
  <2>2. CASE ~Signal
    BY <2>2 DEF QemuListens, QemuExits, Plug, Unplug, vars
  <2>. QED
    BY <2>1, <2>2
<1>3. Onward
  <2>1. CASE \E g \in Gens : QemuListens(g) \/ QemuExits(g)
    <3>1. PICK g \in Gens : \/ vm[g] = "booting" /\ vm' = [vm EXCEPT ![g] = "up"]
                            \/ vm[g] \in {"booting", "up"} /\ vm' = [vm EXCEPT ![g] = "gone"]
      BY <2>1 DEF QemuListens, QemuExits
    <3>. QED
      BY <1>0, <1>1, <3>1, Are DEF Onward
  <2>2. CASE vm' = vm
    BY <1>1, <2>2 DEF Onward
  <2>3. vm' = vm \/ \E g \in Gens : QemuListens(g) \/ QemuExits(g)
    BY DEF Plug, Unplug, vars, Signal
  <2>. QED
    BY <2>1, <2>2, <2>3
<1>. QED
  BY <1>0, <1>1, <1>2, <1>3, QuietKeeps

\* An event goes on the stream beside the answer.
LEMMA EmitKeeps ==
  ASSUME VInv, NEW c \in Gens, QemuEmitsEvent(c)
  PROVE  VInv'
<1>0. TypeInv' /\ TypeOK
  BY StreamTypes DEF VInv, TypeInv
<1>1. /\ handle[c] # 0 /\ wire' = [wire EXCEPT ![c].reps = Append(@, Event)]
      /\ UNCHANGED <<hotplug, gen, vm, sock, conn, tries, handle, lock, sig, watch, plugged, guest, late, mixed>>
  BY DEF QemuEmitsEvent, history
<1>. DEFINE s == wire[c].reps
            t == Append(s, Event)
<1>2. /\ wire'[c].reqs = wire[c].reqs /\ wire'[c].reps = t
      /\ \A e \in Gens : e # c => wire'[e] = wire[e]
  BY <1>0, <1>1, Emitted
<1>3. Onward /\ \A e \in Gens : e # c => Untouched(e)
  BY <1>1, <1>2 DEF Onward, Untouched
<1>4. Linked(c) /\ Holds(c) /\ Balance(c) /\ InStep(c)
  BY DEF VInv
<1>5. s \in Seq(Replies) /\ Event \in Replies
  BY <1>0, Are, StreamIs DEF Replies
<1>6. /\ NoAnswer(s) => NoAnswer(t)
      /\ OneAnswer(s) => OneAnswer(t)
      /\ \A d : Reports(t, d) <=> Reports(s, d) \/ Says(Event, d)
      /\ \A i \in 1..Len(t) : t[i] = Event \/ (i \in 1..Len(s) /\ t[i] = s[i])
  BY <1>5, Arrive
<1>7. Linked(c)' /\ Holds(c)'
  BY <1>1, <1>4 DEF Linked, Holds
<1>8. ASSUME late[c] = 0 PROVE Flow(c)'
  <2>1. (Live(c)' <=> Live(c)) /\ \A command : Own(c, command)' <=> Own(c, command)
    BY <1>1 DEF Live, Own
  <2>2. wire[c].reps = s /\ Flow(c)
    BY <1>4, <1>8 DEF InStep
  <2>. HIDE DEF s, t
  <2>3. NoAnswer(wire'[c].reps) \/ (lock[c] # "free" /\ OneAnswer(wire'[c].reps))
    BY <1>2, <1>6, <2>2 DEF Flow
  <2>4. Live(c) => \/ lock[c] = "free" /\ wire[c].reqs = <<>>
                   \/ lock[c] # "free" /\ Len(wire[c].reqs) = 1 /\ NoAnswer(t)
                   \/ lock[c] # "free" /\ wire[c].reqs = <<>> /\ OneAnswer(t)
    BY <1>6, <2>2 DEF Flow
  <2>5. \A i \in 1..Len(t) : t[i] # Event => Own(c, t[i].to)
    BY <1>6, <2>2 DEF Flow
  <2>6. Live(c) => \A i \in 1..Len(wire[c].reqs) : Own(c, wire[c].reqs[i])
    BY <2>2 DEF Flow
  <2>. QED
    BY <1>1, <1>2, <2>1, <2>3, <2>4, <2>5, <2>6 DEF Flow
<1>9. ASSUME late[c] = 0 PROVE Recorded(c)'
  <2>1. \A d : ~Says(Event, d)
    BY DEF Says
  <2>2. \A d : Reported(c, d)' <=> Reported(c, d)
    BY <1>2, <1>6, <2>1 DEF Reported
  <2>3. \A d : AddedTo(handle[c], d)' <=> AddedTo(handle[c], d)
    BY <1>1 DEF AddedTo
  <2>. QED
    BY <1>1, <1>4, <1>9, <2>2, <2>3 DEF InStep, Recorded
<1>10. Balance(c)'
  <2>1. Cardinality(AnswersIn(t)) = Cardinality(AnswersIn(s)) /\ Cardinality(AnswersIn(s)) \in Nat
    BY <1>5, OneMoreAnswer, AnswersAre
  <2>2. Cardinality(Answers(c)') = Cardinality(Answers(c))
    BY <1>0, <1>2, <2>1, Numbers, NumbersNext
  <2>3. Live(c)' <=> Live(c)
    BY <1>1 DEF Live
  <2>. QED
    BY <1>1, <1>2, <1>4, <2>2, <2>3 DEF Balance
<1>11. InStep(c)'
  BY <1>1, <1>8, <1>9 DEF InStep
<1>. QED
  BY <1>0, <1>1, <1>3, <1>7, <1>10, <1>11, Around DEF VInv, RepliesPaired

\* An answer takes the place of the command it is to, and tells of the device.
LEMMA AnswerKeeps ==
  ASSUME VInv, NEW c \in Gens, QemuAnswers(c)
  PROVE  VInv'
<1>0. TypeInv' /\ TypeOK
  BY StreamTypes DEF VInv, TypeInv
<1>1. UNCHANGED <<hotplug, gen, vm, sock, conn, tries, handle, lock, sig, watch, plugged, late, mixed>>
  BY DEF QemuAnswers, history
<1>. DEFINE g == handle[c]
            command == Head(wire[c].reqs)
            q == guest[g].added
            s == wire[c].reps
<1>2. /\ g \in Gens /\ vm[g] = "up" /\ wire[c].reqs # <<>> /\ command \in Command
      /\ \A e \in Gens : /\ e # c => wire'[e] = wire[e]
                         /\ e # g => guest'[e] = guest[e]
  BY <1>0, AnswersStep
<1>3. PICK v \in Answer :
                 /\ v.to = command
                 /\ wire'[c].reqs = Tail(wire[c].reqs) /\ wire'[c].reps = Append(s, v)
                 /\ IF v.kind = "return" /\ command # Powerdown
                    THEN guest'[g].added = Append(q, command)
                    ELSE guest'[g].added = q
  BY <1>0, AnswersStep
<1>4. Linked(c) /\ Holds(c) /\ Balance(c) /\ InStep(c)
  BY DEF VInv
<1>5. wire[c].reqs \in Seq(Command) /\ s \in Seq(Replies) /\ q \in Seq(Adding)
  BY <1>0, <1>2, Are, StreamIs DEF Guests
<1>6. /\ Live(c) /\ command = wire[c].reqs[1] /\ 1 \in 1..Len(wire[c].reqs)
      /\ Tail(wire[c].reqs) \in Seq(Command) /\ Len(Tail(wire[c].reqs)) = Len(wire[c].reqs) - 1
      /\ Len(wire[c].reqs) \in Nat
      /\ \A i \in 1..Len(Tail(wire[c].reqs)) :
           Tail(wire[c].reqs)[i] = wire[c].reqs[i + 1] /\ i + 1 \in 1..Len(wire[c].reqs)
  <2>1. Live(c)
    BY <1>2 DEF Live, Gens
  <2>2. command = wire[c].reqs[1] /\ Len(wire[c].reqs) \in Nat \ {0}
    BY <1>2, <1>5, HeadTailProperties, EmptySeq
  <2>3. /\ Tail(wire[c].reqs) \in Seq(Command) /\ Len(Tail(wire[c].reqs)) = Len(wire[c].reqs) - 1
        /\ \A i \in 1..Len(Tail(wire[c].reqs)) : Tail(wire[c].reqs)[i] = wire[c].reqs[i + 1]
    BY <1>2, <1>5, HeadTailProperties
  <2>4. \A i \in 1..Len(Tail(wire[c].reqs)) : i + 1 \in 1..Len(wire[c].reqs)
    BY <2>2, <2>3
  <2>5. 1 \in 1..Len(wire[c].reqs)
    BY <2>2
  <2>. QED
    BY <2>1, <2>2, <2>3, <2>4, <2>5
<1>7. command # Powerdown => command \in Adding /\ command.dev \in Devices /\ hotplug
  <2>1. command # Powerdown => command \in Adding /\ command.dev \in Devices
    BY <1>2, CommandsAre DEF Adding
  <2>2. command # Powerdown => hotplug
    BY <1>4, <1>6 DEF Balance
  <2>. QED
    BY <2>1, <2>2
<1>8. v \in Replies /\ v # Event
  BY CommandsAre
<1>9. ASSUME late[c] = 0
      PROVE  /\ lock[c] # "free" /\ NoAnswer(s) /\ Tail(wire[c].reqs) = <<>> /\ Own(c, command)
             /\ Flow(c) /\ Recorded(c) /\ (command # Powerdown => ~Has(q, command.dev))
  <2>1. Flow(c) /\ Recorded(c)
    BY <1>4, <1>9 DEF InStep
  <2>2. lock[c] # "free" /\ Len(wire[c].reqs) = 1 /\ NoAnswer(s)
    BY <1>2, <1>6, <2>1 DEF Flow
  <2>3. Tail(wire[c].reqs) = <<>>
    BY <1>6, <2>2, EmptySeq
  <2>4. Own(c, command)
    BY <1>6, <2>1 DEF Flow
  <2>5. ASSUME command # Powerdown PROVE ~Has(q, command.dev)
    <3>1. lock[c] = "watcher" /\ \E d \in watch[c].dev : command = Add(d, watch[c].next - 1)
      BY <2>4, <2>5 DEF Own
    <3>2. watch[c].at = "sending"
      BY <1>4, <3>1 DEF Holds
    <3>3. command.dev \in watch[c].dev
      BY <3>1, AddIs
    <3>4. command.dev \in watch[c].todo /\ command.dev \notin watch[c].attached
      BY <1>4, <3>2, <3>3 DEF Holds
    <3>5. ~Reported(c, command.dev)
      BY <2>2 DEF NoAnswer, Reported, Reports, Says
    <3>6. ~AddedTo(g, command.dev)
      BY <1>6, <1>7, <2>1, <2>5, <3>4, <3>5 DEF Recorded, Live
    <3>. QED
      BY <3>6 DEF AddedTo
  <2>. QED
    BY <2>1, <2>2, <2>3, <2>4, <2>5
<1>22. /\ NoAnswer(s) => OneAnswer(Append(s, v))
       /\ \A d : Reports(Append(s, v), d) <=> Reports(s, d) \/ Says(v, d)
       /\ \A i \in 1..Len(Append(s, v)) : Append(s, v)[i] = v \/ (i \in 1..Len(s) /\ Append(s, v)[i] = s[i])
  BY <1>5, <1>8, Arrive
<1>23. Balance(c)'
  <2>0. Cardinality(AnswersIn(Append(s, v))) = Cardinality(AnswersIn(s)) + 1 /\ Cardinality(AnswersIn(s)) \in Nat
    BY <1>5, <1>8, OneMoreAnswer, AnswersAre
  <2>1. Cardinality(Answers(c)') = Cardinality(Answers(c)) + 1 /\ Cardinality(Answers(c)) \in Nat
    <3>1. Answers(c)' = AnswersIn(Append(s, v)) /\ Answers(c) = AnswersIn(s)
      BY <1>0, <1>3, Numbers, NumbersNext
    <3>. QED
      BY <2>0, <3>1
  <2>2. late[c] \in Nat
    BY <1>0, Are
  <2>3. Len(wire'[c].reqs) + Cardinality(Answers(c)') = Len(wire[c].reqs) + Cardinality(Answers(c))
    <3>. DEFINE n == Len(wire[c].reqs)
                m == Cardinality(Answers(c))
    <3>1. Len(wire'[c].reqs) = n - 1 /\ n \in Nat /\ m \in Nat /\ Cardinality(Answers(c)') = m + 1
      BY <1>3, <1>6, <2>1
    <3>. HIDE DEF n, m
    <3>2. Len(wire'[c].reqs) + Cardinality(Answers(c)') = n + m
      BY <3>1
    <3>. QED
      BY <3>2 DEF n, m
  <2>4. \A i \in 1..Len(wire'[c].reqs) : wire'[c].reqs[i] # Powerdown => hotplug
    BY <1>3, <1>4, <1>6 DEF Balance
  <2>5. Live(c)' <=> Live(c)
    BY <1>1 DEF Live
  <2>. QED
    BY <1>1, <1>4, <2>3, <2>4, <2>5 DEF Balance
<1>. HIDE DEF g, command, q, s
<1>10. wire[c].reps = s /\ handle[c] = g /\ guest[g].added = q
  BY DEF g, s, q
<1>11. Linked(c)' /\ Holds(c)'
  BY <1>1, <1>2, <1>4, <1>10 DEF Linked, Holds, Gens
<1>12. ASSUME late[c] = 0 PROVE Flow(c)'
  <2>0. lock[c] # "free" /\ NoAnswer(s) /\ Tail(wire[c].reqs) = <<>> /\ Own(c, command)
    BY <1>9, <1>12
  <2>1. (Live(c)' <=> Live(c)) /\ \A x : Own(c, x)' <=> Own(c, x)
    BY <1>1 DEF Live, Own
  <2>2. \A i \in 1..Len(wire'[c].reps) : wire'[c].reps[i] # Event => Own(c, wire'[c].reps[i].to)
    BY <1>3, <1>22, <2>0 DEF NoAnswer
  <2>3. wire'[c].reqs = <<>> /\ OneAnswer(wire'[c].reps)
    BY <1>3, <1>22, <2>0
  <2>4. \A i \in 1..Len(<<>>) : FALSE
    OBVIOUS
  <2>. QED
    BY <1>1, <2>0, <2>1, <2>2, <2>3, <2>4 DEF Flow
<1>20. PICK k \in BOOLEAN : k <=> v.kind = "return" /\ command # Powerdown
  OBVIOUS
<1>21. PICK x : x = command.dev
  OBVIOUS
<1>13. \A d : Has(guest'[handle[c]].added, d) <=> Has(guest[handle[c]].added, d) \/ (k /\ x = d)
  <2>1. CASE k
    <3>1. \A d : Has(Append(q, command), d) <=> Has(q, d) \/ command.dev = d
      BY <1>5, <1>7, <1>20, <1>21, <2>1, OneMore
    <3>2. guest'[handle[c]].added = Append(q, command)
      BY <1>3, <1>10, <1>20, <1>21, <2>1
    <3>. QED
      BY <1>10, <1>20, <1>21, <2>1, <3>1, <3>2
  <2>2. CASE ~k
    BY <1>3, <1>10, <1>20, <1>21, <2>2
  <2>. QED
    BY <2>1, <2>2
<1>14. \A d : Reports(wire'[c].reps, d) <=> Reports(wire[c].reps, d) \/ (k /\ x = d)
  BY <1>3, <1>8, <1>10, <1>20, <1>21, <1>22 DEF Says
<1>15. ASSUME late[c] = 0 PROVE Recorded(c)'
  <2>1. handle'[c] = handle[c] /\ watch'[c] = watch[c] /\ handle[c] # 0
    BY <1>1, <1>6 DEF Live
  <2>. SUFFICES ASSUME NEW d \in Devices
        PROVE  /\ Reports(wire'[c].reps, d) => Has(guest'[handle[c]].added, d)
               /\ d \in watch[c].attached \ watch[c].initial => Has(guest'[handle[c]].added, d)
               /\ Has(guest'[handle[c]].added, d) => d \in watch[c].attached \/ Reports(wire'[c].reps, d)
    BY <2>1 DEF Recorded, AddedTo, Reported
  <2>2. /\ Reports(wire[c].reps, d) => Has(guest[handle[c]].added, d)
        /\ d \in watch[c].attached \ watch[c].initial => Has(guest[handle[c]].added, d)
        /\ Has(guest[handle[c]].added, d) => d \in watch[c].attached \/ Reports(wire[c].reps, d)
    BY <1>9, <1>15, <2>1 DEF Recorded, AddedTo, Reported
  <2>. QED
    BY <1>13, <1>14, <2>2
<1>16. ASSUME NEW e \in Gens, e # c PROVE Linked(e)' /\ Holds(e)' /\ Balance(e)' /\ InStep(e)'
  <2>1. Linked(e) /\ Holds(e) /\ Balance(e) /\ InStep(e)
    BY DEF VInv
  <2>2. handle[e] # 0 => handle[e] \in Gens /\ handle[e] # g
    BY <1>0, <1>10, <1>16, Are DEF VInv, Sole, Gens
  <2>3. wire'[e] = wire[e] /\ (handle[e] # 0 => guest'[handle[e]] = guest[handle[e]])
    BY <1>2, <1>16, <2>2
  <2>4. Linked(e)' /\ Holds(e)'
    BY <1>1, <2>1, <2>3 DEF Linked, Holds
  <2>5. Live(e)' => Live(e)
    BY <1>1 DEF Live
  <2>6. Balance(e)' /\ InStep(e)'
    BY <1>1, <2>1, <2>3, <2>5, BalanceHolds, FlowHolds, RecordedHolds DEF InStep
  <2>. QED
    BY <2>4, <2>6
<1>17. Sole'
  BY <1>1 DEF VInv, Sole
<1>18. Owners'
  <2>. SUFFICES ASSUME NEW e \in Gens, guest'[e].added # <<>> PROVE hotplug /\ \E y \in Gens : handle[y] = e
    BY <1>1 DEF Owners
  <2>1. CASE guest'[e].added = guest[e].added
    BY <2>1 DEF VInv, Owners
  <2>2. CASE guest'[e].added # guest[e].added
    <3>1. e = g /\ command # Powerdown
      BY <1>2, <1>3, <1>10, <2>2
    <3>. QED
      BY <1>7, <1>10, <3>1
  <2>. QED
    BY <2>1, <2>2
<1>19. DeviceAddedOnce'
  <2>. SUFFICES ASSUME NEW e \in Gens, \A y \in Gens : handle[y] = e => late[y] = 0
                PROVE  \A i, j \in DOMAIN guest'[e].added : guest'[e].added[i].dev = guest'[e].added[j].dev => i = j
    BY <1>1 DEF DeviceAddedOnce
  <2>1. \A i, j \in DOMAIN guest[e].added : guest[e].added[i].dev = guest[e].added[j].dev => i = j
    BY DEF VInv, DeviceAddedOnce
  <2>2. CASE guest'[e].added = guest[e].added
    BY <2>1, <2>2
  <2>3. CASE guest'[e].added # guest[e].added
    <3>1. e = g /\ command # Powerdown /\ guest'[g].added = Append(q, command)
      BY <1>2, <1>3, <1>10, <2>3
    <3>2. late[c] = 0
      BY <1>10, <3>1
    <3>3. Append(q, command) \in Seq(Adding)
      BY <1>5, <1>7, <3>1, OneMore
    <3>4. \A i, j \in 1..Len(q) : q[i].dev = q[j].dev => i = j
      BY <1>2, <1>5, <1>10, <2>1, <3>1
    <3>5. \A i, j \in 1..Len(Append(q, command)) :
            Append(q, command)[i].dev = Append(q, command)[j].dev => i = j
      BY <1>5, <1>7, <1>9, <3>1, <3>2, <3>4, OneMore
    <3>6. DOMAIN Append(q, command) = 1..Len(Append(q, command))
      BY <3>3
    <3>. QED
      BY <3>1, <3>5, <3>6
  <2>. QED
    BY <2>2, <2>3
<1>24. InStep(c)'
  BY <1>1, <1>12, <1>15 DEF InStep
<1>25. RepliesPaired'
  BY <1>1 DEF VInv, RepliesPaired
<1>. QED
  BY <1>0, <1>11, <1>16, <1>17, <1>18, <1>19, <1>23, <1>24, <1>25 DEF VInv

-----------------------------------------------------------------------------
(***************************************************************************)
(* The invariant, and what it comes to.                                    *)
(***************************************************************************)

\* So every step keeps the invariant.
LEMMA SessionKeeps ==
  ASSUME VInv, [Next]_vars
  PROVE  VInv'
<1>1. CASE Launch
  BY <1>1, LaunchKeeps
<1>2. ASSUME NEW c \in Gens, AgentThread(c) PROVE VInv'
  BY <1>2, ConnectKeeps, ConnectFailsKeeps, ReleaseKeeps, SkipKeeps, TakeSignalKeeps, EndSignalKeeps,
     ScanKeeps, TryAddKeeps, EndAddKeeps DEF AgentThread
<1>3. ASSUME NEW c \in Gens, Qemu(c) PROVE VInv'
  BY <1>3, HostKeeps, AnswerKeeps, EmitKeeps DEF Qemu
<1>4. CASE Signal \/ (\E d \in Devices : Plug(d) \/ Unplug(d)) \/ UNCHANGED vars
  BY <1>4, HostKeeps
<1>. QED
  BY <1>1, <1>2, <1>3, <1>4 DEF Next

\* The first state satisfies it.
LEMMA SessionInit ==
  ASSUME Init
  PROVE  VInv
<1>1. TypeInv
  BY TypeInit
<1>2. ASSUME NEW c \in Gens
      PROVE  /\ conn[c] = "none" /\ handle[c] = 0 /\ lock[c] = "free" /\ sig[c] = "none" /\ watch[c] = NoWatch
             /\ wire[c].reqs = <<>> /\ wire[c].reps = <<>> /\ guest[c].added = <<>> /\ late[c] = 0
  BY DEF Init
<1>3. NoWatch.at = "none" /\ NoWatch.attached = {}
  BY DEF NoWatch
<1>4. \A i \in 1..Len(<<>>) : FALSE
  OBVIOUS
<1>5. ASSUME NEW c \in Gens PROVE Linked(c) /\ Holds(c) /\ Balance(c) /\ InStep(c)
  <2>1. Linked(c) /\ Holds(c)
    BY <1>2, <1>3 DEF Linked, Holds
  <2>2. NoAnswer(wire[c].reps) /\ ~Live(c)
    BY <1>2, Empty DEF Live
  <2>3. Flow(c)
    BY <1>2, <1>4, <2>2 DEF Flow
  <2>4. \A d : ~Reported(c, d)
    BY <1>2, Empty DEF Reported
  <2>5. Recorded(c)
    BY <1>2, <1>3, <2>4 DEF Recorded
  <2>6. Balance(c)
    BY <1>2, <1>4, <2>2 DEF Balance
  <2>. QED
    BY <2>1, <2>3, <2>5, <2>6 DEF InStep
<1>6. Sole /\ Owners
  BY <1>2 DEF Sole, Owners
<1>7. DeviceAddedOnce
  <2>1. DOMAIN <<>> = {}
    OBVIOUS
  <2>. QED
    BY <1>2, <2>1 DEF DeviceAddedOnce
<1>8. RepliesPaired
  BY DEF Init, RepliesPaired
<1>. QED
  BY <1>1, <1>5, <1>6, <1>7, <1>8 DEF VInv

\* The invariant of the session holds throughout.
THEOREM SessionInvHolds == Spec => []VInv
<1>1. Init => VInv
  BY SessionInit
<1>2. VInv /\ [Next]_vars => VInv'
  BY SessionKeeps
<1>. QED
  BY <1>1, <1>2, PTL DEF Spec

\* The reply that execute returns is the one to its command, on every stream on
\* which no read has timed out: commands carry no id, and it is the mutex and the
\* order of QEMU's answers that pair them.  A watcher whose read did time out does
\* not disturb the pairing on the stream of another VM (qmp.rs:32-53,
\* main.rs:278-316).
THEOREM RepliesArePaired == Spec => []RepliesPaired
<1>1. VInv => RepliesPaired
  BY DEF VInv
<1>. QED
  BY <1>1, SessionInvHolds, PTL

\* On the stream of a free handle are the commands that timed out and no more, on
\* that of a held one its holder's beside them: however many reads time out,
\* nothing is lost from the stream and nothing sent twice (qmp.rs:34-53).
THEOREM OneCommand == Spec => []OneCommandInFlight
<1>1. VInv => OneCommandInFlight
  BY DEF VInv, Balance, Live, OneCommandInFlight
<1>. QED
  BY <1>1, SessionInvHolds, PTL

\* What a watcher none of whose reads has timed out believes attached was there at
\* the start or has been added to the VM it is connected to: it records only after
\* a "return", and that return is the answer to its own command (main.rs:350-366).
THEOREM AttachedWasAdded == Spec => []AttachedIsAdded
<1>1. VInv => AttachedIsAdded
  <2>. SUFFICES ASSUME VInv, NEW c \in Gens, late[c] = 0, NEW d \in watch[c].attached \ watch[c].initial
                PROVE  \E i \in DOMAIN guest[handle[c]].added : guest[handle[c]].added[i].dev = d
    BY DEF AttachedIsAdded
  <2>1. TypeOK /\ Recorded(c)
    BY DEF VInv, TypeInv, InStep
  <2>2. d \in Devices
    BY <2>1, Are DEF Watch
  <2>3. handle[c] \in Gens /\ AddedTo(handle[c], d)
    BY <2>1, <2>2, Are DEF Recorded, Gens
  <2>4. guest[handle[c]].added \in Seq(Adding)
    BY <2>1, <2>3, Are DEF Guests
  <2>. QED
    BY <2>3, <2>4 DEF AddedTo, Has
<1>. QED
  BY <1>1, SessionInvHolds, PTL

\* No device is added to one VM twice while no read of its client has timed out:
\* only the watcher connected to it adds devices, it offers none that it has
\* recorded, and a device that was added is recorded or its answer is still on the
\* stream (main.rs:339-372).
THEOREM AddedOnce == Spec => []DeviceAddedOnce
<1>1. VInv => DeviceAddedOnce
  BY DEF VInv
<1>. QED
  BY <1>1, SessionInvHolds, PTL
=============================================================================
