---------------------------- MODULE LaunchProofs ----------------------------
(***************************************************************************)
(* What a guest is started with, for every configuration, every number of  *)
(* shares, users and agents, every [usb] table and every coming and going  *)
(* of devices: the services of RuntimeServices, complete and cleaned up,   *)
(* and the devices of UsbPolicy, each once; then the two of them in Launch. *)
(***************************************************************************)
EXTENDS Launch, FiniteSetTheorems, TLAPS

-----------------------------------------------------------------------------
(***************************************************************************)
(* The services.                                                           *)
(***************************************************************************)

\* What an agent holds, and who is known to have let go of what is left.
\* NothingLeftBehind alone is not inductive: it does not say that an agent that
\* has yet to start has started nothing, nor that the interface comes last.
Custody ==
  /\ \A d \in Daemons : \A a \in alive[d] :
       a \in 1..agent /\ ((a = agent /\ d \in children) \/ Lapsed(a, {"inspection", "drop", "death"}))
  /\ \A a \in links :
       a \in 1..agent /\ ((a = agent /\ macvtap) \/ Lapsed(a, {"cleanup", "drop", "death"}))
  /\ macvtap => stage = "up" /\ agent \in links
  /\ stage \in {"failed", "stopped"} =>
       /\ children = {} /\ ~macvtap
       /\ socket => \E a \in 1..agent : Lapsed(a, {"inspection", "drop", "death"})

IInv == TypeOK /\ Custody

-----------------------------------------------------------------------------
\* Each service is followed by another, or by "up".
LEMMA Order ==
  /\ DOMAIN Following = Daemons \cup {"accounts", "macvtap"}
  /\ \A s \in DOMAIN Following : Following[s] \in Daemons \cup {"accounts", "macvtap", "up"}
  /\ \A s \in DOMAIN Following : Following[s] = "up" => s = "macvtap"
  /\ \A s \in DOMAIN Following : Following[s] \notin {"error", "failed", "stopped"}
BY DEF Following, Daemons

\* No share is in scope that is not configured.
LEMMA ScopesTyped ==
  /\ DOMAIN ScopeOf = {"smbd_vm", "smbd_lan"}
  /\ \A d \in {"smbd_vm", "smbd_lan"} : ScopeOf[d] \in SUBSET Shares
BY DEF ScopeOf, InScope

\* Writing an smbd's configuration leaves the configurations well-typed.
LEMMA ConfiguredTyped ==
  ASSUME TypeOK, NEW d \in Daemons
  PROVE  Configured(d) \in [{"smbd_vm", "smbd_lan"} -> SUBSET Shares]
BY ScopesTyped DEF TypeOK, Configured

\* Killing an agent's daemons only takes agents away.
LEMMA KillTyped ==
  ASSUME TypeOK, NEW ds
  PROVE  Kill(ds) \in [Daemons -> SUBSET (1..MaxAgents)]
BY DEF TypeOK, Kill

\* What is recorded of an agent's lapses.
LEMMA LapseRecorded ==
  ASSUME TypeOK, NEW o \in Occasions, Lapse(o)
  PROVE  /\ lapses' \subseteq (1..MaxAgents) \X Occasions
         /\ lapses \subseteq lapses' /\ <<agent, o>> \in lapses'
BY DEF TypeOK, Lapse

\* A drop, whatever fails in it, leaves the types as they are.
LEMMA DropTyped ==
  ASSUME TypeOK, Drop
  PROVE  /\ children' = {} /\ virtiofs' = FALSE /\ macvtap' = FALSE
         /\ alive' \in [Daemons -> SUBSET (1..MaxAgents)]
         /\ socket' \in BOOLEAN /\ links' \subseteq 1..MaxAgents
         /\ lapses' \subseteq (1..MaxAgents) \X Occasions
<1>1. CASE /\ alive' = Kill(children) /\ socket' = FALSE /\ UNCHANGED lapses
           /\ links' = links \ (IF macvtap THEN {agent} ELSE {})
  BY <1>1, KillTyped DEF Drop, TypeOK
<1>2. CASE /\ \E gone \in SUBSET children : alive' = Kill(gone)
           /\ socket' \in {FALSE, socket}
           /\ links' \in {links \ (IF macvtap THEN {agent} ELSE {}), links}
           /\ Lapse("drop")
  <2>1. children' = {} /\ virtiofs' = FALSE /\ macvtap' = FALSE
    BY DEF Drop
  <2>2. alive' \in [Daemons -> SUBSET (1..MaxAgents)]
    BY <1>2, KillTyped
  <2>3. lapses' \subseteq (1..MaxAgents) \X Occasions
    BY <1>2, LapseRecorded DEF Occasions
  <2>4. socket' \in BOOLEAN /\ links' \subseteq 1..MaxAgents
    BY <1>2 DEF TypeOK
  <2> QED
    BY <2>1, <2>2, <2>3, <2>4
<1> QED
  BY <1>1, <1>2 DEF Drop

\* The accounts set in EnsureAccounts and AccountsFail have passwords: the
\* users are those of enabled shares.
LEMMA AccountsTyped ==
  ASSUME TypeOK, NEW us \in SUBSET SharesUsers
  PROVE  SetAccounts(us) \in [Users -> Passwords \cup {Empty}]
<1>1. ASSUME NEW u \in us
      PROVE  PasswordOf(u) \in Passwords \cup {Empty}
  <2>1. PICK share \in Shares : Enabled(share) /\ cfg.user[share] = u
    BY <1>1 DEF SharesUsers
  <2>2. cfg.password[share] \in Passwords \cup {Empty}
    BY ConfigsAssumption DEF TypeOK, Config
  <2> QED
    BY <2>1, <2>2 DEF PasswordOf
<1> QED
  BY <1>1 DEF SetAccounts, TypeOK

-----------------------------------------------------------------------------
\* The first agent has started nothing.
LEMMA InitCustody == Init => IInv
<1> SUFFICES ASSUME Init PROVE IInv
  OBVIOUS
<1>1. 1 \in 1..MaxAgents
  BY MaxAgentsAssumption
<1>2. virtiofs \in BOOLEAN /\ socket \in BOOLEAN /\ macvtap \in BOOLEAN
  BY DEF Init
<1>3. account \in [Users -> Passwords \cup {Empty}]
  BY DEF Init
<1>4. serves \in [{"smbd_vm", "smbd_lan"} -> SUBSET Shares]
  BY DEF Init
<1>5. TypeOK
  BY <1>1, <1>2, <1>3, <1>4 DEF Init, TypeOK, Daemons
<1>6. Custody
  BY DEF Init, Custody
<1> QED
  BY <1>5, <1>6 DEF IInv

\* Every step keeps the types.
LEMMA StepType == TypeOK /\ [Next]_vars => TypeOK'
<1> SUFFICES ASSUME TypeOK, [Next]_vars PROVE TypeOK'
  OBVIOUS
<1> USE MaxAgentsAssumption DEF TypeOK, owner, world, samba
<1>1. CASE Skip
  BY <1>1, Order DEF Skip
<1>2. CASE StartDaemon
  <2>1. serves' \in [{"smbd_vm", "smbd_lan"} -> SUBSET Shares]
    BY <1>2, ConfiguredTyped DEF StartDaemon
  <2>2. stage' \in Daemons \cup {"accounts", "macvtap", "up", "error", "failed", "stopped"}
    BY <1>2, Order DEF StartDaemon
  <2>3. virtiofs' \in BOOLEAN /\ socket' \in BOOLEAN
    BY <1>2 DEF StartDaemon
  <2> QED
    BY <1>2, <2>1, <2>2, <2>3 DEF StartDaemon, Started
<1>3. CASE DaemonFails
  <2>1. serves' \in [{"smbd_vm", "smbd_lan"} -> SUBSET Shares]
    BY <1>3, ConfiguredTyped DEF DaemonFails
  <2>2. alive' \in [Daemons -> SUBSET (1..MaxAgents)]
    BY <1>3 DEF DaemonFails, Started
  <2>3. lapses' \subseteq (1..MaxAgents) \X Occasions
    BY <1>3, LapseRecorded DEF DaemonFails, Occasions
  <2>4. socket' \in BOOLEAN
    BY <1>3 DEF DaemonFails
  <2> QED
    BY <1>3, <2>1, <2>2, <2>3, <2>4 DEF DaemonFails
<1>4. CASE EnsureAccounts
  BY <1>4, AccountsTyped, Order DEF EnsureAccounts
<1>5. CASE AccountsFail
  BY <1>5, AccountsTyped DEF AccountsFail
<1>6. CASE StartMacvtap
  BY <1>6 DEF StartMacvtap
<1>7. CASE MacvtapFails
  <2>1. lapses' \subseteq (1..MaxAgents) \X Occasions
    BY <1>7, LapseRecorded DEF MacvtapFails, Occasions
  <2> QED
    BY <1>7, <2>1 DEF MacvtapFails
<1>8. CASE Stop
  BY <1>8, DropTyped DEF Stop
<1>9. CASE StartAgain
  BY <1>9 DEF StartAgain, Daemons
<1>10. CASE DaemonDies
  BY <1>10 DEF DaemonDies
<1>11. CASE NextAgent
  <2>1. agent' \in 1..MaxAgents
    BY <1>11 DEF NextAgent
  <2>2. virtiofs' \in BOOLEAN /\ socket' \in BOOLEAN /\ macvtap' \in BOOLEAN
    BY <1>11 DEF NextAgent
  <2>3. lapses' \subseteq (1..MaxAgents) \X Occasions
    BY <1>11, LapseRecorded DEF NextAgent, Occasions
  <2> QED
    BY <1>11, <2>1, <2>2, <2>3 DEF NextAgent, Daemons
<1>12. CASE Fail
  BY <1>12, DropTyped DEF Fail
<1>13. CASE Listen
  BY <1>13 DEF Listen
<1>14. CASE UNCHANGED vars
  BY <1>14 DEF vars
<1> QED
  BY <1>1, <1>2, <1>3, <1>4, <1>5, <1>6, <1>7, <1>8, <1>9, <1>10, <1>11, <1>12, <1>13, <1>14 DEF Next

\* Lapses are never forgotten.
LEMMA LapsesStay ==
  ASSUME NEW a, NEW os, Lapsed(a, os), lapses \subseteq lapses'
  PROVE  Lapsed(a, os)'
BY DEF Lapsed

\* A drop takes the current agent out of what it owned, or it is recorded.
LEMMA DropReleases ==
  ASSUME TypeOK, Custody, Drop, agent' = agent, stage' \in {"failed", "stopped"}
  PROVE  Custody'
<1>1. children' = {} /\ macvtap' = FALSE /\ agent \in 1..agent
  BY DEF Drop, TypeOK
<1>2. CASE /\ alive' = Kill(children) /\ socket' = FALSE /\ UNCHANGED lapses
           /\ links' = links \ (IF macvtap THEN {agent} ELSE {})
  <2>1. ASSUME NEW d \in Daemons, NEW a \in alive'[d]
        PROVE  a \in 1..agent /\ Lapsed(a, {"inspection", "drop", "death"})'
    <3>1. a \in alive[d] /\ (d \in children => a # agent)
      BY <1>2, <2>1 DEF Kill, TypeOK
    <3> QED
      BY <1>2, <3>1 DEF Custody, Lapsed
  <2>2. ASSUME NEW a \in links'
        PROVE  a \in 1..agent /\ Lapsed(a, {"cleanup", "drop", "death"})'
    BY <1>2, <2>2 DEF Custody, Lapsed
  <2> QED
    BY <1>1, <1>2, <2>1, <2>2 DEF Custody
<1>3. CASE /\ \E gone \in SUBSET children : alive' = Kill(gone)
           /\ socket' \in {FALSE, socket}
           /\ links' \in {links \ (IF macvtap THEN {agent} ELSE {}), links}
           /\ Lapse("drop")
  <2>1. lapses \subseteq lapses' /\ <<agent, "drop">> \in lapses'
    BY <1>3, LapseRecorded DEF Occasions
  <2>2. /\ Lapsed(agent, {"inspection", "drop", "death"})'
        /\ Lapsed(agent, {"cleanup", "drop", "death"})'
    BY <2>1 DEF Lapsed
  <2>3. ASSUME NEW d \in Daemons, NEW a \in alive'[d]
        PROVE  a \in 1..agent /\ Lapsed(a, {"inspection", "drop", "death"})'
    <3>1. a \in alive[d]
      BY <1>3, <2>3 DEF Kill, TypeOK
    <3>2. a = agent \/ Lapsed(a, {"inspection", "drop", "death"})
      BY <3>1 DEF Custody
    <3> QED
      BY <2>1, <2>2, <3>1, <3>2, LapsesStay DEF Custody
  <2>4. ASSUME NEW a \in links'
        PROVE  a \in 1..agent /\ Lapsed(a, {"cleanup", "drop", "death"})'
    <3>1. a \in links
      BY <1>3, <2>4
    <3>2. a = agent \/ Lapsed(a, {"cleanup", "drop", "death"})
      BY <3>1 DEF Custody
    <3> QED
      BY <2>1, <2>2, <3>1, <3>2, LapsesStay DEF Custody
  <2> QED
    BY <1>1, <2>2, <2>3, <2>4 DEF Custody
<1> QED
  BY <1>2, <1>3 DEF Drop

\* Every step keeps the account of what is held and what is left.
LEMMA StepCustody == IInv /\ [Next]_vars => Custody'
<1> SUFFICES ASSUME TypeOK, Custody, [Next]_vars PROVE Custody'
  BY DEF IInv
<1>0. agent \in 1..agent /\ agent \in Nat
  BY MaxAgentsAssumption DEF TypeOK
<1> USE DEF owner, world, samba
<1>1. CASE Skip
  <2>1. stage' \notin {"failed", "stopped"}
    BY <1>1, Order DEF Skip
  <2>2. ~macvtap
    BY <1>1, Order DEF Skip, Custody, Daemons
  <2> QED
    BY <1>1, <2>1, <2>2 DEF Skip, Custody, Lapsed
<1>2. CASE StartDaemon
  <2>1. stage' \notin {"failed", "stopped"} /\ ~macvtap'
    BY <1>2, Order DEF StartDaemon, Custody, Daemons
  <2>2. ASSUME NEW d \in Daemons, NEW a \in alive'[d]
        PROVE  a \in 1..agent' /\ ((a = agent' /\ d \in children') \/ Lapsed(a, {"inspection", "drop", "death"})')
    <3>1. a \in alive[d] \/ (d = stage /\ a = agent)
      BY <1>2, <2>2 DEF StartDaemon, Started, TypeOK
    <3> QED
      BY <1>0, <1>2, <3>1 DEF StartDaemon, Custody, Lapsed
  <2> QED
    BY <1>2, <2>1, <2>2 DEF StartDaemon, Custody, Lapsed
<1>3. CASE DaemonFails
  <2>1. ~macvtap' /\ stage' = "error" /\ UNCHANGED <<agent, children, links>>
    BY <1>3 DEF DaemonFails, Custody, Daemons
  <2>2. lapses \subseteq lapses'
    BY <1>3, LapseRecorded DEF DaemonFails, Occasions
  <2>3. ASSUME NEW d \in Daemons, NEW a \in alive'[d]
        PROVE  a \in 1..agent /\ ((a = agent /\ d \in children) \/ Lapsed(a, {"inspection", "drop", "death"})')
    <3>1. CASE a \in alive[d]
      BY <2>2, <3>1, LapsesStay DEF Custody
    <3>2. CASE a \notin alive[d]
      <4>1. Started /\ Lapse("inspection") /\ a = agent
        BY <1>3, <2>3, <3>2 DEF DaemonFails, Started, TypeOK
      <4>2. <<agent, "inspection">> \in lapses'
        BY <4>1, LapseRecorded DEF Occasions
      <4> QED
        BY <1>0, <4>1, <4>2 DEF Lapsed
    <3> QED
      BY <3>1, <3>2
  <2>4. \A a \in links : a \in 1..agent /\ Lapsed(a, {"cleanup", "drop", "death"})'
    <3>1. ~macvtap
      BY <1>3 DEF DaemonFails, Custody, Daemons
    <3> QED
      BY <2>2, <3>1, LapsesStay DEF Custody
  <2> QED
    BY <2>1, <2>3, <2>4 DEF Custody
<1>4. CASE EnsureAccounts
  <2>1. stage' = "smbd_vm" /\ stage = "accounts"
    BY <1>4 DEF EnsureAccounts, Following
  <2> QED
    BY <1>4, <2>1 DEF EnsureAccounts, Custody, Lapsed
<1>5. CASE AccountsFail
  BY <1>5 DEF AccountsFail, Custody, Lapsed
<1>6. CASE StartMacvtap
  BY <1>0, <1>6 DEF StartMacvtap, Custody, Lapsed
<1>7. CASE MacvtapFails
  <2>1. ~macvtap /\ ~macvtap' /\ stage' = "error" /\ UNCHANGED <<agent, children, alive>>
    BY <1>7 DEF MacvtapFails, Custody
  <2>2. lapses \subseteq lapses'
    BY <1>7, LapseRecorded DEF MacvtapFails, Occasions
  <2>3. ASSUME NEW d \in Daemons, NEW a \in alive[d]
        PROVE  a \in 1..agent /\ ((a = agent /\ d \in children) \/ Lapsed(a, {"inspection", "drop", "death"})')
    BY <2>2, <2>3, LapsesStay DEF Custody
  <2>4. ASSUME NEW a \in links' PROVE a \in 1..agent /\ Lapsed(a, {"cleanup", "drop", "death"})'
    <3>1. CASE a \in links
      BY <2>1, <2>2, <3>1, LapsesStay DEF Custody
    <3>2. CASE a \notin links
      <4>1. Lapse("cleanup") /\ a = agent
        BY <1>7, <2>4, <3>2 DEF MacvtapFails
      <4>2. <<agent, "cleanup">> \in lapses'
        BY <4>1, LapseRecorded DEF Occasions
      <4> QED
        BY <1>0, <4>1, <4>2 DEF Lapsed
    <3> QED
      BY <3>1, <3>2
  <2> QED
    BY <2>1, <2>3, <2>4 DEF Custody
<1>8. CASE Fail \/ Stop
  BY <1>8, DropReleases DEF Fail, Stop
<1>9. CASE StartAgain
  BY <1>9 DEF StartAgain, Custody, Lapsed
<1>10. CASE DaemonDies
  <2>1. \A d \in Daemons : alive'[d] \subseteq alive[d]
    BY <1>10 DEF DaemonDies, TypeOK
  <2> QED
    BY <1>10, <2>1 DEF DaemonDies, Custody, Lapsed
<1>11. CASE Listen
  <2>1. stage \in {"failed", "stopped"} => \E a \in 1..agent : Lapsed(a, {"inspection", "drop", "death"})
    BY <1>11 DEF Listen, Custody, Daemons
  <2> QED
    BY <1>11, <2>1 DEF Listen, Custody, Lapsed
<1>12. CASE NextAgent
  <2>1. lapses \subseteq lapses'
    BY <1>12, LapseRecorded DEF NextAgent, Occasions
  <2>2. (children # {} \/ macvtap) => <<agent, "death">> \in lapses'
    BY <1>12, LapseRecorded DEF NextAgent, Occasions
  <2>3. 1..agent \subseteq 1..agent'
    BY <1>0, <1>12 DEF NextAgent
  <2>4. ASSUME NEW d \in Daemons, NEW a \in alive[d]
        PROVE  a \in 1..agent' /\ Lapsed(a, {"inspection", "drop", "death"})'
    BY <2>1, <2>2, <2>3, <2>4, LapsesStay DEF Custody, Lapsed
  <2>5. ASSUME NEW a \in links
        PROVE  a \in 1..agent' /\ Lapsed(a, {"cleanup", "drop", "death"})'
    BY <2>1, <2>2, <2>3, <2>5, LapsesStay DEF Custody, Lapsed
  <2> QED
    BY <1>12, <2>4, <2>5 DEF NextAgent, Custody
<1>13. CASE UNCHANGED vars
  BY <1>13 DEF vars, Custody, Lapsed
<1> QED
  BY <1>1, <1>2, <1>3, <1>4, <1>5, <1>6, <1>7, <1>8, <1>9, <1>10, <1>11, <1>12, <1>13 DEF Next

-----------------------------------------------------------------------------
\* The stages of start() that lie behind each one.
Behind ==
  [ virtiofsd |-> {}, pipewire |-> {"virtiofsd"}, pulse |-> {"virtiofsd", "pipewire"},
    dnsmasq |-> {"virtiofsd", "pipewire", "pulse"},
    httpd |-> {"virtiofsd", "pipewire", "pulse", "dnsmasq"},
    accounts |-> {"virtiofsd", "pipewire", "pulse", "dnsmasq", "httpd"},
    smbd_vm |-> {"virtiofsd", "pipewire", "pulse", "dnsmasq", "httpd"},
    smbd_lan |-> {"virtiofsd", "pipewire", "pulse", "dnsmasq", "httpd", "smbd_vm"},
    macvtap |-> Daemons, up |-> Daemons ]

\* What start() has done when it comes to a stage: it has started the daemons the
\* configuration asks for among those behind the stage, and nothing else.
Progress ==
  /\ stage \in DOMAIN Behind =>
       /\ children = {d \in Behind[stage] : Wanted(d)}
       /\ virtiofs <=> cfg.virtiofs /\ stage # "virtiofsd"
       /\ stage = "up" => (macvtap <=> cfg.macvtap)
  /\ stage \in {"failed", "stopped"} => ~virtiofs

\* The shares that are enabled have the password of their user's account.
Matched ==
  \A share \in Shares :
    Enabled(share) => /\ account[cfg.user[share]] = cfg.password[share]
                      /\ cfg.password[share] # Empty

\* The accounts are set behind their stage.
AccountsSet == stage \in {"smbd_vm", "smbd_lan", "macvtap", "up"} => Matched

\* An smbd of this agent, also one that its owner does not know of, has the shares
\* of its scope, and the accounts agree with them.
Served ==
  \A d \in DOMAIN serves : agent \in alive[d] => serves[d] = ScopeOf[d] /\ Matched

Samba == Served /\ AccountsSet

SInv == IInv /\ Progress /\ Samba

\* One stage further, one more stage is behind.
LEMMA BehindGrows ==
  /\ DOMAIN Behind = DOMAIN Following \cup {"up"}
  /\ \A s \in Daemons : /\ Behind[Following[s]] = Behind[s] \cup {s}
                         /\ s \notin Behind[s] /\ Following[s] # "virtiofsd"
  /\ Behind[Following["accounts"]] = Behind["accounts"]
  /\ Behind["macvtap"] = Daemons /\ Behind["up"] = Daemons
  /\ \A s \in DOMAIN Behind : Behind[s] \subseteq Daemons
BY DEF Behind, Following, Daemons

\* What is wanted depends on the configuration only.
LEMMA WantedKept ==
  ASSUME UNCHANGED cfg
  PROVE  /\ ScopeOf' = ScopeOf
         /\ \A s \in Daemons \cup {"accounts", "macvtap"} : Wanted(s)' = Wanted(s)
         /\ \A share \in Shares : Enabled(share)' = Enabled(share)
BY DEF Wanted, ScopeOf, InScope, Enabled

\* What is wanted, of the two services that leave more than a process.
LEMMA WantedIs ==
  /\ Wanted("virtiofsd") = cfg.virtiofs
  /\ Wanted("macvtap") = cfg.macvtap
BY DEF Wanted

\* The first agent is about to start the first service.
LEMMA InitProgress == Init => Progress /\ Samba
<1> SUFFICES ASSUME Init PROVE Progress /\ Samba
  OBVIOUS
<1>1. Progress
  BY DEF Init, Progress, Behind
<1>2. Samba
  BY DEF Init, Samba, Served, AccountsSet, Daemons
<1> QED
  BY <1>1, <1>2

\* Every step keeps the account of what has been started.
LEMMA StepProgress == IInv /\ Progress /\ [Next]_vars => Progress'
<1> SUFFICES ASSUME TypeOK, Custody, Progress, [Next]_vars PROVE Progress'
  BY DEF IInv
<1>1. CASE Skip
  <2>1. /\ stage \in DOMAIN Following /\ ~Wanted(stage)
        /\ stage' = Following[stage]
        /\ UNCHANGED <<cfg, agent, children, virtiofs, macvtap>>
    BY <1>1 DEF Skip, owner
  <2>2. \A d \in Daemons : Wanted(d)' = Wanted(d)
    BY <2>1, WantedKept
  <2>3. CASE stage \in Daemons
    <3>1. {d \in Behind[stage'] : Wanted(d)'} = {d \in Behind[stage] : Wanted(d)}
      BY <2>1, <2>2, <2>3, BehindGrows
    <3>2. virtiofs' <=> cfg'.virtiofs /\ stage' # "virtiofsd"
      BY <2>1, <2>3, BehindGrows, WantedIs DEF Progress
    <3> QED
      BY <2>1, <2>3, <3>1, <3>2, Order, BehindGrows DEF Progress, Daemons
  <2>4. CASE stage = "accounts"
    BY <2>1, <2>2, <2>4, BehindGrows DEF Progress, Following
  <2>5. CASE stage = "macvtap"
    BY <2>1, <2>2, <2>5, BehindGrows, WantedIs DEF Progress, Following, Custody
  <2> QED
    BY <2>1, <2>3, <2>4, <2>5, Order
<1>2. CASE StartDaemon
  <2>1. /\ stage \in Daemons /\ Wanted(stage)
        /\ children' = children \cup {stage}
        /\ virtiofs' = (virtiofs \/ stage = "virtiofsd")
        /\ stage' = Following[stage]
        /\ UNCHANGED <<cfg, agent, macvtap>>
    BY <1>2 DEF StartDaemon
  <2>4. \A d \in Daemons : Wanted(d)' = Wanted(d)
    BY <2>1, WantedKept
  <2>2. {d \in Behind[stage'] : Wanted(d)'} = {d \in Behind[stage] : Wanted(d)} \cup {stage}
    <3>1. Behind[stage'] = Behind[stage] \cup {stage} /\ Behind[stage'] \subseteq Daemons
      BY <2>1, BehindGrows, Order
    <3> QED
      BY <2>1, <2>4, <3>1
  <2>3. virtiofs' <=> cfg'.virtiofs /\ stage' # "virtiofsd"
    <3>1. stage' # "virtiofsd" /\ stage \in DOMAIN Behind
      BY <2>1, BehindGrows, Order
    <3>2. CASE stage = "virtiofsd"
      <4>1. cfg.virtiofs
        BY <2>1, <3>2, WantedIs
      <4> QED
        BY <2>1, <3>1, <3>2, <4>1
    <3>3. CASE stage # "virtiofsd"
      BY <2>1, <3>1, <3>3 DEF Progress
    <3> QED
      BY <3>2, <3>3
  <2> QED
    BY <2>1, <2>2, <2>3, Order, BehindGrows DEF Progress, Daemons
<1>3. CASE EnsureAccounts
  BY <1>3, WantedKept, BehindGrows DEF EnsureAccounts, Progress, Following, owner
<1>4. CASE StartMacvtap
  <2>1. \A d \in Daemons : Wanted(d)' = Wanted(d)
    BY <1>4, WantedKept DEF StartMacvtap
  <2>2. /\ stage = "macvtap" /\ Wanted("macvtap") /\ macvtap' = TRUE
        /\ stage' = "up" /\ UNCHANGED <<cfg, agent, children, virtiofs>>
    BY <1>4 DEF StartMacvtap
  <2>3. cfg.macvtap
    BY <2>2, WantedIs
  <2>4. children' = {d \in Behind[stage'] : Wanted(d)'}
    BY <2>1, <2>2, BehindGrows, Order DEF Progress
  <2> QED
    BY <2>2, <2>3, <2>4, BehindGrows, Order DEF Progress
<1>5. CASE DaemonFails \/ AccountsFail \/ MacvtapFails
  BY <1>5 DEF DaemonFails, AccountsFail, MacvtapFails, Progress, Behind
<1>6. CASE Fail \/ Stop
  BY <1>6 DEF Fail, Stop, Drop, Progress, Behind
<1>7. CASE StartAgain
  BY <1>7, BehindGrows DEF StartAgain, Progress, Custody, Behind, owner
<1>8. CASE DaemonDies \/ Listen
  BY <1>8, WantedKept, BehindGrows DEF DaemonDies, Listen, Progress, owner
<1>9. CASE NextAgent
  BY <1>9 DEF NextAgent, Progress, Behind
<1>10. CASE UNCHANGED vars
  BY <1>10, WantedKept, BehindGrows DEF vars, Progress
<1> QED
  BY <1>1, <1>2, <1>3, <1>4, <1>5, <1>6, <1>7, <1>8, <1>9, <1>10 DEF Next

\* The password chosen for a user is that of every enabled share of the user's:
\* acceptable shares do not disagree.
LEMMA PasswordIs ==
  ASSUME TypeOK, SharesAcceptable, NEW share \in Shares, Enabled(share)
  PROVE  PasswordOf(cfg.user[share]) = cfg.password[share]
<1> DEFINE u == cfg.user[share]
           Is(p) == \E s \in Shares : Enabled(s) /\ cfg.user[s] = u /\ cfg.password[s] = p
<1>1. cfg.password[share] \in Passwords \cup {Empty}
  BY ConfigsAssumption DEF TypeOK, Config
<1>2. Is(cfg.password[share])
  OBVIOUS
<1>3. \A p : Is(p) => p = cfg.password[share]
  BY DEF SharesAcceptable
<1>4. PasswordOf(u) = CHOOSE p \in Passwords \cup {Empty} : Is(p)
  BY DEF PasswordOf
<1>5. Is(CHOOSE p \in Passwords \cup {Empty} : Is(p))
  <2> HIDE DEF Is, u
  <2> QED
    BY <1>1, <1>2
<1> QED
  BY <1>3, <1>4, <1>5

\* Once EnsureAccounts is through, every enabled share has its password.
LEMMA AccountsMade ==
  ASSUME TypeOK, SharesAcceptable, account' = SetAccounts(SharesUsers), cfg' = cfg
  PROVE  Matched'
<1> SUFFICES ASSUME NEW share \in Shares, Enabled(share)
             PROVE  /\ account'[cfg.user[share]] = cfg.password[share]
                    /\ cfg.password[share] # Empty
  BY DEF Matched, Enabled
<1>1. cfg.user[share] \in Users
  BY ConfigsAssumption DEF TypeOK, Config
<1>2. cfg.user[share] \in SharesUsers
  BY DEF SharesUsers
<1>3. account'[cfg.user[share]] = PasswordOf(cfg.user[share])
  BY <1>1, <1>2 DEF SetAccounts
<1> QED
  BY <1>3, PasswordIs DEF SharesAcceptable

\* An attempt that fails half-way leaves accounts that matched as they were.
LEMMA AccountsKept ==
  ASSUME TypeOK, AccountsFail, Matched
  PROVE  Matched'
<1>1. cfg' = cfg
  BY DEF AccountsFail
<1>2. CASE account' = account
  BY <1>1, <1>2 DEF Matched, Enabled
<1>3. CASE SharesAcceptable /\ \E done \in SUBSET SharesUsers : account' = SetAccounts(done)
  <2>1. PICK done \in SUBSET SharesUsers : account' = SetAccounts(done)
    BY <1>3
  <2> SUFFICES ASSUME NEW share \in Shares, Enabled(share)
               PROVE  /\ account'[cfg.user[share]] = cfg.password[share]
                      /\ cfg.password[share] # Empty
    BY <1>1 DEF Matched, Enabled
  <2>2. cfg.user[share] \in Users
    BY ConfigsAssumption DEF TypeOK, Config
  <2>3. account'[cfg.user[share]] \in {PasswordOf(cfg.user[share]), account[cfg.user[share]]}
    BY <2>1, <2>2 DEF SetAccounts
  <2> QED
    BY <1>3, <2>3, PasswordIs DEF Matched
<1> QED
  BY <1>2, <1>3 DEF AccountsFail

\* A drop stops daemons, and starts none.
LEMMA DropOnlyStops ==
  ASSUME TypeOK, Drop
  PROVE  \A d \in Daemons : alive'[d] \subseteq alive[d]
BY DEF Drop, Kill, TypeOK

\* Every step keeps the servers to the shares of their scopes.
LEMMA StepSamba == SInv /\ [Next]_vars => Samba'
<1> SUFFICES ASSUME TypeOK, Custody, Served, AccountsSet, [Next]_vars PROVE Samba'
  BY DEF SInv, IInv, Samba
<1>0. DOMAIN serves = {"smbd_vm", "smbd_lan"} /\ DOMAIN serves \subseteq Daemons
  BY DEF TypeOK, Daemons
<1>1. ASSUME UNCHANGED <<cfg, account>>
      PROVE  Matched' = Matched /\ ScopeOf' = ScopeOf
  BY <1>1, WantedKept DEF Matched, Enabled
<1> USE DEF owner, world, samba
<1>2. CASE Skip
  <2>1. stage = "accounts" => Matched
    <3>1. Wanted("accounts") = \E share \in Shares : Enabled(share)
      BY DEF Wanted
    <3> QED
      BY <1>2, <3>1 DEF Skip, Matched
  <2>2. stage' \in {"smbd_vm", "smbd_lan", "macvtap", "up"} =>
          stage \in {"accounts", "smbd_vm", "smbd_lan", "macvtap"}
    BY <1>2 DEF Skip, Following
  <2> QED
    BY <1>1, <1>2, <2>1, <2>2 DEF Skip, Samba, Served, AccountsSet
<1>3. CASE StartDaemon
  <2>1. stage' \in {"smbd_vm", "smbd_lan", "macvtap", "up"} => stage \in {"smbd_vm", "smbd_lan"}
    BY <1>3 DEF StartDaemon, Following, Daemons
  <2>2. ASSUME NEW d \in DOMAIN serves', agent' \in alive'[d]
        PROVE  serves'[d] = ScopeOf'[d] /\ Matched'
    <3>1. d = stage \/ agent \in alive[d]
      BY <1>3, <2>2, <1>0 DEF StartDaemon, Started, TypeOK, Configured
    <3>2. serves'[d] = IF d = stage THEN ScopeOf[d] ELSE serves[d]
      BY <1>3, <2>2, <1>0 DEF StartDaemon, Configured
    <3>3. d \in DOMAIN serves /\ UNCHANGED <<cfg, account>>
      BY <1>0, <1>3, <2>2 DEF StartDaemon, Configured
    <3>4. d = stage => Matched
      BY <1>0, <3>3 DEF AccountsSet
    <3> QED
      BY <1>1, <3>1, <3>2, <3>3, <3>4 DEF Served
  <2> QED
    BY <1>1, <1>3, <2>1, <2>2 DEF StartDaemon, Samba, Served, AccountsSet
<1>4. CASE DaemonFails
  <2>1. stage' = "error" /\ UNCHANGED <<cfg, account, agent>>
    BY <1>4 DEF DaemonFails
  <2>2. ASSUME NEW d \in DOMAIN serves', agent \in alive'[d]
        PROVE  serves'[d] = ScopeOf[d] /\ Matched
    <3>1. /\ serves'[d] \in {serves[d], ScopeOf[d]} /\ d \in DOMAIN serves
          /\ serves' # serves /\ d # stage => serves'[d] = serves[d]
      BY <1>0, <1>4, <2>2 DEF DaemonFails, Configured
    <3>2. CASE agent \in alive[d]
      BY <3>1, <3>2 DEF Served
    <3>3. CASE agent \notin alive[d]
      <4>1. Started /\ serves' = Configured(stage) /\ d = stage
        BY <1>0, <1>4, <2>2, <3>1, <3>3 DEF DaemonFails, Started, TypeOK
      <4>2. serves'[d] = ScopeOf[d]
        BY <1>0, <3>1, <4>1 DEF Configured
      <4>3. Matched
        BY <1>0, <3>1, <4>1 DEF AccountsSet
      <4> QED
        BY <4>2, <4>3
    <3> QED
      BY <3>2, <3>3
  <2> QED
    BY <1>1, <2>1, <2>2 DEF Samba, Served, AccountsSet
<1>5. CASE EnsureAccounts
  <2>1. Matched'
    BY <1>5, AccountsMade DEF EnsureAccounts
  <2> QED
    BY <1>5, <2>1, WantedKept DEF EnsureAccounts, Samba, Served, AccountsSet
<1>6. CASE AccountsFail
  <2>1. stage' = "error" /\ UNCHANGED <<cfg, agent, alive, serves>>
    BY <1>6 DEF AccountsFail
  <2> QED
    BY <1>6, <2>1, AccountsKept, WantedKept DEF Samba, Served, AccountsSet
<1>7. CASE StartMacvtap \/ MacvtapFails
  BY <1>1, <1>7 DEF StartMacvtap, MacvtapFails, Samba, Served, AccountsSet
<1>8. CASE Fail \/ Stop
  <2>1. /\ UNCHANGED <<cfg, agent, account, serves>> /\ stage' \in {"failed", "stopped"}
        /\ \A d \in Daemons : alive'[d] \subseteq alive[d]
    BY <1>8, DropOnlyStops DEF Fail, Stop
  <2> QED
    BY <1>0, <1>1, <2>1 DEF Samba, Served, AccountsSet
<1>9. CASE StartAgain
  BY <1>1, <1>9 DEF StartAgain, Samba, Served, AccountsSet
<1>10. CASE DaemonDies \/ Listen
  <2>1. /\ UNCHANGED <<cfg, agent, stage, account, serves>>
        /\ \A d \in Daemons : alive'[d] \subseteq alive[d]
    BY <1>10 DEF DaemonDies, Listen, TypeOK
  <2> QED
    BY <1>0, <1>1, <2>1 DEF Samba, Served, AccountsSet
<1>11. CASE NextAgent
  <2>1. \A d \in DOMAIN serves : agent' \notin alive[d]
    BY <1>0, <1>11, MaxAgentsAssumption DEF NextAgent, Custody, TypeOK
  <2> QED
    BY <1>11, <2>1 DEF NextAgent, Samba, Served, AccountsSet
<1>12. CASE UNCHANGED vars
  BY <1>1, <1>12 DEF vars, Samba, Served, AccountsSet
<1> QED
  BY <1>2, <1>3, <1>4, <1>5, <1>6, <1>7, <1>8, <1>9, <1>10, <1>11, <1>12 DEF Next

-----------------------------------------------------------------------------
\* The invariants of which the theorems below are consequences: what is owned,
\* how far start() has come, and whom Samba serves.
LEMMA CustodyKept == Spec => []IInv
<1>1. IInv /\ [Next]_vars => IInv'
  BY StepType, StepCustody DEF IInv
<1> QED
  BY InitCustody, <1>1, PTL DEF Spec

\* So every step keeps them all.
LEMMA ServicesKept == Spec => []SInv
<1>1. Init => SInv
  BY InitCustody, InitProgress DEF SInv
<1>2. SInv /\ [Next]_vars => SInv'
  BY StepType, StepCustody, StepProgress, StepSamba DEF SInv, IInv
<1> QED
  BY <1>1, <1>2, PTL DEF Spec

\* The state of RuntimeServices and of what it starts is well-typed.
THEOREM TypeCorrect == Spec => []TypeOK
BY CustodyKept, PTL DEF IInv

\* However start() fails and guests end, agents die and daemons outlive them, what
\* runs and exists is the current owner's or is left by an agent that is known to
\* have let go of it, and after a Drop the owner has nothing (services.rs:35-37).
THEOREM CleanedUp == Spec => []NothingLeftBehind
<1>1. IInv => NothingLeftBehind
  BY DEF IInv, Custody, NothingLeftBehind
<1> QED
  BY CustodyKept, <1>1, PTL

\* When start() returns Ok, its owner has a handle of every daemon that was asked for
\* and of no other, and QEMU is told of virtiofs and macvtap as configured, whatever
\* was left by others before (services.rs:45-74).
THEOREM AllStarted == Spec => []ReadyIsComplete
<1>1. SInv => ReadyIsComplete
  <2> SUFFICES ASSUME TypeOK, Custody, Progress, stage = "up"
               PROVE  /\ children = {d \in Daemons : Wanted(d)}
                      /\ virtiofs = cfg.virtiofs
                      /\ macvtap = cfg.macvtap /\ (macvtap => agent \in links)
    BY DEF SInv, IInv, ReadyIsComplete
  <2>1. /\ cfg.virtiofs \in BOOLEAN /\ cfg.macvtap \in BOOLEAN
        /\ virtiofs \in BOOLEAN /\ macvtap \in BOOLEAN
    BY ConfigsAssumption DEF TypeOK, Config
  <2>2. stage \in DOMAIN Behind /\ Behind[stage] = Daemons
    BY BehindGrows
  <2> QED
    BY <2>1, <2>2 DEF Progress, Custody
<1> QED
  BY ServicesKept, <1>1, PTL

\* Whatever users and password files the shares have, a share that is served has
\* the account of its user with the password of its own file (services.rs:211-241).
THEOREM PasswordsMatch == Spec => []AccountsMatch
<1>1. SInv => AccountsMatch
  <2> SUFFICES ASSUME TypeOK, Served, NEW d \in DOMAIN serves, agent \in alive[d],
                      NEW share \in serves[d]
               PROVE  /\ account[cfg.user[share]] = cfg.password[share]
                      /\ cfg.password[share] # Empty
    BY DEF SInv, IInv, Samba, AccountsMatch
  <2>1. d \in {"smbd_vm", "smbd_lan"} /\ share \in ScopeOf[d] /\ Matched
    BY DEF Served, TypeOK
  <2>2. share \in Shares /\ Enabled(share)
    BY <2>1 DEF ScopeOf, InScope, Enabled
  <2> QED
    BY <2>1, <2>2 DEF Matched
<1> QED
  BY ServicesKept, <1>1, PTL

-----------------------------------------------------------------------------
(***************************************************************************)
(* Sequences, and induction on the number of rules.                        *)
(***************************************************************************)

\* What holds of 0, and of n + 1 with n, up to N.
LEMMA UpTo ==
  ASSUME NEW N \in Nat, NEW S, 0 \in S, \A n \in 0..N : n \in S /\ n < N => n + 1 \in S
  PROVE  \A n \in 0..N : n \in S
<1> SUFFICES ASSUME NEW m \in 0..N, m \notin S PROVE FALSE
  OBVIOUS
<1> DEFINE Without == {0..k : k \in {k \in 0..N : k \notin S}}
<1>1. Without # {} /\ Without \subseteq FiniteSubsetsOf(Nat)
  <2>1. \A k \in 0..N : 0..k \in SUBSET Nat /\ IsFiniteSet(0..k)
    BY FS_Interval
  <2> QED
    BY <2>1 DEF FiniteSubsetsOf
<1>2. PICK x \in Without : \A y \in Without : <<y, x>> \notin StrictSubsetOrdering(Nat)
  BY <1>1, FS_StrictSubsetOrderingWellFounded, WFMin
<1>3. PICK k \in 0..N : k \notin S /\ x = 0..k
  BY <1>2
<1>4. k - 1 \in 0..N /\ k - 1 \notin S
  BY <1>3
<1>5. 0..(k - 1) \in Without
  BY <1>4
<1>6. k \in 0..k /\ k \notin 0..(k - 1) /\ 0..(k - 1) \subseteq 0..k /\ 0..k \subseteq Nat
  BY <1>4
<1>7. <<0..(k - 1), 0..k>> \in StrictSubsetOrdering(Nat)
  BY <1>6 DEF StrictSubsetOrdering
<1> QED
  BY <1>2, <1>3, <1>5, <1>7

\* A set in some order: each of its members, once.
LEMMA InSomeOrder ==
  ASSUME NEW S, IsFiniteSet(S)
  PROVE  /\ SetToSeq(S) \in Seq(S)
         /\ IsInjective(SetToSeq(S))
         /\ Range(SetToSeq(S)) = S
<1> DEFINE n == Cardinality(S)
           f == SetToSeq(S)
<1>1. n \in Nat /\ ExistsBijection(1..n, S)
  BY FS_CardinalityType
<1>2. PICK g : g \in Bijection(1..n, S)
  BY <1>1 DEF ExistsBijection
<1>3. g \in [1..n -> S] /\ IsInjective(g)
  BY <1>2 DEF Bijection, Injection
<1>4. f \in [1..n -> S] /\ IsInjective(f)
  BY <1>3 DEF SetToSeq
<1>5. f \in Injection(1..n, S)
  BY <1>4 DEF Injection
<1>6. Cardinality(1..n) = n
  BY <1>1, FS_Interval
<1>7. f \in Surjection(1..n, S)
  BY <1>5, <1>6, FS_Injection
<1>8. Range(f) = S
  BY <1>4, <1>7 DEF Range, Surjection
<1> QED
  BY <1>1, <1>4, <1>8

\* The members of two sequences, one behind the other.
LEMMA JoinedAre ==
  ASSUME NEW S, NEW s \in Seq(S), NEW t \in Seq(S)
  PROVE  /\ \A i \in DOMAIN (s \o t) :
              \/ i \in 1..Len(s) /\ (s \o t)[i] = s[i]
              \/ /\ i - Len(s) \in 1..Len(t) /\ i = Len(s) + (i - Len(s))
                 /\ (s \o t)[i] = t[i - Len(s)]
         /\ Range(s \o t) = Range(s) \cup Range(t)
<1> DEFINE st == s \o t
<1>1. /\ st \in Seq(S) /\ Len(st) = Len(s) + Len(t)
      /\ \A i \in 1..Len(s) : st[i] = s[i]
      /\ \A i \in 1..Len(t) : st[Len(s) + i] = t[i]
  OBVIOUS
<1>2. Len(s) \in Nat /\ Len(t) \in Nat
  OBVIOUS
<1>3. \A i \in DOMAIN st : \/ i \in 1..Len(s) /\ st[i] = s[i]
                           \/ /\ i - Len(s) \in 1..Len(t) /\ i = Len(s) + (i - Len(s))
                              /\ st[i] = t[i - Len(s)]
  BY <1>1, <1>2
<1> HIDE DEF st
<1>4. \A i \in 1..Len(s) : i \in DOMAIN st /\ i \in DOMAIN s
  BY <1>1, <1>2
<1>5. \A i \in 1..Len(t) : Len(s) + i \in DOMAIN st /\ i \in DOMAIN t
  BY <1>1, <1>2
<1>6. Range(st) \subseteq Range(s) \cup Range(t)
  <2> SUFFICES ASSUME NEW i \in DOMAIN st PROVE st[i] \in Range(s) \cup Range(t)
    BY DEF Range
  <2>1. CASE i \in 1..Len(s) /\ st[i] = s[i]
    BY <1>4, <2>1 DEF Range
  <2>2. CASE i - Len(s) \in 1..Len(t) /\ st[i] = t[i - Len(s)]
    BY <1>5, <2>2 DEF Range
  <2> QED
    BY <1>3, <2>1, <2>2
<1>7. Range(s) \cup Range(t) \subseteq Range(st)
  <2>1. \A i \in DOMAIN s : s[i] \in Range(st)
    BY <1>1, <1>4 DEF Range
  <2>2. \A i \in DOMAIN t : t[i] \in Range(st)
    <3>1. ASSUME NEW i \in 1..Len(t) PROVE t[i] \in Range(st)
      <4>1. st[Len(s) + i] = t[i] /\ Len(s) + i \in DOMAIN st
        BY <1>1, <1>5
      <4> QED
        BY <4>1 DEF Range
    <3>2. DOMAIN t = 1..Len(t)
      OBVIOUS
    <3> QED
      BY <3>1, <3>2
  <2> QED
    BY <2>1, <2>2 DEF Range
<1> QED
  BY <1>3, <1>6, <1>7 DEF st

\* Sequences without repetition and with nothing in common have none together.
LEMMA JoinedOnce ==
  ASSUME NEW S, NEW s \in Seq(S), NEW t \in Seq(S), IsInjective(s), IsInjective(t),
         \A x \in Range(s) : x \notin Range(t)
  PROVE  IsInjective(s \o t)
<1> DEFINE st == s \o t
<1>1. \A i \in DOMAIN st : \/ i \in 1..Len(s) /\ st[i] = s[i]
                           \/ /\ i - Len(s) \in 1..Len(t) /\ i = Len(s) + (i - Len(s))
                              /\ st[i] = t[i - Len(s)]
  BY JoinedAre
<1> HIDE DEF st
<1>2. DOMAIN s = 1..Len(s) /\ DOMAIN t = 1..Len(t)
  OBVIOUS
<1> SUFFICES ASSUME NEW a \in DOMAIN st, NEW b \in DOMAIN st, st[a] = st[b] PROVE a = b
  BY DEF IsInjective, st
<1>3. CASE a \in 1..Len(s) /\ b \in 1..Len(s) /\ st[a] = s[a] /\ st[b] = s[b]
  BY <1>2, <1>3 DEF IsInjective
<1>4. CASE /\ a - Len(s) \in 1..Len(t) /\ b - Len(s) \in 1..Len(t)
           /\ st[a] = t[a - Len(s)] /\ st[b] = t[b - Len(s)]
           /\ a = Len(s) + (a - Len(s)) /\ b = Len(s) + (b - Len(s))
  <2>1. a - Len(s) = b - Len(s)
    BY <1>2, <1>4 DEF IsInjective
  <2> QED
    BY <1>4, <2>1
<1>5. CASE a \in 1..Len(s) /\ st[a] = s[a] /\ b - Len(s) \in 1..Len(t) /\ st[b] = t[b - Len(s)]
  BY <1>2, <1>5 DEF Range
<1>6. CASE b \in 1..Len(s) /\ st[b] = s[b] /\ a - Len(s) \in 1..Len(t) /\ st[a] = t[a - Len(s)]
  BY <1>2, <1>6 DEF Range
<1> QED
  BY <1>1, <1>3, <1>4, <1>5, <1>6

\* One more rule.
Extended(n, result) == result \o ListedBy(usb.device[n], result)

\* The recursion of ResolvedBy, up to n.
Recurs(g, n) ==
  /\ g = [i \in 0..n |-> g[i]]
  /\ g[0] = ByDefault
  /\ \A i \in 1..n : g[i] = Extended(i, g[i - 1])

\* The recursion defines a function.
LEMMA Recursion ==
  ASSUME Len(usb.device) \in Nat
  PROVE  Recurs(ResolvedBy, Len(usb.device))
<1> DEFINE N == Len(usb.device)
           Rec(g) == [n \in 0..N |-> IF n = 0 THEN ByDefault
                                     ELSE LET result == g[n - 1]
                                          IN result \o ListedBy(usb.device[n], result)]
           S == {n \in 0..N : \E g : Recurs(g, n)}
<1>1. 0 \in S
  <2>1. Recurs([i \in 0..0 |-> ByDefault], 0)
    BY DEF Recurs
  <2> QED
    BY <2>1
<1>2. ASSUME NEW n \in 0..N, n \in S /\ n < N PROVE n + 1 \in S
  <2>1. PICK g : Recurs(g, n)
    BY <1>2
  <2> DEFINE h == [i \in 0..(n + 1) |-> IF i = n + 1 THEN Extended(n + 1, g[n]) ELSE g[i]]
  <2>2. h = [i \in 0..(n + 1) |-> h[i]] /\ h[0] = ByDefault
    BY <2>1 DEF Recurs
  <2>3. ASSUME NEW i \in 1..(n + 1) PROVE h[i] = Extended(i, h[i - 1])
    <3>1. CASE i = n + 1
      BY <3>1
    <3>2. CASE i # n + 1
      <4>1. i \in 1..n /\ h[i] = g[i] /\ h[i - 1] = g[i - 1]
        BY <3>2
      <4> QED
        BY <2>1, <4>1 DEF Recurs
    <3> QED
      BY <3>1, <3>2
  <2>4. Recurs(h, n + 1)
    <3> HIDE DEF h
    <3> QED
      BY <2>2, <2>3 DEF Recurs
  <2> QED
    <3> HIDE DEF h
    <3> QED
      BY <1>2, <2>4
<1>3. N \in S
  <2>1. \A n \in 0..N : n \in S /\ n < N => n + 1 \in S
    BY <1>2
  <2>2. \A n \in 0..N : n \in S
    <3> HIDE DEF S
    <3> QED
      BY <1>1, <2>1, UpTo
  <2> QED
    BY <2>2
<1>4. PICK g : Recurs(g, N)
  BY <1>3
<1>5. \E f : f = Rec(f)
  <2>1. g = [i \in 0..N |-> g[i]]
    BY <1>4 DEF Recurs
  <2>2. \A n \in 0..N : g[n] = Rec(g)[n]
    <3>1. \A n \in 0..N : n = 0 \/ n \in 1..n
      OBVIOUS
    <3>2. \A n \in 1..N : g[n] = Extended(n, g[n - 1])
      BY <1>4 DEF Recurs
    <3>3. g[0] = ByDefault
      BY <1>4 DEF Recurs
    <3>4. ASSUME NEW n \in 0..N PROVE g[n] = Rec(g)[n]
      <4>1. CASE n = 0
        BY <3>3, <4>1
      <4>2. CASE n # 0
        <5>1. n \in 1..N
          BY <4>2
        <5> QED
          BY <3>2, <4>2, <5>1 DEF Extended
      <4> QED
        BY <4>1, <4>2
    <3> QED
      BY <3>4
  <2>3. g = Rec(g)
    BY <2>1, <2>2
  <2> QED
    BY <2>3
<1>6. ResolvedBy = Rec(ResolvedBy)
  BY <1>5 DEF ResolvedBy
<1> QED
  BY <1>6 DEF Recurs, Extended

-----------------------------------------------------------------------------
\* Types of what UsbPolicy keeps; only so many devices are plugged in.
UsbTypeOK ==
  /\ usb \in Tables
  /\ plugged \subseteq Entry /\ IsFiniteSet(plugged)
  /\ fresh \in 1..(MaxAddress + 1)
  /\ at \in {"check", "shell", "prepare", "spawn", "run", "ended"}
  /\ passed \in Seq(Entry) /\ added \in Seq(Entry)
  /\ client \in {"none", "own", "late"} /\ late \subseteq SUBSET Entry
  /\ attached \subseteq Entry /\ todo \subseteq Entry
  /\ seen \in [check : SUBSET Entry, launch : SUBSET Entry]

\* The policy gives a device to the guest.
Given(d) ==
  d.id # RootHub /\ (Listed(d) \/ (usb.default = "passthrough" /\ d.id \notin usb.exclude))

GivenBy(n, d) ==
  \/ usb.default = "passthrough" /\ d.id \notin usb.exclude
  \/ \E i \in 1..n : usb.device[i].id = d.id

\* The result after n rules: the devices they and the default give, each once.
Result(n, result) ==
  /\ result \in Seq(Present)
  /\ IsInjective(result)
  /\ Range(result) = {d \in Present : GivenBy(n, d)}

\* Without rules it is what the default gives.
LEMMA DefaultResult ==
  ASSUME IsFiniteSet(plugged)
  PROVE  Result(0, ByDefault)
<1>1. CASE usb.default = "passthrough"
  <2> DEFINE ds == {d \in Present : d.id \notin usb.exclude}
  <2>1. IsFiniteSet(ds)
    BY FS_Subset DEF Present
  <2>2. ByDefault = SetToSeq(ds)
    BY <1>1 DEF ByDefault
  <2>3. ds = {d \in Present : GivenBy(0, d)}
    BY <1>1 DEF GivenBy
  <2>4. ds \subseteq Present
    OBVIOUS
  <2> HIDE DEF ds
  <2>5. ByDefault \in Seq(ds) /\ IsInjective(ByDefault) /\ Range(ByDefault) = ds
    BY <2>1, <2>2, InSomeOrder
  <2>6. ByDefault \in Seq(Present)
    BY <2>4, <2>5
  <2> QED
    BY <2>3, <2>5, <2>6 DEF Result
<1>2. CASE usb.default # "passthrough"
  <2>1. ByDefault = <<>>
    BY <1>2 DEF ByDefault
  <2>2. {d \in Present : GivenBy(0, d)} = {}
    BY <1>2 DEF GivenBy
  <2>3. <<>> \in Seq(Present) /\ DOMAIN <<>> = {}
    OBVIOUS
  <2> QED
    BY <2>1, <2>2, <2>3 DEF Result, IsInjective, Range
<1> QED
  BY <1>1, <1>2

\* One more rule adds the devices it lists that are not there yet.
LEMMA ExtendedResult ==
  ASSUME IsFiniteSet(plugged), NEW n \in Nat, NEW result, Result(n, result)
  PROVE  Result(n + 1, Extended(n + 1, result))
<1> DEFINE rule == usb.device[n + 1]
           ds == {d \in Present : d.id = rule.id /\ ~Contains(result, d)}
           more == SetToSeq(ds)
<1>1. IsFiniteSet(ds) /\ ds \subseteq Present
  BY FS_Subset DEF Present
<1>2. more \in Seq(ds) /\ IsInjective(more) /\ Range(more) = ds
  <2> HIDE DEF ds
  <2> QED
    BY <1>1, InSomeOrder
<1>3. more \in Seq(Present)
  BY <1>1, <1>2
<1>4. Extended(n + 1, result) = result \o more
  BY DEF Extended, ListedBy
<1>5. \A d : Contains(result, d) <=> d \in Range(result)
  BY DEF Contains, Range, Result
<1>6. \A d \in Range(result) : d \notin Range(more)
  BY <1>2, <1>5
<1>7. \A d : GivenBy(n + 1, d) <=> GivenBy(n, d) \/ rule.id = d.id
  BY DEF GivenBy
<1>8. Range(result) \cup Range(more) = {d \in Present : GivenBy(n + 1, d)}
  BY <1>2, <1>5, <1>7 DEF Result
<1>9. result \in Seq(Present) /\ IsInjective(result)
  BY DEF Result
<1> HIDE DEF more, ds
<1>10. /\ result \o more \in Seq(Present)
       /\ IsInjective(result \o more)
       /\ Range(result \o more) = Range(result) \cup Range(more)
  BY <1>2, <1>3, <1>6, <1>9, JoinedAre, JoinedOnce
<1> QED
  BY <1>4, <1>8, <1>10 DEF Result

\* Whatever the rules and their number, resolve returns the devices that are plugged
\* in and of the policy, each once (usb.rs:71-116).
THEOREM ResolveIs ==
  ASSUME UsbTypeOK
  PROVE  /\ Resolve \in Seq(Present)
         /\ IsInjective(Resolve)
         /\ Range(Resolve) = {d \in plugged : Given(d)}
<1> DEFINE N == Len(usb.device)
           S == {n \in 0..N : Result(n, ResolvedBy[n])}
<1>0. usb.device \in Seq(Rule) /\ N \in Nat
  BY TablesAssumption DEF UsbTypeOK, Table
<1>1. Recurs(ResolvedBy, N)
  BY <1>0, Recursion
<1>2. 0 \in S
  BY <1>0, <1>1, DefaultResult DEF Recurs, UsbTypeOK
<1>3. ASSUME NEW n \in 0..N, n \in S, n < N PROVE n + 1 \in S
  <2>1. n + 1 \in 1..N /\ n + 1 \in 0..N /\ (n + 1) - 1 = n
    BY <1>0, <1>3
  <2>2. ResolvedBy[n + 1] = Extended(n + 1, ResolvedBy[n])
    BY <1>1, <2>1 DEF Recurs
  <2>3. Result(n, ResolvedBy[n]) /\ n \in Nat
    BY <1>3
  <2>4. Result(n + 1, ResolvedBy[n + 1])
    BY <2>2, <2>3, ExtendedResult DEF UsbTypeOK
  <2> QED
    BY <2>1, <2>4
<1>4. N \in S
  <2>1. \A n \in 0..N : n \in S /\ n < N => n + 1 \in S
    BY <1>3
  <2>2. \A n \in 0..N : n \in S
    <3> HIDE DEF S
    <3> QED
      BY <1>0, <1>2, <2>1, UpTo
  <2> QED
    BY <1>0, <2>2
<1>5. Result(N, Resolve)
  BY <1>4 DEF Resolve
<1>6. \A d : GivenBy(N, d) <=> Listed(d) \/ (usb.default = "passthrough" /\ d.id \notin usb.exclude)
  BY <1>0 DEF GivenBy, Listed, Range
<1>7. {d \in Present : GivenBy(N, d)} = {d \in plugged : Given(d)}
  BY <1>6 DEF Given, Present
<1> QED
  BY <1>5, <1>7 DEF Result

-----------------------------------------------------------------------------
\* What has been seen, passed and attached agrees with how far the guest has come.
Stages ==
  /\ at \in {"check", "prepare"} => passed = <<>> /\ seen.launch = {}
  /\ at \notin {"run", "ended"} => client = "none" /\ attached = {} /\ todo = {} /\ added = <<>>
  /\ client = "none" => added = <<>>
  /\ at \notin {"check", "prepare"} => Range(passed) = {d \in seen.launch : Given(d)}

\* What the watcher is about to add is of the policy, and not attached yet; only a
\* late watcher does not count those on the command line as attached.
Scanned ==
  /\ at = "run" => Range(added) \subseteq attached
  /\ at = "run" /\ client # "late" => Range(passed) \subseteq attached
  /\ at = "run" => todo \cap attached = {}
  /\ \A d \in todo : Given(d)
  /\ \A d \in Range(added) : Given(d)

\* A guest goes beyond the check with every required device in sight only.
Checked ==
  at \in {"prepare", "spawn", "run"} /\ usb.on_missing = "rescue_shell" =>
    \A rule \in Range(usb.device) :
      rule.required => \E d \in seen.check : d.id = rule.id /\ d.id # RootHub

UInv == UsbTypeOK /\ Stages /\ Scanned /\ Checked /\ OnceEach

\* What the policy gives depends on the table only.
LEMMA GivenKept ==
  ASSUME UNCHANGED usb
  PROVE  \A d : Given(d)' <=> Given(d)
BY DEF Given, Listed

\* What one step of the launch does to the devices.
UsbStep ==
  \/ CheckRequired \/ ResolveDevices \/ Spawn \/ Connect \/ Scan \/ AddDevice
  \/ Plug \/ Unplug \/ LaunchFails \/ GuestEnds \/ AnotherGuest \/ AnotherAgent

\* Every step of the launch is one of these, or leaves the devices alone.
LEMMA LaunchIsUsbStep ==
  [LaunchNext]_launchVars => [UsbStep]_usbVars
BY DEF LaunchNext, launchVars, UsbStep, Prepare, StartServices, End, vars, usbVars

\* Addresses are numbers up to a limit, so that only finitely many devices are
\* plugged in.
LEMMA InitUsb == UsbInit => UInv
<1> SUFFICES ASSUME UsbInit PROVE UInv
  OBVIOUS
<1>1. IsFiniteSet(plugged)
  <2> DEFINE f == [d \in plugged |-> d.addr]
  <2>1. f \in [plugged -> 1..MaxAddress]
    BY DEF UsbInit, Entry
  <2>2. IsInjective(f)
    BY DEF UsbInit, IsInjective
  <2>3. f \in Injection(plugged, 1..MaxAddress)
    BY <2>1, <2>2 DEF Injection
  <2>4. IsFiniteSet(1..MaxAddress)
    BY MaxAddressAssumption, FS_Interval
  <2> HIDE DEF f
  <2> QED
    BY <2>3, <2>4, FS_Injection
<1>2. UsbTypeOK
  BY <1>1 DEF UsbInit, UsbTypeOK
<1>3. DOMAIN <<>> = {} /\ Range(<<>>) = {}
  BY DEF Range
<1>4. OnceEach
  BY <1>3 DEF UsbInit, OnceEach, IsInjective
<1>5. Stages /\ Scanned /\ Checked
  BY <1>3 DEF UsbInit, Stages, Scanned, Checked
<1> QED
  BY <1>2, <1>4, <1>5 DEF UInv

\* A guest that passes the check has every required device in sight.
LEMMA CheckRequiredKeeps == UInv /\ CheckRequired => UInv'
<1> SUFFICES ASSUME UsbTypeOK, Stages, Scanned, Checked, OnceEach, CheckRequired PROVE UInv'
  BY DEF UInv
<1> USE GivenKept DEF CheckRequired, watching
<1>1. UsbTypeOK'
  BY DEF UsbTypeOK
<1>2. Stages'
  <2>1. seen'.launch = seen.launch
    BY DEF UsbTypeOK
  <2>2. passed = <<>> /\ seen.launch = {} /\ Range(passed) = {}
    BY DEF Stages, Range
  <2> QED
    BY <2>1, <2>2 DEF Stages
<1>3. Scanned'
  BY DEF Scanned, Stages
<1>4. Checked'
  <2>1. seen'.check = plugged
    BY DEF UsbTypeOK
  <2> QED
    BY <2>1 DEF Checked, Missing, Present
<1>5. OnceEach'
  BY DEF OnceEach
<1> QED
  BY <1>1, <1>2, <1>3, <1>4, <1>5 DEF UInv

\* Those on the command line are all that the policy gives, each once.
LEMMA ResolveDevicesKeeps == UInv /\ ResolveDevices => UInv'
<1> SUFFICES ASSUME UsbTypeOK, Stages, Scanned, Checked, OnceEach, ResolveDevices PROVE UInv'
  BY DEF UInv
<1> USE GivenKept DEF ResolveDevices, watching
<1>0. /\ passed' \in Seq(Present) /\ IsInjective(passed')
      /\ Range(passed') = {d \in plugged : Given(d)}
  BY ResolveIs
<1>1. passed' \in Seq(Entry)
  BY <1>0 DEF Present, UsbTypeOK
<1>2. UsbTypeOK'
  BY <1>1 DEF UsbTypeOK
<1>3. seen'.check = seen.check /\ seen'.launch = plugged
  BY DEF UsbTypeOK
<1>4. Stages'
  BY <1>0, <1>3 DEF Stages
<1>5. Scanned'
  BY DEF Scanned, Stages
<1>6. Checked'
  BY <1>3 DEF Checked
<1>7. OnceEach'
  <2>1. added' = <<>> /\ passed' \o <<>> = passed'
    BY <1>1 DEF Stages
  <2>2. IsInjective(<<>>)
    BY DEF IsInjective
  <2> QED
    BY <1>0, <2>1, <2>2 DEF OnceEach
<1> QED
  BY <1>2, <1>4, <1>5, <1>6, <1>7 DEF UInv

\* The watcher begins with those on the command line.
LEMMA SpawnKeeps == UInv /\ Spawn => UInv'
<1> SUFFICES ASSUME UsbTypeOK, Stages, Scanned, Checked, OnceEach, Spawn PROVE UInv'
  BY DEF UInv
<1> USE GivenKept DEF Spawn
<1>1. UsbTypeOK'
  BY DEF UsbTypeOK, Range
<1>2. Stages'
  BY DEF Stages
<1>3. Range(<<>>) = {}
  BY DEF Range
<1>4. Scanned'
  BY <1>3 DEF Scanned, Stages
<1>5. Checked'
  BY DEF Checked
<1>6. OnceEach'
  BY DEF OnceEach
<1> QED
  BY <1>1, <1>2, <1>4, <1>5, <1>6 DEF UInv

\* Whoever gets the connection, nothing has been added yet; a late watcher comes
\* with its own set, and its scan begins anew.
LEMMA ConnectKeeps == UInv /\ Connect => UInv'
<1> SUFFICES ASSUME UsbTypeOK, Stages, Scanned, Checked, OnceEach, Connect PROVE UInv'
  BY DEF UInv
<1> USE GivenKept
<1>1. /\ at = "run" /\ client = "none" /\ client' \in {"own", "late"}
      /\ late' \subseteq late
      /\ UNCHANGED <<usb, plugged, fresh, at, passed, added, seen>>
  BY DEF Connect
<1>2. \/ client' = "own" /\ UNCHANGED <<attached, todo>>
      \/ client' = "late" /\ attached' \in late /\ todo' = {}
  BY DEF Connect
<1>3. UsbTypeOK'
  BY <1>1, <1>2 DEF UsbTypeOK
<1>4. added' = <<>> /\ Range(added') = {}
  BY <1>1 DEF Stages, Range
<1>5. Stages' /\ Checked'
  BY <1>1, <1>4 DEF Stages, Checked
<1>6. Scanned'
  BY <1>1, <1>2, <1>4 DEF Scanned
<1>7. OnceEach'
  BY <1>1 DEF OnceEach
<1> QED
  BY <1>3, <1>5, <1>6, <1>7 DEF UInv

\* A scan finds devices of the policy that are not attached.
LEMMA ScanKeeps == UInv /\ Scan => UInv'
<1> SUFFICES ASSUME UsbTypeOK, Stages, Scanned, Checked, OnceEach, Scan PROVE UInv'
  BY DEF UInv
<1> USE GivenKept DEF Scan
<1>0. Range(Resolve) = {d \in plugged : Given(d)}
  BY ResolveIs
<1>1. UsbTypeOK'
  BY <1>0 DEF UsbTypeOK
<1>2. Stages'
  BY DEF Stages
<1>3. Scanned'
  BY <1>0 DEF Scanned
<1>4. Checked'
  BY DEF Checked
<1>5. OnceEach'
  BY DEF OnceEach
<1> QED
  BY <1>1, <1>2, <1>3, <1>4, <1>5 DEF UInv

\* A device that is added was not attached, so that it comes once.
LEMMA AddDeviceKeeps == UInv /\ AddDevice => UInv'
<1> SUFFICES ASSUME UsbTypeOK, Stages, Scanned, Checked, OnceEach, AddDevice PROVE UInv'
  BY DEF UInv
<1>0. /\ at = "run" /\ UNCHANGED <<usb, plugged, fresh, at, passed, client, late, seen>>
  BY DEF AddDevice
<1>1. PICK d \in todo : /\ todo' = todo \ {d}
                        /\ \/ /\ client # "none"
                              /\ attached' = attached \cup {d} /\ added' = Append(added, d)
                           \/ UNCHANGED <<attached, added>>
  BY DEF AddDevice
<1>2. Stages' /\ Checked'
  BY <1>0, <1>1, GivenKept DEF Stages, Checked
<1>3. CASE UNCHANGED <<attached, added>>
  <2>1. UsbTypeOK'
    BY <1>0, <1>1, <1>3 DEF UsbTypeOK
  <2>2. Scanned'
    BY <1>0, <1>1, <1>3, GivenKept DEF Scanned
  <2>3. OnceEach'
    BY <1>0, <1>3 DEF OnceEach
  <2> QED
    BY <1>2, <2>1, <2>2, <2>3 DEF UInv
<1>4. CASE attached' = attached \cup {d} /\ added' = Append(added, d)
  <2>1. d \in Entry /\ added \in Seq(Entry) /\ passed \in Seq(Entry)
    BY DEF UsbTypeOK
  <2>2. UsbTypeOK'
    BY <1>0, <1>1, <1>4, <2>1 DEF UsbTypeOK
  <2>3. Range(added') = Range(added) \cup {d}
    BY <1>4, <2>1 DEF Range
  <2>4. Scanned'
    BY <1>0, <1>1, <1>4, <2>3, GivenKept DEF Scanned
  <2>5. IsInjective(<<d>>) /\ Range(<<d>>) = {d} /\ <<d>> \in Seq(Entry)
    BY <2>1 DEF IsInjective, Range
  <2>6. d \notin attached /\ Range(added) \subseteq attached
    BY <1>0, <1>1 DEF Scanned
  <2>7. IsInjective(passed') /\ IsInjective(added')
    <3>1. IsInjective(passed) /\ IsInjective(added) /\ added' = added \o <<d>>
      BY <1>4, <2>1 DEF OnceEach
    <3> QED
      BY <1>0, <2>1, <2>5, <2>6, <3>1, JoinedOnce
  <2>8. ASSUME client # "late" PROVE IsInjective(passed' \o added')
    <3>1. passed \o added \in Seq(Entry) /\ passed' \o added' = (passed \o added) \o <<d>>
      BY <1>0, <1>4, <2>1
    <3>2. IsInjective(passed \o added)
      BY <2>8 DEF OnceEach
    <3>3. Range(passed \o added) \subseteq attached
      <4>1. Range(passed \o added) = Range(passed) \cup Range(added)
        BY <2>1, JoinedAre
      <4> QED
        BY <1>0, <2>8, <4>1 DEF Scanned
    <3> QED
      BY <2>5, <2>6, <3>1, <3>2, <3>3, JoinedOnce
  <2>9. OnceEach'
    BY <1>0, <2>7, <2>8 DEF OnceEach
  <2> QED
    BY <1>2, <2>2, <2>4, <2>9 DEF UInv
<1> QED
  BY <1>1, <1>3, <1>4

\* Devices that come and go are no concern of the books.
LEMMA BusKeeps == UInv /\ (Plug \/ Unplug) => UInv'
<1> SUFFICES ASSUME UsbTypeOK, Stages, Scanned, Checked, OnceEach, Plug \/ Unplug PROVE UInv'
  BY DEF UInv
<1>1. UNCHANGED <<usb, at, passed, client, late, attached, todo, added, seen>>
  BY DEF Plug, Unplug, watching
<1>2. /\ plugged' \subseteq Entry /\ IsFiniteSet(plugged')
      /\ fresh' \in 1..(MaxAddress + 1)
  <2>1. CASE Plug
    <3>1. PICK id \in Ids : plugged' = plugged \cup {[id |-> id, addr |-> fresh]}
      BY <2>1 DEF Plug
    <3>2. fresh \in 1..MaxAddress /\ fresh' \in 1..(MaxAddress + 1)
      BY <2>1, MaxAddressAssumption DEF Plug, UsbTypeOK
    <3>3. IsFiniteSet(plugged')
      BY <3>1, FS_AddElement DEF UsbTypeOK
    <3> QED
      BY <3>1, <3>2, <3>3 DEF UsbTypeOK, Entry
  <2>2. CASE Unplug
    <3>1. PICK d \in plugged : plugged' = plugged \ {d}
      BY <2>2 DEF Unplug
    <3>2. IsFiniteSet(plugged')
      BY <3>1, FS_RemoveElement DEF UsbTypeOK
    <3> QED
      BY <2>2, <3>1, <3>2 DEF UsbTypeOK, Unplug
  <2> QED
    BY <2>1, <2>2
<1>3. UsbTypeOK'
  BY <1>1, <1>2 DEF UsbTypeOK
<1>4. Stages' /\ Scanned' /\ Checked' /\ OnceEach'
  BY <1>1, GivenKept DEF Stages, Scanned, Checked, OnceEach
<1> QED
  BY <1>3, <1>4 DEF UInv

\* The end of a guest, or of the attempt to launch it, leaves the books as they are.
LEMMA EndKeeps == UInv /\ (GuestEnds \/ LaunchFails) => UInv'
<1> SUFFICES ASSUME UsbTypeOK, Stages, Scanned, Checked, OnceEach, GuestEnds \/ LaunchFails PROVE UInv'
  BY DEF UInv
<1>1. /\ UNCHANGED <<usb, plugged, fresh, passed, client, late, attached, todo, added, seen>>
      /\ \/ at = "run" /\ at' = "ended"
         \/ at = "spawn" /\ at' = "shell"
  BY DEF GuestEnds, LaunchFails, watching
<1>2. UsbTypeOK'
  BY <1>1 DEF UsbTypeOK
<1>3. Stages' /\ Scanned' /\ Checked' /\ OnceEach'
  BY <1>1, GivenKept DEF Stages, Scanned, Checked, OnceEach
<1> QED
  BY <1>2, <1>3 DEF UInv

\* The next guest begins with clean books, whatever watchers are left.
LEMMA NextGuestKeeps == UInv /\ (AnotherGuest \/ AnotherAgent) => UInv'
<1> SUFFICES ASSUME UsbTypeOK, Stages, Scanned, Checked, OnceEach, AnotherGuest \/ AnotherAgent
             PROVE  UInv'
  BY DEF UInv
<1>1. NextGuest
  BY DEF AnotherGuest, AnotherAgent
<1>2. late' \subseteq SUBSET Entry
  <2>1. CASE AnotherAgent
    BY <2>1 DEF AnotherAgent
  <2>2. CASE AnotherGuest
    <3>1. Range(passed) \subseteq Entry
      BY DEF UsbTypeOK, Range
    <3> QED
      BY <2>2, <3>1 DEF AnotherGuest, KeepLate, UsbTypeOK
  <2> QED
    BY <2>1, <2>2
<1>3. Range(<<>>) = {} /\ <<>> \o <<>> = <<>> /\ DOMAIN <<>> = {}
  BY DEF Range
<1>4. UsbTypeOK'
  BY <1>1, <1>2 DEF UsbTypeOK, NextGuest
<1>5. Stages' /\ Scanned' /\ Checked'
  BY <1>1, <1>3 DEF NextGuest, Stages, Scanned, Checked
<1>6. OnceEach'
  BY <1>1, <1>3 DEF NextGuest, OnceEach, IsInjective
<1> QED
  BY <1>4, <1>5, <1>6 DEF UInv

\* So the invariant of the devices holds throughout.
LEMMA UsbKept == LaunchSpec => []UInv
<1>1. LaunchInit => UInv
  BY InitUsb DEF LaunchInit
<1>2. UInv /\ [LaunchNext]_launchVars => UInv'
  <2> SUFFICES ASSUME UInv, [UsbStep]_usbVars PROVE UInv'
    BY LaunchIsUsbStep
  <2>1. CASE UNCHANGED usbVars
    BY <2>1, GivenKept DEF usbVars, UInv, UsbTypeOK, Stages, Scanned, Checked, OnceEach
  <2> QED
    BY <2>1, CheckRequiredKeeps, ResolveDevicesKeeps, SpawnKeeps, ConnectKeeps, ScanKeeps,
       AddDeviceKeeps, BusKeeps, EndKeeps, NextGuestKeeps DEF UsbStep
<1> QED
  BY <1>1, <1>2, PTL DEF LaunchSpec

\* However rules repeat and override each other, and whatever is plugged in and
\* out, a guest that is launched has every required device but those pulled out
\* since the check (main.rs:212-254, usb.rs:118-143).
THEOREM RequiredIsPassed == LaunchSpec => []RequiredReaches
<1>1. UInv => RequiredReaches
  <2> SUFFICES ASSUME UInv, at \in {"spawn", "run"}, usb.on_missing = "rescue_shell",
                      NEW rule \in Range(usb.device), rule.required
               PROVE  \E d \in Range(passed) \cup (seen.check \ seen.launch) : d.id = rule.id
    BY DEF RequiredReaches
  <2>1. PICK d \in seen.check : d.id = rule.id /\ d.id # RootHub
    BY DEF UInv, Checked
  <2>2. Given(d)
    BY <2>1 DEF Given, Listed
  <2>3. d \in seen.launch => d \in Range(passed)
    BY <2>2 DEF UInv, Stages
  <2> QED
    BY <2>1, <2>3
<1> QED
  BY UsbKept, <1>1, PTL

\* Whatever the table, and however many watchers of ended guests are left, no device
\* goes to QEMU twice but through one of these watchers, and then only one that was
\* on the command line (usb.rs:96-113, main.rs:344-371).
THEOREM GivenOnce == LaunchSpec => []OnceEach
BY UsbKept, PTL DEF UInv

\* Whatever the table, the guest has what the policy gives and nothing else, and of
\* devices that look the same all (usb.rs:71-116).
THEOREM PolicyHolds == LaunchSpec => []PolicyKept
<1>1. UInv => PolicyKept
  <2> SUFFICES ASSUME UsbTypeOK, Stages, Scanned PROVE PolicyKept
    BY DEF UInv
  <2>1. Range(<<>>) = {}
    BY DEF Range
  <2>2. Range(passed \o added) = Range(passed) \cup Range(added)
    BY JoinedAre DEF UsbTypeOK
  <2>3. \A d \in Range(passed) \cup Range(added) : Given(d)
    BY <2>1 DEF Stages, Scanned, UsbTypeOK
  <2>4. ASSUME NEW d \in Range(passed), NEW e \in seen.launch, e.id = d.id
        PROVE  e \in Range(passed)
    <3>1. Given(e)
      BY <2>3, <2>4 DEF Given, Listed
    <3> QED
      BY <2>1, <2>4, <3>1 DEF Stages, UsbTypeOK
  <2> QED
    BY <2>2, <2>3, <2>4 DEF PolicyKept, Given
<1> QED
  BY UsbKept, <1>1, PTL

-----------------------------------------------------------------------------
(***************************************************************************)
(* Both.                                                                   *)
(***************************************************************************)

\* A launch keeps to the order of start() and of Drop, whatever happens to the
\* devices meanwhile (main.rs:212-333): it implements RuntimeServices, so that the
\* theorems above hold of it.
THEOREM LaunchKeepsServices == LaunchSpec => Spec
<1>1. LaunchInit => Init
  BY DEF LaunchInit
<1>2. [LaunchNext]_launchVars => [Next]_vars
  BY DEF LaunchNext, launchVars, Prepare, StartServices, End, Next
<1> QED
  BY <1>1, <1>2, PTL DEF LaunchSpec, Spec

=============================================================================
