--------------------------- MODULE RuntimeServices ---------------------------
(***************************************************************************)
(* The host services a VM needs (agent/src/services.rs): RuntimeServices   *)
(* starts them one after another, any of them may fail, and one owner      *)
(* kills them again, on failure as on the end of the guest.  Each agent    *)
(* process is an incarnation; one that dies without unwinding leaves what  *)
(* it started to the next, and so do the operations whose failure the code *)
(* ignores.                                                                *)
(***************************************************************************)
EXTENDS Naturals, FiniteSets

CONSTANTS
  Shares,     \* configured [[smb_share]] entries
  Users,      \* SMB user names
  Passwords,  \* contents of password files
  Empty,      \* the contents of an empty or unreadable password file
  Configs,    \* configurations the agents may be given
  MaxAgents,  \* agent processes started
  MaxLapses   \* occasions on which something may be left behind

Daemons == {"virtiofsd", "pipewire", "pulse", "dnsmasq", "httpd", "smbd_vm", "smbd_lan"}

\* What start() reads of the configuration.  A share's scope may be misspelt.
Config ==
  [ virtiofs : BOOLEAN, pipewire : BOOLEAN, docs : BOOLEAN, macvtap : BOOLEAN,
    scope    : [Shares -> {"disabled", "vm_only", "global", "misspelt"}],
    user     : [Shares -> Users],
    password : [Shares -> Passwords \cup {Empty}] ]

ASSUME MaxAgentsAssumption == MaxAgents \in Nat \ {0}
ASSUME MaxLapsesAssumption == MaxLapses \in Nat
ASSUME EmptyAssumption     == Empty \notin Passwords
ASSUME ConfigsAssumption   == Configs \subseteq Config

VARIABLES
  cfg,
  agent,      \* number of the agent process
  stage,      \* the service start() is about to start, or how it ended
  children,   \* daemons in RuntimeServices.children, alive or dead
  alive,      \* alive[d]: agents whose daemon d still runs
  virtiofs,   \* is RuntimeServices.virtiofs Some?
  macvtap,    \* is RuntimeServices.macvtap Some?
  socket,     \* does the virtiofs socket exist?
  links,      \* agents whose macvtap interface exists
  account,    \* account[u]: the SMB password of u, or Empty
  serves,     \* serves[d]: the shares in the configuration smbd d runs with
  lapses      \* history: which agent let go of something, and on what occasion

vars == <<cfg, agent, stage, children, alive, virtiofs, macvtap, socket, links, account, serves, lapses>>

owner == <<children, virtiofs, macvtap>>
world == <<alive, socket, links>>
samba == <<account, serves>>

\* A daemon that was started and could not be inspected; an interface that was
\* created and could not be deleted when a later step failed; an operation of
\* Drop that failed; the death of an agent that owned something.
Occasions == {"inspection", "cleanup", "drop", "death"}

TypeOK ==
  /\ cfg \in Configs
  /\ agent \in 1..MaxAgents
  /\ stage \in Daemons \cup {"accounts", "macvtap", "up", "error", "failed", "stopped"}
  /\ children \subseteq Daemons
  /\ alive \in [Daemons -> SUBSET (1..MaxAgents)]
  /\ virtiofs \in BOOLEAN
  /\ macvtap \in BOOLEAN
  /\ socket \in BOOLEAN
  /\ links \subseteq 1..MaxAgents
  /\ account \in [Users -> Passwords \cup {Empty}]
  /\ serves \in [{"smbd_vm", "smbd_lan"} -> SUBSET Shares]
  /\ lapses \subseteq (1..MaxAgents) \X Occasions

Init ==
  /\ cfg \in Configs
  /\ agent = 1
  /\ stage = "virtiofsd"
  /\ children = {}
  /\ alive = [d \in Daemons |-> {}]
  /\ virtiofs = FALSE
  /\ macvtap = FALSE
  /\ socket = FALSE
  /\ links = {}
  /\ account = [u \in Users |-> Empty]
  /\ serves = [d \in {"smbd_vm", "smbd_lan"} |-> {}]
  /\ lapses = {}

-----------------------------------------------------------------------------
(***************************************************************************)
(* The order of start().                                                   *)
(***************************************************************************)

\* Seeded defect: the guest-facing smbd is not started when there is a LAN one.
FollowingAccounts ==
  [ virtiofsd |-> "pipewire", pipewire |-> "pulse", pulse |-> "dnsmasq",
    dnsmasq |-> "httpd", httpd |-> "accounts",
    accounts |-> IF \E share \in Shares : cfg.scope[share] = "global" THEN "smbd_lan" ELSE "smbd_vm",
    smbd_vm |-> "smbd_lan", smbd_lan |-> "macvtap", macvtap |-> "up" ]

Following ==
  [ virtiofsd |-> "pipewire", pipewire |-> "pulse", pulse |-> "dnsmasq",
    dnsmasq |-> "httpd", httpd |-> "accounts", accounts |-> "smbd_vm",
    smbd_vm |-> "smbd_lan", smbd_lan |-> "macvtap", macvtap |-> "up" ]

Enabled(share) == cfg.scope[share] # "disabled"
InScope(name)  == {share \in Shares : cfg.scope[share] = name}
ScopeOf        == [smbd_vm |-> InScope("vm_only"), smbd_lan |-> InScope("global")]

Wanted(s) ==
  CASE s = "virtiofsd"              -> cfg.virtiofs
    [] s \in {"pipewire", "pulse"}  -> cfg.pipewire
    [] s \in {"dnsmasq", "httpd"}   -> cfg.docs
    [] s = "accounts"               -> \E share \in Shares : Enabled(share)
    [] s \in {"smbd_vm", "smbd_lan"} -> ScopeOf[s] # {}
    [] s = "macvtap"                -> cfg.macvtap

\* A service the configuration does not ask for is passed over.
Skip ==
  /\ stage \in DOMAIN Following
  /\ ~Wanted(stage)
  /\ stage' = Following[stage]
  /\ UNCHANGED <<cfg, agent, owner, world, samba, lapses>>

-----------------------------------------------------------------------------
(***************************************************************************)
(* Giving up what has been started.                                        *)
(***************************************************************************)

Lapse(occasion) ==
  /\ Cardinality(lapses) < MaxLapses
  /\ lapses' = lapses \cup {<<agent, occasion>>}

Kill(ds) == [d \in Daemons |-> IF d \in ds THEN alive[d] \ {agent} ELSE alive[d]]

\* Seeded defect: the `?` of start() leaks the services started so far.
DropNothing ==
  /\ children' = {} /\ virtiofs' = FALSE /\ macvtap' = FALSE
  /\ UNCHANGED <<world, lapses>>

\* Drop: kill each child and wait for its end, remove the socket, whoever made it,
\* and the interface if start_macvtap has returned one.  Every failure on the way
\* is ignored, and what it concerns stays.
Drop ==
  LET mine == IF macvtap THEN {agent} ELSE {}
  IN /\ children' = {} /\ virtiofs' = FALSE /\ macvtap' = FALSE
     /\ \/ /\ alive' = Kill(children) /\ socket' = FALSE /\ links' = links \ mine
           /\ UNCHANGED lapses
        \/ /\ \E gone \in SUBSET children : alive' = Kill(gone)
           /\ socket' \in {FALSE, socket}
           /\ links' \in {links \ mine, links}
           /\ socket' \/ links' # links \ mine \/ alive' # Kill(children)
           /\ Lapse("drop")

\* An error has left start(), and the half-built value goes out of scope.
Fail ==
  /\ stage = "error"
  /\ Drop
  /\ stage' = "failed"
  /\ UNCHANGED <<cfg, agent, samba>>

-----------------------------------------------------------------------------
(***************************************************************************)
(* The services one by one.                                                *)
(***************************************************************************)

\* start_smb_scope writes the configuration of one smbd from its shares.
Configured(d) ==
  IF d \in DOMAIN serves THEN [serves EXCEPT ![d] = ScopeOf[d]] ELSE serves

Started == alive' = [alive EXCEPT ![stage] = @ \cup {agent}]

\* spawn_checked: the daemon has survived its first 100 ms and is handed to the
\* owner.  Before virtiofsd a socket that is there is removed; nobody looks
\* whether virtiofsd has made its own when QEMU is given the path.
StartDaemon ==
  /\ stage \in Daemons
  /\ Wanted(stage)
  /\ children' = children \cup {stage}
  /\ Started
  /\ virtiofs' = (virtiofs \/ stage = "virtiofsd")
  /\ socket' = (socket /\ stage # "virtiofsd")
  /\ serves' = Configured(stage)
  /\ stage' = Following[stage]
  /\ UNCHANGED <<cfg, agent, macvtap, links, account, lapses>>

\* The storage or the address cannot be resolved, the socket not removed, the
\* daemon not started; or it is gone within 100 ms; or try_wait fails and the
\* daemon, handed to nobody, runs on.  An smbd's configuration may have been
\* written, and virtiofsd's socket removed or made.
DaemonFails ==
  /\ stage \in Daemons
  /\ Wanted(stage)
  /\ \/ UNCHANGED <<alive, lapses>> /\ serves' \in {serves, Configured(stage)}
     \/ Started /\ Lapse("inspection") /\ serves' = Configured(stage)
  /\ socket' \in (IF stage = "virtiofsd" THEN BOOLEAN ELSE {socket})
  /\ stage' = "error"
  /\ UNCHANGED <<cfg, agent, owner, links, account>>

\* Seeded defect: the passwords of different shares are not compared.
SharesAcceptableEach ==
  /\ \A share \in Shares : cfg.scope[share] # "misspelt"
  /\ \A share \in Shares : Enabled(share) => cfg.password[share] # Empty

\* start_smb, before any smbd: every enabled share is checked, the passwords
\* are collected per user, and only then are the accounts set.
SharesAcceptable ==
  /\ \A share \in Shares : cfg.scope[share] # "misspelt"
  /\ \A share \in Shares : Enabled(share) => cfg.password[share] # Empty
  /\ \A s, t \in Shares : Enabled(s) /\ Enabled(t) /\ cfg.user[s] = cfg.user[t]
                            => cfg.password[s] = cfg.password[t]

SharesUsers == {cfg.user[share] : share \in {s \in Shares : Enabled(s)}}

PasswordOf(u) ==
  CHOOSE p \in Passwords \cup {Empty} :
    \E share \in Shares : Enabled(share) /\ cfg.user[share] = u /\ cfg.password[share] = p

SetAccounts(us) == [u \in Users |-> IF u \in us THEN PasswordOf(u) ELSE account[u]]

EnsureAccounts ==
  /\ stage = "accounts"
  /\ Wanted(stage)
  /\ SharesAcceptable
  /\ account' = SetAccounts(SharesUsers)
  /\ stage' = Following[stage]
  /\ UNCHANGED <<cfg, agent, owner, world, serves, lapses>>

\* The shares are refused, or adduser or smbpasswd fails for one of the users,
\* after some of the others have their password.
AccountsFail ==
  /\ stage = "accounts"
  /\ Wanted(stage)
  /\ \/ account' = account
     \/ /\ SharesAcceptable
        /\ \E done \in SUBSET SharesUsers :
             done # SharesUsers /\ account' = SetAccounts(done)
  /\ stage' = "error"
  /\ UNCHANGED <<cfg, agent, owner, world, serves, lapses>>

\* start_macvtap: the interface, named after the process, is created, brought up
\* and its tap opened.
StartMacvtap ==
  /\ stage = "macvtap"
  /\ Wanted(stage)
  /\ agent \notin links
  /\ links' = links \cup {agent}
  /\ macvtap' = TRUE
  /\ stage' = "up"
  /\ UNCHANGED <<cfg, agent, children, alive, virtiofs, socket, samba, lapses>>

\* It cannot be created, as when one of that name was left; or a later step fails,
\* and it is deleted again; or that fails as well.
MacvtapFails ==
  /\ stage = "macvtap"
  /\ Wanted(stage)
  /\ \/ UNCHANGED <<links, lapses>>
     \/ agent \notin links /\ links' = links \cup {agent} /\ Lapse("cleanup")
  /\ stage' = "error"
  /\ UNCHANGED <<cfg, agent, owner, alive, socket, samba>>

-----------------------------------------------------------------------------
\* The guest has ended, or could not be started: the owner goes out of scope.
Stop ==
  /\ stage = "up"
  /\ Drop
  /\ stage' = "stopped"
  /\ UNCHANGED <<cfg, agent, samba>>

\* A later VM of the same agent; its configuration is the same.
StartAgain ==
  /\ stage = "stopped"
  /\ stage' = "virtiofsd"
  /\ UNCHANGED <<cfg, agent, owner, world, samba, lapses>>

\* A daemon ends on its own; nobody looks at it again before the Drop.
DaemonDies ==
  \E d \in Daemons : \E a \in alive[d] :
    /\ alive' = [alive EXCEPT ![d] = @ \ {a}]
    /\ UNCHANGED <<cfg, agent, stage, owner, socket, links, samba, lapses>>

\* A virtiofsd makes its socket when it is ready, and in the meantime nobody waits.
Listen ==
  /\ alive["virtiofsd"] # {} /\ ~socket
  /\ socket' = TRUE
  /\ UNCHANGED <<cfg, agent, stage, owner, alive, links, samba, lapses>>

\* The agent ends in the rescue shell, or dies without unwinding, wherever it is;
\* init starts the next one, which may read another configuration.
NextAgent ==
  /\ agent < MaxAgents
  /\ IF children = {} /\ ~macvtap THEN UNCHANGED lapses ELSE Lapse("death")
  /\ agent' = agent + 1
  /\ cfg' \in Configs
  /\ stage' = "virtiofsd"
  /\ children' = {} /\ virtiofs' = FALSE /\ macvtap' = FALSE
  /\ UNCHANGED <<world, samba>>

Next ==
  \/ Skip \/ StartDaemon \/ DaemonFails
  \/ EnsureAccounts \/ AccountsFail
  \/ StartMacvtap \/ MacvtapFails
  \/ Fail \/ Stop \/ StartAgain
  \/ DaemonDies \/ Listen \/ NextAgent

Spec == Init /\ [][Next]_vars

-----------------------------------------------------------------------------
(***************************************************************************)
(* Properties.                                                             *)
(***************************************************************************)

Lapsed(a, occasions) == \E o \in occasions : <<a, o>> \in lapses

\* "Keeping them in one owner prevents a crashed/restarted guest from leaving
\* stale ... instances behind" (services.rs:35-37).  Wherever start() fails and
\* however often guests end and agents follow each other, a daemon that runs and an
\* interface that exists are the current owner's, or their agent is known to have
\* let go of them: it died with them, or one of the operations failed whose
\* failure the code cannot mend (services.rs:322-326, 360-371, 381-383).  After a
\* Drop the owner has nothing, and the socket is there for no other reason either.
NothingLeftBehind ==
  /\ \A d \in Daemons : \A a \in alive[d] :
       (a = agent /\ d \in children) \/ Lapsed(a, {"inspection", "drop", "death"})
  /\ \A a \in links : (a = agent /\ macvtap) \/ Lapsed(a, {"cleanup", "drop", "death"})
  /\ stage \in {"failed", "stopped"} =>
       /\ children = {} /\ ~macvtap
       /\ socket => \E a \in 1..agent : Lapsed(a, {"inspection", "drop", "death"})

\* start() returns Ok only after it has started every service the configuration
\* asks for, and none besides, each having lived through its inspection; QEMU is
\* told of virtiofs and of the tap exactly when they were configured, and then the
\* interface is there (services.rs:45-74).  A daemon that dies later is still
\* owned, and no one restarts it.
ReadyIsComplete ==
  stage = "up" =>
    /\ children = {d \in Daemons : Wanted(d)}
    /\ virtiofs = cfg.virtiofs
    /\ macvtap = cfg.macvtap /\ (macvtap => agent \in links)

\* A share that is served has an account with the password of its own file:
\* shares of one user cannot overwrite each other's password, and no share is
\* served with an empty one (services.rs:211-241).
AccountsMatch ==
  \A d \in DOMAIN serves : agent \in alive[d] =>
    \A share \in serves[d] :
      account[cfg.user[share]] = cfg.password[share] /\ cfg.password[share] # Empty
=============================================================================
