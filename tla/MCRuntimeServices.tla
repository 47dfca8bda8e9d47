-------------------------- MODULE MCRuntimeServices --------------------------
(***************************************************************************)
(* Configurations for checking Launch: Samba's shares vary, or the other   *)
(* services do, both on a host without USB devices; or the devices and     *)
(* their rules vary, without services.                                     *)
(***************************************************************************)
EXTENDS Launch, TLC

\* Every way two shares can be in and out of scope, share a user, and have equal,
\* different or no passwords.
SharesVary ==
  {[virtiofs |-> FALSE, pipewire |-> FALSE, docs |-> FALSE, macvtap |-> FALSE,
    scope |-> scope, user |-> user, password |-> password] :
     scope \in [Shares -> {"disabled", "vm_only", "global", "misspelt"}],
     user \in [Shares -> Users], password \in [Shares -> Passwords \cup {Empty}]}

\* The other services, the ones beside virtiofs together, without shares.
NoShares == {c \in SharesVary : \A s, t \in Shares : /\ c.scope[s] = "disabled" /\ c.user[s] = c.user[t]
                                                     /\ c.password[s] = c.password[t] /\ c.password[s] # Empty}
OthersVary ==
  {[c EXCEPT !.virtiofs = v, !.pipewire = p, !.docs = p, !.macvtap = m] :
     c \in NoShares, v \in BOOLEAN, p \in BOOLEAN, m \in BOOLEAN}

MCConfigs == SharesVary \cup OthersVary

\* No rules for USB devices; on_missing tells the two groups above apart.
NoRules(on_missing) ==
  [default |-> "passthrough", exclude |-> {}, device |-> <<>>, hotplug |-> FALSE, on_missing |-> on_missing]
Bare == {NoRules("boot_anyway"), NoRules("rescue_shell")}

Keyboard(required) == [id |-> "keyboard", required |-> required]
Camera             == [id |-> "camera", required |-> TRUE]
Misspelt           == [id |-> Unknown, required |-> TRUE]

Twice == <<Keyboard(FALSE), Keyboard(TRUE)>>

MCTables ==
  {[default |-> t[1], exclude |-> t[2], device |-> t[3], hotplug |-> TRUE, on_missing |-> "rescue_shell"] :
     t \in {<<"passthrough", {}, Twice>>,
            <<"passthrough", {"keyboard", Unknown}, <<Keyboard(TRUE), Camera>>>>,
            <<"passthrough", {"keyboard"}, <<>>>>,
            <<"host-only", {}, Twice>>}}
  \cup [default : {"host-only"}, exclude : {{"camera"}}, device : {<<Misspelt>>, <<Keyboard(TRUE)>>},
        hotplug : {FALSE}, on_missing : {"boot_anyway"}]
  \cup [default : {"passthrough"}, exclude : {{}}, device : {<<Misspelt>>},
        hotplug : {FALSE}, on_missing : {"rescue_shell"}]
  \cup Bare

MCTogether ==
  [t \in MCTables \ Bare |-> NoShares]
    @@ NoRules("boot_anyway") :> SharesVary @@ NoRules("rescue_shell") :> OthersVary

MCInit ==
  /\ LaunchInit
  /\ IF usb \in Bare THEN plugged = {} /\ fresh > MaxAddress
     ELSE {d.addr : d \in plugged} = 1..(fresh - 1)

MCSpec == MCInit /\ [][LaunchNext]_launchVars

MCSymmetry == Permutations(Shares) \cup Permutations(Users) \cup Permutations(Passwords)

=============================================================================
