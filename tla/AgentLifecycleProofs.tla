------------------------ MODULE AgentLifecycleProofs ------------------------
(***************************************************************************)
(* Proofs about AgentLifecycle for every restart limit and every number of *)
(* faults.  Accounting is the inductive invariant; the crash-loop bound,   *)
(* the ownership of the services, the place of the shutdown hook and the   *)
(* refinement of Appliance follow from it.                                 *)
(***************************************************************************)
EXTENDS AgentLifecycle, TLAPS

\* The restart limit of a configuration is a number within the bound.
LEMMA ConfigFields ==
  ASSUME NEW c \in Config
  PROVE  /\ c.maxRestarts \in Nat
         /\ c.maxRestarts <= MaxRestarts
  BY MaxRestartsAssumption DEF Config

\* The counters of a well-typed state are numbers, and 0 is in their ranges.
LEMMA Ranges ==
  /\ 0 \in 0..(MaxRestarts + 1) /\ 0 \in 0..MaxFaults
  /\ MaxRestarts \in Nat /\ MaxFaults \in Nat
  /\ TypeOK => /\ cfg.maxRestarts \in Nat /\ cfg.maxRestarts <= MaxRestarts
               /\ attempts \in Nat /\ launches \in Nat /\ faults \in Nat
  BY MaxRestartsAssumption, MaxFaultsAssumption, ConfigFields DEF TypeOK

\* The agent starts with nothing launched, owned or counted.
LEMMA InitAccounting == Init => Accounting
  <1> SUFFICES ASSUME Init PROVE Accounting
    OBVIOUS
  <1>1. TypeOK
    BY Ranges DEF Init, TypeOK, Places, Preparing, AfterVm
  <1>2. Ownership
    BY DEF Init, Ownership, ServicesLiveWithGuest
  <1>3. CrashAccount
    BY <1>1, Ranges DEF Init, CrashAccount, CrashLoopBound, Preparing, AfterVm
  <1>4. HookAccount
    BY DEF Init, HookAccount
  <1> QED
    BY <1>1, <1>2, <1>3, <1>4 DEF Accounting

\* Preparing a VM goes on, or returns with the services dropped.
LEMMA PreparingTyped ==
  ASSUME TypeOK, NEW p \in Places, ReturnFatal \/ Continue(p),
         UNCHANGED <<cfg, attempts, console, stale, logFull, faults, lapses, historyVars>>
  PROVE  TypeOK'
  <1>1. pc' \in Places
    <2>1. "decide" \in Places
      BY DEF Places, AfterVm
    <2> QED
      BY <2>1 DEF ReturnFatal, Continue, Goto
  <1>2. /\ services' \in BOOLEAN /\ orphan' \in BOOLEAN
        /\ guest' \in {"none", "running", "success", "failure"}
        /\ outcome' \in {"none", "clean", "crashed", "fatal"}
    BY DEF ReturnFatal, Continue, TypeOK
  <1> QED
    BY <1>1, <1>2 DEF TypeOK, historyVars

\* Each step keeps the types; the account keeps the counters in range.
LEMMA StepType == Accounting /\ [Next]_vars => TypeOK'
  <1> SUFFICES ASSUME Accounting, [Next]_vars PROVE TypeOK'
    OBVIOUS
  <1> USE Ranges DEF Accounting, TypeOK, CrashAccount,
          Places, Preparing, AfterVm, vars, agentVars, hostVars, historyVars, Goto
  <1>1. CASE LoadConfig  BY <1>1 DEF LoadConfig
  <1>2. CASE InitLogging  BY <1>2 DEF InitLogging
  <1>3. CASE StartupHook  BY <1>3 DEF StartupHook
  <1>4. CASE CheckUsb  BY <1>4, PreparingTyped DEF CheckUsb
  <1>5. CASE ResolveDisk  BY <1>5, PreparingTyped DEF ResolveDisk
  <1>6. CASE StartServices
    <2>1. CASE ReturnFatal  BY <1>6, <2>1, PreparingTyped DEF StartServices
    <2>2. CASE ~ReturnFatal  BY <1>6, <2>2 DEF StartServices
    <2> QED  BY <2>1, <2>2
  <1>7. CASE BuildArgs  BY <1>7, PreparingTyped DEF BuildArgs
  <1>8. CASE SpawnQemu
    <2>1. launches' \in 0..(MaxRestarts + 1)  BY <1>8 DEF SpawnQemu, ReturnFatal
    <2>2. orphan' \in BOOLEAN  BY <1>8 DEF SpawnQemu, ReturnFatal
    <2> QED BY <1>8, <2>1, <2>2 DEF SpawnQemu, ReturnFatal
  <1>9. CASE ReapGuest  BY <1>9 DEF ReapGuest
  <1>10. CASE ShutdownHook  BY <1>10 DEF ShutdownHook
  <1>11. CASE ReturnResult  BY <1>11 DEF ReturnResult
  <1>12. CASE ActOnClean  BY <1>12 DEF ActOnClean
  <1>13. CASE ActOnCrash  BY <1>13 DEF ActOnCrash, CrashStep, AfterCrash
  <1>14. CASE ActOnFatal  BY <1>14 DEF ActOnFatal
  <1>15. CASE DropToShell  BY <1>15 DEF DropToShell
  <1>16. CASE PowerOff  BY <1>16 DEF PowerOff
  <1>17. CASE Panic  BY <1>17 DEF Panic, Abandon, FreshProcess
  <1>18. CASE GuestExits  BY <1>18 DEF GuestExits
  <1>19. CASE WaitFails
    <2>1. faults' \in 0..MaxFaults  BY <1>19 DEF WaitFails
    <2>2. orphan' \in BOOLEAN  BY <1>19 DEF WaitFails
    <2> QED BY <1>19, <2>1, <2>2 DEF WaitFails
  <1>20. CASE CommandFails
    <2>1. faults' \in 0..MaxFaults  BY <1>20 DEF CommandFails
    <2> QED BY <1>20, <2>1 DEF CommandFails, FreshProcess
  <1>21. CASE LeaveShell  BY <1>21 DEF LeaveShell, FreshProcess
  <1>22. CASE Killed
    <2>1. faults' \in 0..MaxFaults  BY <1>22 DEF Killed
    <2>2. orphan' \in BOOLEAN /\ stale' \in BOOLEAN  BY <1>22 DEF Killed, Abandon
    <2> QED BY <1>22, <2>1, <2>2 DEF Killed, Abandon, FreshProcess
  <1>23. CASE OrphanExits
    <2>1. orphan' \in BOOLEAN  BY <1>23 DEF OrphanExits
    <2> QED BY <1>23, <2>1 DEF OrphanExits
  <1>24. CASE LogFills  BY <1>24 DEF LogFills
  <1>25. CASE UNCHANGED vars  BY <1>25
  <1> QED
    BY <1>1, <1>2, <1>3, <1>4, <1>5, <1>6, <1>7, <1>8, <1>9, <1>10, <1>11, <1>12, <1>13,
       <1>14, <1>15, <1>16, <1>17, <1>18, <1>19, <1>20, <1>21, <1>22, <1>23, <1>24, <1>25 DEF Next, AgentStep, Off

\* Each step hands over, keeps or drops the child and the services together.
LEMMA StepOwnership == Accounting /\ [Next]_vars => Ownership'
  <1> SUFFICES ASSUME Ownership, [Next]_vars PROVE Ownership'
    BY DEF Accounting
  <1> USE DEF Ownership, ServicesLiveWithGuest, vars, agentVars, hostVars, historyVars, Goto
  <1>1. CASE LoadConfig  BY <1>1 DEF LoadConfig
  <1>2. CASE InitLogging  BY <1>2 DEF InitLogging
  <1>3. CASE StartupHook  BY <1>3 DEF StartupHook
  <1>4. CASE CheckUsb  BY <1>4 DEF CheckUsb, ReturnFatal, Continue
  <1>5. CASE ResolveDisk  BY <1>5 DEF ResolveDisk, ReturnFatal, Continue
  <1>6. CASE StartServices  BY <1>6 DEF StartServices, ReturnFatal
  <1>7. CASE BuildArgs
    <2>1. services /\ guest = "none" /\ UNCHANGED <<guest, orphan, stale, lapses>>
      BY <1>7 DEF BuildArgs, ReturnFatal, Continue
    <2>2. CASE ReturnFatal  BY <2>1, <2>2 DEF ReturnFatal
    <2>3. CASE Continue("spawn")  BY <2>1, <2>3 DEF Continue
    <2> QED  BY <1>7, <2>2, <2>3 DEF BuildArgs
  <1>8. CASE SpawnQemu
    <2>1. services /\ guest = "none" /\ UNCHANGED <<orphan, stale, lapses>>
      BY <1>8 DEF SpawnQemu, ReturnFatal
    <2>2. CASE ReturnFatal  BY <2>1, <2>2 DEF ReturnFatal
    <2>3. CASE pc' = "wait" /\ services' = services  BY <2>1, <2>3
    <2> QED  BY <1>8, <2>2, <2>3 DEF SpawnQemu
  <1>9. CASE ReapGuest  BY <1>9 DEF ReapGuest
  <1>10. CASE ShutdownHook  BY <1>10 DEF ShutdownHook
  <1>11. CASE ReturnResult  BY <1>11 DEF ReturnResult
  <1>12. CASE ActOnClean  BY <1>12 DEF ActOnClean
  <1>13. CASE ActOnCrash  BY <1>13 DEF ActOnCrash, CrashStep, AfterCrash
  <1>14. CASE ActOnFatal  BY <1>14 DEF ActOnFatal
  <1>15. CASE DropToShell  BY <1>15 DEF DropToShell
  <1>16. CASE PowerOff  BY <1>16 DEF PowerOff
  <1>17. CASE Panic  BY <1>17 DEF Panic, Abandon, FreshProcess
  <1>18. CASE GuestExits  BY <1>18 DEF GuestExits
  <1>19. CASE WaitFails  BY <1>19 DEF WaitFails
  <1>20. CASE CommandFails  BY <1>20 DEF CommandFails, FreshProcess
  <1>21. CASE LeaveShell  BY <1>21 DEF LeaveShell, FreshProcess
  <1>22. CASE Killed  BY <1>22 DEF Killed, Abandon, FreshProcess
  <1>23. CASE OrphanExits  BY <1>23 DEF OrphanExits
  <1>24. CASE LogFills  BY <1>24 DEF LogFills
  <1>25. CASE UNCHANGED vars  BY <1>25
  <1> QED
    BY <1>1, <1>2, <1>3, <1>4, <1>5, <1>6, <1>7, <1>8, <1>9, <1>10, <1>11, <1>12, <1>13,
       <1>14, <1>15, <1>16, <1>17, <1>18, <1>19, <1>20, <1>21, <1>22, <1>23, <1>24, <1>25 DEF Next, AgentStep, Off

\* Each step keeps the launches accounted for.
LEMMA StepCrashAccount == Accounting /\ [Next]_vars => CrashAccount'
  <1> SUFFICES ASSUME Accounting, [Next]_vars PROVE CrashAccount'
    OBVIOUS
  <1> USE Ranges DEF Accounting, TypeOK, CrashAccount, CrashLoopBound,
          Places, Preparing, AfterVm, vars, agentVars, hostVars, historyVars, Goto
  <1>1. CASE LoadConfig
    <2>1. cfg' \in Config /\ cfg'.maxRestarts \in Nat
      BY <1>1, ConfigFields DEF LoadConfig
    <2> QED BY <1>1, <2>1 DEF LoadConfig
  <1>2. CASE InitLogging  BY <1>2 DEF InitLogging
  <1>3. CASE StartupHook  BY <1>3 DEF StartupHook
  <1>4. CASE CheckUsb  BY <1>4 DEF CheckUsb, ReturnFatal, Continue
  <1>5. CASE ResolveDisk  BY <1>5 DEF ResolveDisk, ReturnFatal, Continue
  <1>6. CASE StartServices  BY <1>6 DEF StartServices, ReturnFatal
  <1>7. CASE BuildArgs  BY <1>7 DEF BuildArgs, ReturnFatal, Continue
  <1>8. CASE SpawnQemu  BY <1>8 DEF SpawnQemu, ReturnFatal
  <1>9. CASE ReapGuest  BY <1>9 DEF ReapGuest
  <1>10. CASE ShutdownHook  BY <1>10 DEF ShutdownHook
  <1>11. CASE ReturnResult  BY <1>11 DEF ReturnResult
  <1>12. CASE ActOnClean  BY <1>12 DEF ActOnClean
  <1>13. CASE ActOnCrash  BY <1>13 DEF ActOnCrash, CrashStep, AfterCrash
  <1>14. CASE ActOnFatal  BY <1>14 DEF ActOnFatal
  <1>15. CASE DropToShell  BY <1>15 DEF DropToShell
  <1>16. CASE PowerOff  BY <1>16 DEF PowerOff
  <1>17. CASE Panic  BY <1>17 DEF Panic, Abandon, FreshProcess
  <1>18. CASE GuestExits  BY <1>18 DEF GuestExits
  <1>19. CASE WaitFails  BY <1>19 DEF WaitFails
  <1>20. CASE CommandFails  BY <1>20 DEF CommandFails, FreshProcess
  <1>21. CASE LeaveShell  BY <1>21 DEF LeaveShell, FreshProcess
  <1>22. CASE Killed  BY <1>22 DEF Killed, Abandon, FreshProcess
  <1>23. CASE OrphanExits  BY <1>23 DEF OrphanExits
  <1>24. CASE LogFills  BY <1>24 DEF LogFills
  <1>25. CASE UNCHANGED vars  BY <1>25
  <1> QED
    BY <1>1, <1>2, <1>3, <1>4, <1>5, <1>6, <1>7, <1>8, <1>9, <1>10, <1>11, <1>12, <1>13,
       <1>14, <1>15, <1>16, <1>17, <1>18, <1>19, <1>20, <1>21, <1>22, <1>23, <1>24, <1>25 DEF Next, AgentStep, Off

\* No step reaches a policy decision around the shutdown hook.
LEMMA StepHookAccount == Accounting /\ [Next]_vars => HookAccount'
  <1> SUFFICES ASSUME Accounting, [Next]_vars PROVE HookAccount'
    OBVIOUS
  <1> USE Ranges DEF Accounting, TypeOK, HookAccount,
          Places, Preparing, AfterVm, vars, agentVars, hostVars, historyVars, Goto
  <1>1. CASE LoadConfig  BY <1>1 DEF LoadConfig
  <1>2. CASE InitLogging  BY <1>2 DEF InitLogging
  <1>3. CASE StartupHook  BY <1>3 DEF StartupHook
  <1>4. CASE CheckUsb  BY <1>4 DEF CheckUsb, ReturnFatal, Continue
  <1>5. CASE ResolveDisk  BY <1>5 DEF ResolveDisk, ReturnFatal, Continue
  <1>6. CASE StartServices  BY <1>6 DEF StartServices, ReturnFatal
  <1>7. CASE BuildArgs  BY <1>7 DEF BuildArgs, ReturnFatal, Continue
  <1>8. CASE SpawnQemu  BY <1>8 DEF SpawnQemu, ReturnFatal
  <1>9. CASE ReapGuest  BY <1>9 DEF ReapGuest
  <1>10. CASE ShutdownHook  BY <1>10 DEF ShutdownHook
  <1>11. CASE ReturnResult  BY <1>11 DEF ReturnResult
  <1>12. CASE ActOnClean  BY <1>12 DEF ActOnClean
  <1>13. CASE ActOnCrash  BY <1>13 DEF ActOnCrash, CrashStep, AfterCrash
  <1>14. CASE ActOnFatal  BY <1>14 DEF ActOnFatal
  <1>15. CASE DropToShell  BY <1>15 DEF DropToShell
  <1>16. CASE PowerOff  BY <1>16 DEF PowerOff
  <1>17. CASE Panic  BY <1>17 DEF Panic, Abandon, FreshProcess
  <1>18. CASE GuestExits  BY <1>18 DEF GuestExits
  <1>19. CASE WaitFails  BY <1>19 DEF WaitFails
  <1>20. CASE CommandFails  BY <1>20 DEF CommandFails, FreshProcess
  <1>21. CASE LeaveShell  BY <1>21 DEF LeaveShell, FreshProcess
  <1>22. CASE Killed  BY <1>22 DEF Killed, Abandon, FreshProcess
  <1>23. CASE OrphanExits  BY <1>23 DEF OrphanExits
  <1>24. CASE LogFills  BY <1>24 DEF LogFills
  <1>25. CASE UNCHANGED vars  BY <1>25
  <1> QED
    BY <1>1, <1>2, <1>3, <1>4, <1>5, <1>6, <1>7, <1>8, <1>9, <1>10, <1>11, <1>12, <1>13,
       <1>14, <1>15, <1>16, <1>17, <1>18, <1>19, <1>20, <1>21, <1>22, <1>23, <1>24, <1>25 DEF Next, AgentStep, Off

\* The four step lemmas together.
LEMMA StepAccounting == Accounting /\ [Next]_vars => Accounting'
  BY StepType, StepOwnership, StepCrashAccount, StepHookAccount DEF Accounting

\* Every state of the agent is well typed and accounted for.
THEOREM AccountingHolds == Spec => []Accounting
  <1> QED BY InitAccounting, StepAccounting, PTL DEF Spec

\* Every variable of the agent keeps its type, whatever the limits.
THEOREM TypeCorrect == Spec => []TypeOK
  <1>1. Accounting => TypeOK  BY DEF Accounting
  <1> QED BY <1>1, AccountingHolds, PTL

\* Crash-loop protection for every max_restart_attempts (main.rs:182-190): one
\* agent process never spawns the VM more than limit + 1 times in a row.
THEOREM CrashLoopBounded == Spec => []CrashLoopBound
  <1>1. Accounting => CrashLoopBound  BY DEF Accounting, CrashAccount
  <1> QED BY <1>1, AccountingHolds, PTL

\* On every path through run_one_vm_lifecycle the agent's child has its services,
\* and the agent owns neither behind it; one of them goes on without an owner only
\* when an agent has died, or the wait for QEMU has failed, which leaves a QEMU
\* without services (main.rs:211-333, services.rs:35-37).
THEOREM ServicesOwned == Spec => []ServicesLiveWithGuest
  <1>1. Accounting => ServicesLiveWithGuest  BY DEF Accounting, Ownership
  <1> QED BY <1>1, AccountingHolds, PTL

\* The agent powers the host off only behind a shutdown hook that followed the
\* last guest (main.rs:324, plan.md:128).
THEOREM HookPrecedesPowerOff == Spec => HookBeforePowerOff
  <1>1. ASSUME Accounting, [Next]_vars, ~(UNCHANGED vars)
        PROVE  pc' = "off" => hookDone /\ guest = "none"
    <2> SUFFICES ASSUME pc' = "off" PROVE hookDone /\ guest = "none"
      OBVIOUS
    <2>1. pc = "poweroff" \/ pc = "off"
      BY <1>1 DEF Next, AgentStep, Off, vars, agentVars, LoadConfig, InitLogging, StartupHook,
        CheckUsb, ResolveDisk, StartServices, BuildArgs, SpawnQemu, ReturnFatal, Continue,
        Goto, ReapGuest, ShutdownHook, ReturnResult, ActOnClean, ActOnCrash, CrashStep,
        AfterCrash, ActOnFatal, DropToShell, PowerOff, Panic, Abandon, FreshProcess,
        GuestExits, WaitFails, CommandFails, LeaveShell, Killed, OrphanExits, LogFills
    <2> QED BY <1>1, <2>1 DEF Accounting, HookAccount, Ownership, ServicesLiveWithGuest
  <1> QED BY <1>1, AccountingHolds, PTL DEF Spec, HookBeforePowerOff

\* A VM is spawned within the limit, and crashes are forgotten only on a clean
\* exit or by a new agent process (main.rs:154-197).
THEOREM CrashesAreCounted == Spec => CrashesCount
  <1> DEFINE Step == /\ guest = "none" /\ guest' = "running" => attempts <= cfg.maxRestarts
                     /\ attempts' < attempts => outcome = "clean" \/ pc' = "load"
  <1>1. ASSUME Accounting, [Next]_vars PROVE [Step]_vars
    <2>1. guest = "none" /\ guest' = "running" => pc = "spawn"
      BY <1>1 DEF Next, AgentStep, Off, vars, agentVars, LoadConfig, InitLogging, StartupHook,
        CheckUsb, ResolveDisk, StartServices, BuildArgs, SpawnQemu, ReturnFatal, Continue,
        ReapGuest, ShutdownHook, ReturnResult, ActOnClean, ActOnCrash, CrashStep,
        ActOnFatal, DropToShell, PowerOff, Panic, Abandon, FreshProcess,
        GuestExits, WaitFails, CommandFails, LeaveShell, Killed, OrphanExits, LogFills
    <2>2. pc = "spawn" => attempts <= cfg.maxRestarts
      BY <1>1 DEF Accounting, CrashAccount, Preparing
    <2>3. attempts' = attempts \/ attempts' = attempts + 1 \/ outcome = "clean" \/ pc' = "load"
      BY <1>1 DEF Next, AgentStep, Off, vars, agentVars, LoadConfig, InitLogging, StartupHook,
        CheckUsb, ResolveDisk, StartServices, BuildArgs, SpawnQemu, ReturnFatal, Continue,
        ReapGuest, ShutdownHook, ReturnResult, ActOnClean, ActOnCrash, CrashStep,
        ActOnFatal, DropToShell, PowerOff, Panic, Abandon, FreshProcess,
        GuestExits, WaitFails, CommandFails, LeaveShell, Killed, OrphanExits, LogFills
    <2>4. attempts \in Nat
      BY <1>1, Ranges DEF Accounting
    <2> QED BY <2>1, <2>2, <2>3, <2>4
  <1> QED BY <1>1, AccountingHolds, PTL DEF Spec, CrashesCount

\* Each step of the agent is a step of the appliance, or changes nothing of it.
LEMMA StepRefines ==
  Accounting /\ Accounting' /\ [Next]_vars => [Promise!Next]_(Promise!vars)
  <1> SUFFICES ASSUME Accounting, Accounting', [Next]_vars
               PROVE  [Promise!Next]_(Promise!vars)
    OBVIOUS
  <1>c. /\ attempts \in Nat /\ cfg.maxRestarts \in Nat /\ cfg'.maxRestarts \in Nat
    BY Ranges, ConfigFields DEF Accounting, TypeOK
  <1>p. pc \in Places /\ pc' \in Places
    BY DEF Accounting, TypeOK
  <1>a. CrashAccount
    BY DEF Accounting
  <1> USE <1>c, <1>p, <1>a DEF Mode, Places, Preparing, AfterVm, Goto, agentVars, Promise!vars
  \* The new process every restart begins with.
  <1>f. ASSUME FreshProcess, pc # "off", cfg' = cfg PROVE Promise!Restart
    BY <1>f DEF FreshProcess, Promise!Restart
  <1>1. CASE LoadConfig
    BY <1>1 DEF LoadConfig, CrashAccount, Promise!Next, Promise!Configure, Promise!Close
  <1>2. CASE InitLogging
    BY <1>2 DEF InitLogging, Promise!Next, Promise!Close
  <1>3. CASE StartupHook
    BY <1>3 DEF StartupHook, Promise!Next, Promise!Close
  <1>4. CASE CheckUsb
    BY <1>4 DEF CheckUsb, ReturnFatal, Continue, Promise!Next, Promise!End
  <1>5. CASE ResolveDisk
    BY <1>5 DEF ResolveDisk, ReturnFatal, Continue, Promise!Next, Promise!End
  <1>6. CASE StartServices
    BY <1>6 DEF StartServices, ReturnFatal, Promise!Next, Promise!End
  <1>7. CASE BuildArgs
    BY <1>7 DEF BuildArgs, ReturnFatal, Continue, Promise!Next, Promise!End
  <1>8. CASE SpawnQemu
    BY <1>8 DEF SpawnQemu, ReturnFatal, Promise!Next, CrashAccount, Promise!Launch, Promise!End
  <1>9. CASE ReapGuest
    BY <1>9 DEF ReapGuest
  <1>10. CASE ShutdownHook
    BY <1>10 DEF ShutdownHook
  <1>11. CASE ReturnResult
    BY <1>11 DEF ReturnResult, Promise!Next, Promise!End
  <1>12. CASE ActOnClean
    BY <1>12 DEF ActOnClean, Promise!Next, Promise!Again, Promise!Close
  <1>13. CASE ActOnCrash
    BY <1>13 DEF ActOnCrash, CrashStep, AfterCrash, Promise!Next, CrashAccount, Promise!Again, Promise!Close
  <1>14. CASE ActOnFatal
    BY <1>14 DEF ActOnFatal, Promise!Next, Promise!Close
  <1>15. CASE DropToShell
    BY <1>15 DEF DropToShell, Promise!Next, Promise!Settle
  <1>16. CASE PowerOff
    BY <1>16 DEF PowerOff, Promise!Next, Promise!Settle
  <1>17. CASE Panic
    BY <1>17, <1>f DEF Panic, Abandon, Reporting, Promise!Next
  <1>18. CASE GuestExits
    BY <1>18 DEF GuestExits
  <1>19. CASE WaitFails
    BY <1>19 DEF WaitFails, Promise!Next, Promise!End
  <1>20. CASE CommandFails
    BY <1>20, <1>f DEF CommandFails, Promise!Next
  <1>21. CASE LeaveShell
    BY <1>21, <1>f DEF LeaveShell, Promise!Next
  <1>22. CASE Killed
    BY <1>22, <1>f DEF Killed, Abandon, Promise!Next
  <1>23. CASE OrphanExits
    BY <1>23 DEF OrphanExits
  <1>24. CASE LogFills
    BY <1>24 DEF LogFills
  <1>25. CASE UNCHANGED vars  BY <1>25 DEF vars
  <1> QED
    BY <1>1, <1>2, <1>3, <1>4, <1>5, <1>6, <1>7, <1>8, <1>9, <1>10, <1>11, <1>12, <1>13,
       <1>14, <1>15, <1>16, <1>17, <1>18, <1>19, <1>20, <1>21, <1>22, <1>23, <1>24, <1>25
    DEF Next, AgentStep, Off

\* The agent implements the appliance its operator is promised.
THEOREM AgentImplementsAppliance == Spec => ImplementsAppliance
  <1>1. Init => Promise!Init
    <2> SUFFICES ASSUME Init PROVE Promise!Init
      OBVIOUS
    <2>1. cfg.maxRestarts \in Nat
      BY ConfigFields DEF Init
    <2> QED BY <2>1 DEF Init, Mode, Promise!Init
  <1> QED
    BY <1>1, AccountingHolds, StepRefines, PTL DEF Spec, ImplementsAppliance, Promise!Spec

=============================================================================
