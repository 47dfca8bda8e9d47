CONSTANTS
  MaxRestarts = 2
  MaxFaults = 1
  LogMayFill = TRUE
SPECIFICATION FairSpec
INVARIANTS
  CrashLoopBound
  ServicesLiveWithGuest
PROPERTIES
  HookBeforePowerOff
  ImplementsAppliance
  CrashLoopEnds
  GuestEndActedOn
