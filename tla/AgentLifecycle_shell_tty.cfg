CONSTANTS
  MaxRestarts = 1
  MaxFaults = 0
  LogMayFill = FALSE
SPECIFICATION Spec
INVARIANT ShellOnTty
