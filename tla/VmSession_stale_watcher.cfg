CONSTANTS
  MaxGens = 2
  MaxTries = 2
  Devices = {d1, d2}
  MaxSignals = 1
  MaxPlugs = 2
  MaxTimeouts = 0
  MaxIds = 4
  MaxNoise = 1
SPECIFICATION Spec
CHECK_DEADLOCK FALSE
INVARIANT OnlyNewDevicesAdded
