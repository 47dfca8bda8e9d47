CONSTANTS
  MaxGens = 1
  MaxTries = 1
  Devices = {d1, d2}
  MaxSignals = 1
  MaxPlugs = 2
  MaxTimeouts = 0
  MaxIds = 4
  MaxNoise = 1
SPECIFICATION Spec
CHECK_DEADLOCK FALSE
INVARIANT AnnouncedIsRequested
