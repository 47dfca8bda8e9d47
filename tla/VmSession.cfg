CONSTANTS
  MaxGens = 2
  MaxTries = 1
  Devices = {d1}
  MaxSignals = 1
  MaxPlugs = 1
  MaxTimeouts = 1
  MaxIds = 4
  MaxNoise = 1
SPECIFICATION FairSpec
CHECK_DEADLOCK FALSE
INVARIANTS
  TypeOK
  RepliesPaired
  OneCommandInFlight
  AttachedIsAdded
  DeviceAddedOnce
PROPERTIES
  SignalServed
  HotplugServed
