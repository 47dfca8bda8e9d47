SPECIFICATION JourneySpec
CONSTANTS
  Typed = {"="}
  Values <- MCValues
  Patterns = {"v"}
  Valid <- MCValid
  Default <- MCDefault
  HostTexts <- MCHostTexts
  Starts <- MCStarts
  Disks = {"A", "B"}
  UndoLimit = 2
  MaxEdits = 3
  MaxSearches = 1
  MaxOps = 2
  MaxFaults = 2
  Documents <- MCDocuments
  Reread <- MCReread
  Names = {"Chicago", "Denver", "Berlin"}
  HostZones = {"Chicago", "Berlin"}
  Zones = {"Chicago", "Denver"}
  Texas = "Chicago"
  HostArch = "x86_64"
  Rotate = 2
  MaxLives = 2
  MaxErrors = 1
INVARIANTS JourneyTypeOK HandleCurrent  LogsInOrder
PROPERTIES EditorImplementsTimeline EditsKept BootEnds
CHECK_DEADLOCK FALSE
