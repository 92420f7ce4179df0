CONSTANTS
  home = home
  file = file
  disk = disk
  NoPath = NoPath
  NoProof = NoProof
  Paths = {home, file}
  Parent <- HomeParent
  RootSets <- OneRoot
  WatchModes = {TRUE}
  QueueLimit = 2
  ReplaySlack = 1
  Faults = {"crash", "wrap", "retry", "error", "cancel", "stop", "inspect", "recheck"}
  MaxEvents = 2
  MaxRequests = 1
  MaxFaults = 2
SPECIFICATION Spec
CHECK_DEADLOCK FALSE
INVARIANTS
  ResumePointIsSound
  StaleRowsHaveEvents
