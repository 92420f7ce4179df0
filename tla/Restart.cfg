CONSTANTS
  home = home
  file = file
  disk = disk
  NoPath = NoPath
  NoProof = NoProof
  Paths = {home, file, disk}
  Parent <- HomeParent
  RootSets <- TwoRoots
  WatchModes = {TRUE, FALSE}
  QueueLimit = 1
  ReplaySlack = 0
  Faults = {"crash", "retry", "cancel", "stop", "recheck"}
  MaxEvents = 1
  MaxRequests = 2
  MaxFaults = 3
SPECIFICATION Spec
CHECK_DEADLOCK FALSE
INVARIANTS
  StopIsPrompt
