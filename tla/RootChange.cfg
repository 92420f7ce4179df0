CONSTANTS
  home = home
  file = file
  disk = disk
  NoPath = NoPath
  NoProof = NoProof
  Paths = {home, file, disk}
  Parent <- HomeParent
  RootSets <- TwoRoots
  WatchModes = {TRUE}
  QueueLimit = 2
  ReplaySlack = 0
  Faults = {"crash", "stop"}
  MaxEvents = 0
  MaxRequests = 3
  MaxFaults = 3
SPECIFICATION Spec
CHECK_DEADLOCK FALSE
INVARIANTS
  ResumePointIsSound
