CONSTANTS
  home = home
  file = file
  disk = disk
  NoPath = NoPath
  NoProof = NoProof
  Paths = {home, file}
  Parent <- HomeParent
  RootSets <- OneRoot
  WatchModes = {TRUE}
  QueueLimit = 1
  ReplaySlack = 0
  Faults = {"retry", "cancel", "wrap"}
  MaxEvents = 2
  MaxRequests = 1
  MaxFaults = 1
SPECIFICATION FairSpec
CHECK_DEADLOCK FALSE
PROPERTIES
  ChangesReachIndex
