SPECIFICATION FairSpec
CONSTANTS
  Absent = Absent
  Denied = Denied
  NoContent = NoContent
  NoManifest = NoManifest
  Versions = {v1}
  LimitFloor = 1
  LimitFraction = 8
  MaxIds = 1
  Ids = {i1}
  Bodies = {b1}
  MaxRevision = 3
  Faults = {"error", "crash"}
  MaxFaults = 2
INVARIANT ContentRevisionNamesBodies
 
