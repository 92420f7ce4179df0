SPECIFICATION Spec
CONSTANTS
  Absent = Absent
  Denied = Denied
  NoContent = NoContent
  NoManifest = NoManifest
  Versions = {v1}
  LimitFloor = 1
  LimitFraction = 8
  MaxIds = 1
  Ids = {i1, i2}
  Bodies = {}
  MaxRevision = 2
  Faults = {"error", "crash", "cache", "power"}
  MaxFaults = 2
SYMMETRY Symmetry
INVARIANTS JournalCoversDrift RecoveryIsExact CleanCacheIsCurrent
PROPERTIES ServesCommittedStates GenerationsAdvance
