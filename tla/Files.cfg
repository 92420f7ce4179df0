CONSTANTS
  a = a
  b = b
  c = c
  Paths = {a, b, c}
  Device <- Volumes
  Populated = {{a, b}, {a, c}}
  Batches <- Selections
  Faults = {"crash", "journal", "open", "io", "cancel", "replace", "remove", "modify", "touch"}
  MaxRequests = 2
  MaxFaults = 2
SPECIFICATION Spec
CHECK_DEADLOCK FALSE
INVARIANTS
  
  UndoStaysAuthorized
PROPERTIES
  OnlyReviewedMoved
