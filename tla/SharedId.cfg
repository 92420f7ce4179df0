CONSTANTS
  t1 = t1
  t2 = t2
  x = x
  y = y
  Requests = {t1, t2}
  Ids = {x, y}
  Kinds = {"query", "duplicates"}
  IdsOf <- OneId
  NoRequest = NoRequest
  MaxWaiters = 1
  MaxRevision = 1
  MaxRequests = 2
SPECIFICATION Spec
CHECK_DEADLOCK FALSE
INVARIANTS
  CancellationReaches
