CONSTANTS
  q1 = q1
  q2 = q2
  r1 = r1
  Queries = {q1, q2}
  Rebuilds = {r1}
  Reclaimer = Reclaimer
  NoThread = NoThread
  Capacity = 2
  Parallel = 2
  QueueBound = 1
  Chunks = 1
  MaxJobs = 1
SPECIFICATION FairSpec
CHECK_DEADLOCK FALSE
INVARIANTS
  PermitsConserved
  SleepersAreWoken
PROPERTIES
  QueriesFinish
  RetirementProceeds
