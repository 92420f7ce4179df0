INIT EngineInit
NEXT EngineNext
CONSTANTS
  c1 = c1
  c2 = c2
  Clients = {c1, c2}
  Bodied = {b1, b2}
  Lifetime = 2
  WindowCapacity = 2
  OperationCapacity = 1
  Limits <- Slices
  NoContext = NoContext
  CacheKeys <- SmallKeys
  OwnerOf <- SmallOwner
  ShardOf <- SmallShard
  Products <- SmallProducts
  AllocBytes <- SmallBytes
  ByteLimit = 8
  EntryLimit = 2
  Buffers = {t1, t2}
  BufferBytes = 3
  PoolLimit = 2
  MaxEpoch = 3
  MaxInserts = 3
  Ids = {i1, i2}
  Batches <- SmallBatches
  MaxRows = 3
  MaxTokens = 3
  MaxCrashes = 1
  NoImport = NoImport
  NoToken = NoToken
  Paths = {p, q}
  Objects = {o1, o2}
  NoFile = NoFile
  MaxVersion = 2
  MaxBatch = 2
  MaxVerified = 2
  MaxAttempts = 2
  MaxMounts = 2
  RawPaths = {1, 2, 3}
  NameOf <- SmallNameOf
  NameKey <- SmallNameKey
  PathKey <- SmallPathKey
  NameTerms <- SmallNameTerms
  Sizes = {0, 1}
  OrderSpecs <- SmallSpecs
  BlockEntries = 2
  DeadSlack = 1
  NoRow = NoRow
  DeltaScopes <- SmallScopes
  Inputs <- SmallInputs
  Macros <- SmallMacros
  NestingLimit = 4
  ExpressionLimit = 7
  MacroLimit = 2
  NoQuery = NoQuery
  Tree <- SmallTree
  Folders = {"root", "d", "e"}
  GapSets = {{}, {"e"}}
  RootSets = {{"root"}, {"d"}}
  SizeMax = 1
  Nowhere = Nowhere
  Lists = {l1, l2}
  Callers = {u1, u2}
  EntryIds = {1, 2, 3}
  LeaseIds = {1, 2, 3, 4}
  ReferenceIds = {1, 2}
  Tokens = {k1}
  OfflineLifetime = 1
  MaxTime = 1
  MaxAsked = 3
  Nothing = Nothing
  Documents = {d1}
  Jobs = {1, 2}
  JobIds = {x}
  ReadsPerFile = 2
  MaxSaves = 3
  NoJob = NoJob
  NoBody = NoBody
  DirEntries = {"top", "a", "b", "m", "bad", "p", "f", "g"}
  EntryParent <- SmallParents
  Walkable = {"top", "a", "b"}
  BadNames = {"bad"}
  Pruned = {"p"}
  MountAt <- SmallMounts
  AllowedMounts = {"apfs"}
  ScanRequests <- SmallRequests
  Walkers = {w1, w2}
  FlushRows = 2
  CommitRows = 2
  ChannelSlots = 2
  NoEntry = NoEntry
INVARIANTS
  AnswersMatchContext
  
  PreferencesAgree
  LeaseSurvives
  BudgetRespected
  PressureReleasesBuffers
  ImportIsWhole
  ClosureIsPrepared
  ProofsHoldOfRows
  IndexesStayExact
  ParseIsGrammatical
  PlansAgree
  RelationsAreSound
  
  ContentIsOfOneVersion
  JobsStayCancellable
  ReportIsWhole
  SleepersHaveAWaker
CHECK_DEADLOCK FALSE
