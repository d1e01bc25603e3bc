SPECIFICATION MCSpec
CONSTANTS
  Replicas = 2
  MaxShards = 3
  Space = {0, 1, 2}
  IntKeys <- MCIntKeys
  Placements <- MCPlacements
  MaxCalls = 3
  Users = {u1, u2}
  ReplicaCounts = {0, 1, 2}
  Wrap = 3
  MaxWrites = 2
  MaxReads = 4
  TxClients = {t1, t2, t3}
  maxRetries = 3
  PoolConns = 2
  MaxInjected = 1
  UpIds = {0, 1, 3}
  Emails = {"a", "c"}
  UpBatch = 2
  MaxUpModels = 3
  Catalogs <- MCCatalogs
  ModelSchemas <- MCModelSchemas
  Singular <- MCSingular
  MaxRounds = 2
  MaxDrops = 1
  Routines = {u1, u2}
  Patterns = {"p"}
  Threshold = 3
  TimeWindow = 2
  CleanWindows = 1
  KeepWindows = 2
  MaxQueries = 3
  MaxClock = 5
  MaxStatements = 5
  Enabled = {{"detector"}, {"profiler"}, {}}
  Callers = {b1, b2}
  BusQueries <- MCBusQueries
  MaxRegistered = 2
  MaxMiddleware = 2
  MaxFacts = 1
  MaxBusCalls = 2
  TnClients = {k1, k2}
  TnConns = {1}
  Tenants = {"a", "b"}
  s1 = s1
  s2 = s2
  s3 = s3
  Subs = {s1, s2, s3}
  Channels = {"users", "posts"}
  ChannelOf <- MCChannelOf
INVARIANTS
  RingIsConsistent
  ShardsServe
  CommitsOnce
  DiffReaches
  WatchersExact
  BusesExact
  TenantReadsOwn
  HeardUnlessOvertaken
  ListensForSomeone
  CloseCancels
PROPERTIES
  ReadsOwnWrites
  UpsertExact
CHECK_DEADLOCK FALSE
