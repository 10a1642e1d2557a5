SPECIFICATION MCSpec
CONSTANTS
  q1 = q1
  q2 = q2
  x1 = x1
  x2 = x2
  HeapStreams = {q1, q2}
  Priorities = {1, 2, 3}
  MaxPush = 4
  Subjects = {u, v}
  AuditThreads = {a1, a2}
  MaxAppends = 3
  MaxCrashes = 2
  MaxKeyFaults = 1
  MaxWriteFaults = 1
  SecretNames = {"k"}
  Principals = {"alice", "bob"}
  MaxValues = 4
  MaxStoreOps = 2
  MaxGets = 1
  MaxStoreCrashes = 1
  MaxStoreFaults = 1
  ComputeSlices = 7
  MemSlices = 8
  Requests = {1, 3, 4}
  SliceBytes = 1
  Modulus = 16
  Amounts = {2, 15}
  Seeds <- MCSeeds
  MaxUuids = 3
  Rate = 2
  Burst = 3
  TokenCounts = {1, 2}
  MaxClock = 4
  NWorkers = 2
  Callers = {x1, x2}
  Jobs = {"A", "B"}
  CallerOf <- MCCallerOf
  ParentOf <- MCParentOf
  NChunks <- MCChunks
  Conns = {1, 2}
  Hosts = {h1, h2}
  Kernels = {"ka", "kb"}
  Arity <- MCArity
  MaxRemote = 2
  MaxTroubles = 2
  Threads = {p1, p2}
  StreamIds = {sa, sb, sc}
  S = 2
  Events = {e1}
  Junk = {0, 1}
  MaxTasks = 1
  Below <- MCBelow
INVARIANTS
  PosSound
  HeapOrder
  AckedSurvives
  ErasedForever
  RemovedStaysGone
  GetSound
  PartitionExact
  RateBounded
  ForReturnsSound
  
  RepliesSound
  InFlightExact
  NeverOverReports
PROPERTIES
  ImplementsPriorityPool
CHECK_DEADLOCK FALSE
