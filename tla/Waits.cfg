SPECIFICATION MCSpec
CONSTANTS
  x1 = x1
  BlockThreads = {t1, t2, t3}
  GenMod = 2
  BarrierCalls = 3
  N = 3
  Kinds = {"AllReduce", "Reduce", "AllGather", "ReduceScatter", "AllToAll", "RingAllReduce", "RingReduceScatter"}
  Roots = {0, 2}
  MaxCalls = 2
  MaxTimeouts = 1
  Events = {e1, e2}
  Blocking = {e1}
  EventStreams = {s1, s2}
  Hosts = {h1}
  MaxTasks = 3
  MaxWaits = 1
  Clients = {k1, k2, k3}
  FailThreshold = 2
  HalfOpenProbes = 1
  Cooldown = 2
  MaxLag = 1
  MaxOutages = 1
  MaxLost = 1
  NWorkers = 2
  Callers = {x1}
  Jobs = {"A", "N"}
  CallerOf <- MCCallerOf
  ParentOf <- MCParentOf
  NChunks <- MCChunks
INVARIANTS
  CollectiveRight
  SyncSound
  BarrierSound
PROPERTIES
  CollectivesFinish
  SyncReturns
  BreakerRecovers
  ForReturns
  BarrierPasses
CHECK_DEADLOCK FALSE
