SPECIFICATION FairSpec
CONSTANTS
  h1 = h1
  h2 = h2
  Hosts = {h1}
  NumThreads = 2
  NumNodes = 0
  StreamTasks = {1, 2}
  SoloTasks = {4}
  NumaTasks = {}
  RingTasks = {7}
  HostOf <- MCOneHost
  StreamOf <- MCStreamOf
  NodeWanted <- MCNodeWanted
  RingCap = 2
  DequeCap = 2
  WordSize = 16
  Destroys = TRUE
PROPERTIES
  EventuallyRun
  WaitAllDrainsRings
  DtorReturns
CHECK_DEADLOCK FALSE
