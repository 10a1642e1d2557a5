SPECIFICATION Spec
CONSTANTS
  h1 = h1
  h2 = h2
  Hosts = {h1}
  NumThreads = 2
  NumNodes = 1
  StreamTasks = {1, 2}
  SoloTasks = {}
  NumaTasks = {6}
  RingTasks = {7, 8}
  HostOf <- MCOneHost
  StreamOf <- MCStreamOf
  NodeWanted <- MCNodeWanted
  RingCap = 1
  DequeCap = 1
  WordSize = 16
  Destroys = TRUE
INVARIANTS
  Drained
  DroppedByRaceOnly
CHECK_DEADLOCK FALSE
