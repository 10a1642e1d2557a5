SPECIFICATION Spec
CONSTANTS
  h1 = h1
  h2 = h2
  Hosts = {h1}
  NumThreads = 2
  NumNodes = 0
  StreamTasks = {1, 2}
  SoloTasks = {}
  NumaTasks = {}
  RingTasks = {}
  HostOf <- MCOneHost
  StreamOf <- MCStreamOf
  NodeWanted <- MCNodeWanted
  RingCap = 1
  DequeCap = 1
  WordSize = 16
  Destroys = TRUE
INVARIANT NothingDropped
CHECK_DEADLOCK FALSE
