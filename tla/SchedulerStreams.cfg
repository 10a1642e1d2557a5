SPECIFICATION Spec
CONSTANTS
  h1 = h1
  h2 = h2
  Hosts = {h1, h2}
  NumThreads = 2
  NumNodes = 0
  StreamTasks = {1, 2, 3}
  SoloTasks = {}
  NumaTasks = {}
  RingTasks = {}
  HostOf <- MCTwoHosts
  StreamOf <- MCStreamOf
  NodeWanted <- MCNodeWanted
  RingCap = 2
  DequeCap = 2
  WordSize = 16
  Destroys = FALSE
INVARIANTS
  WaitSound
PROPERTIES
  ImplementsStreamOrder
