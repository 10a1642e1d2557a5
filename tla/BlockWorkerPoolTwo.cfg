SPECIFICATION FairSpec
CONSTANTS
  d1 = d1
  d2 = d2
  w1 = w1
  w2 = w2
  Dispatchers = {d1, d2}
  Workers = {w1, w2}
  Launches <- MCTwoGangs
  QueueCap = 8
  MaxBlocks = 1
  MayShutdown = FALSE
PROPERTIES
  DispatchReturns
CHECK_DEADLOCK FALSE
