SPECIFICATION MCSpec
CONSTANTS
  Owner = owner
  Poppers = {owner}
  Thieves = {th1, th2}
  Capacity = 3
  MaxPush = 4
  RingProducers = {host}
  RingCells = 2
  RingWord = 4
  RingMax = 7
  QueueProducers = {p1, p2}
  QueueConsumers = {c1, c2}
  CellCount = 2
  QueueMax = 4
PROPERTIES
  ImplementsWorkPool
  EventuallyTaken
  ImplementsFifo
  EventuallyPopped
CHECK_DEADLOCK FALSE
