SPECIFICATION TrackerSpec
CONSTANTS
  p1 = p1
  p2 = p2
  a = a
  b = b
  c = c
  e1 = e1
  Threads = {p1, p2}
  StreamIds = {a, b, c}
  S = 2
  Events = {e1}
  Junk = {0, 1}
  MaxTasks = 2
  Below <- MCBelow
INVARIANT SatisfiedMeansFinished
CHECK_DEADLOCK FALSE
SYMMETRY MCSymmetry
