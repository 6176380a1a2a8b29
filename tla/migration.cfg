SPECIFICATION PartSpec
CONSTANTS
  w1 = w1  w2 = w2  w3 = w3  m0 = m0  m1 = m1  Idle = Idle  None = None
  N = 2
  Worker = {w1, w2}
  Overdue = {}
  Setters = {w1}
  MThread <- MCThread
  Ops = {"sleep", "sync", "tick"}
INVARIANTS RunsWhereItIs LinkedAtHome AffinityKept NoLockCycle IdleTold
PROPERTIES RequestServed
CHECK_DEADLOCK FALSE
