SPECIFICATION Spec
CONSTANTS
  p1 = p1 p2 = p2 None = None
  Partitions = {p1, p2}
  LogLen = 2
  Poison <- OnePoison
  ChanCap = 1
  BatchMax = 2
  MaxFaults = 1
  MaxStops = 1
INVARIANT
  CommittedIsStored
CHECK_DEADLOCK FALSE
