SPECIFICATION FairSpec
CONSTANTS
  p1 = p1 p2 = p2 None = None
  Partitions = {p1, p2}
  LogLen = 2
  Poison <- OnePoison
  ChanCap = 1
  BatchMax = 2
  MaxFaults = 2
  MaxStops = 1
INVARIANTS
  RowsExplained
  CommittedUnlessOvertaken
PROPERTY
  EventuallyStored
CHECK_DEADLOCK FALSE
