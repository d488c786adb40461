SPECIFICATION Spec
CONSTANTS
  c1 = c1  c2 = c2  i1 = i1  i2 = i2  n1 = n1  n2 = n2
  \* Collector
  Insts = {i1, i2}  Comets = {i1}  EventBufferSize = 1  MaxCount = 1  MaxOffset = 2  MaxChanges = 2
  MaxPolls = 3  NoSample = NoSample  NoRate = NoRate  NoLag = NoLag
  \* TraceStore
  TraceNodes = {n1, n2}  TraceMsgs = 4  RingSize = 3  FetchLimit = 3  TraceMaxKept = 2  MaxPasses = 3
  \* Analysis
  ExpKinds <- MCExpKinds  RunEnds <- MCRunEnds  NA = NA  Scale = 6  LatencyFloor = 1
  ConnTarget = 2  ConnGoal = 3  StoreLimit = 3  MaxLab = 4
  P99Max = 30  DeliveryMin = 600
  \* LoadTest
  Conns = {c1, c2}  WarmupEnd = 1  SendEnd = 2  ReadWait = 2  MaxClock = 2  MaxSeq = 3  MaxForeign = 1  MaxFrame = 2
SYMMETRY Symmetry
INVARIANTS
  ConsoleTruthful
  HopsJoined
  CompareSound
  DeliveryAccounted
PROPERTIES
  OutageKeepsInstances
  ClaimsKept
CHECK_DEADLOCK FALSE
