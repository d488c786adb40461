SPECIFICATION FairSpec
CONSTANTS
  m1 = m1 m2 = m2 x1 = x1 r1 = r1 r2 = r2 w1 = w1 w2 = w2 v1 = v1
  None = None Sub = Sub
  Msgs = {m1, m2}
  High = {}
  RemoteMsgs = {}
  Readers = {r1, r2}
  Workers = {w1}
  Viewers = {v1}
  QueueCap = 1
  BatchMax = 2
  HistMax = 1
  MaxSends = 3
  MaxExpiries = 1
  MaxConns = 0
  Older = {0}
  AfterSeqs = {0}
  RemoteSeqs = {1}
  MaxAdmin = 0
  MaxTTL = 0
  MaxEvents = 3
  MaxStops = 1
INVARIANTS
  AckedOnce
  StopDrains
PROPERTY
  EventuallyBroadcast
CHECK_DEADLOCK FALSE
