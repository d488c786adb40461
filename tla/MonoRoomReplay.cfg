SPECIFICATION Spec
CONSTANTS
  m1 = m1 m2 = m2 x1 = x1 r1 = r1 r2 = r2 w1 = w1 w2 = w2 v1 = v1
  None = None Sub = Sub
  Msgs = {m1}
  High = {m1}
  RemoteMsgs = {x1}
  Readers = {r1}
  Workers = {w1}
  Viewers = {v1}
  QueueCap = 2
  BatchMax = 2
  HistMax = 2
  MaxSends = 1
  MaxExpiries = 0
  MaxConns = 2
  Older = {0, 3}
  AfterSeqs = {0, 3}
  RemoteSeqs = {4}
  MaxAdmin = 1
  MaxTTL = 1
  MaxEvents = 3
  MaxStops = 0
INVARIANTS
  StreamUnbroken
  LeavesUnlessOvertaken
CONSTRAINT
  FewEvents
CHECK_DEADLOCK FALSE
