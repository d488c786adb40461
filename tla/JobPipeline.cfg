SPECIFICATION FairSpec
CONSTANTS
  m1 = m1 m2 = m2 m3 = m3 r1 = r1 r2 = r2 k1 = k1 k2 = k2
  Msgs = {m1, m3}
  Rooms = {r1, r2}
  Comets = {k1}
  RoomOf <- MCRoomOf
  ChanCap = 1
  MaxFaults = 2
  MaxStops = 1
  MaxPool = 1
INVARIANTS
  OnceOrDropped
  StopDrains
  PushInOrder
PROPERTY
  EventuallyPushed
CHECK_DEADLOCK FALSE
