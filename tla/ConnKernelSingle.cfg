SPECIFICATION FairSpec
CONSTANTS
  c1 = c1 c2 = c2 u1 = u1 r1 = r1 web = web a1 = a1
  Clients = {c1, c2}
  Admins = {}
  Users = {u1}
  Rooms = {r1}
  UID <- MCUID
  RoomID <- MCRoomID
  Device <- MCDevice
  NoDevice = NoDevice
  DefaultDeviceID = DefaultDeviceID
  ConnectionPolicy = "single"
  NoClient = NoClient
INVARIANT
  EvictsEarlier
PROPERTY
  PresenceRefinement
  CloseDrains
