SPECIFICATION Spec
CONSTANTS
  c1 = c1  c2 = c2  w1 = w1  w2 = w2  x = x  y = y  a = a  b = b
  \* TokenBucket
  Callers = {a, b}  Rate = 1  Capacity = 2  TokenUnit = 2  ClockWrap = 6  MaxTicks = 13
  \* WordBank
  Words = {x, y}  Modes = {"block"}  NoMode = NoMode  Admins = {a, b}  Boot = Boot  Torn = Torn
  MaxWordChanges = 3  MaxCrashes = 2
  \* CometUplink
  Members = {c1, c2}  Workers = {w1, w2}  Job = Job  NoMsg = NoMsg  RateLimited = RateLimited
  UplinkCap = 1  SendCap = 1  MaxSends = 2  MaxUplinkFaults = 1
  \* Moderation
  Servers = {a, b}  Handlers = {x, y}  Sub = Sub  Handshakes = {x, y}  Intervals = {0, 1}  NoServer = NoServer
  MaxRequests = 2  MaxLosses = 1
INVARIANTS
  UplinkAccounted
  BucketBound
  WordsSurvive
  BannedStaysOut
  ServersAgree
CHECK_DEADLOCK FALSE
