SPECIFICATION FairSpec
CONSTANTS
  a = a
  b = b
  c = c
  d = d
  e = e
  L1 = L1
  L2 = L2
  L3 = L3
  L4 = L4
  L5 = L5
  x = x
  y = y
  Nodes = {a, b, c, d}
  Lans = {L1, L2, L3, L4}
  Attach <- Ring4
  NoLan = NoLan
  Aliased <- NoAlias
  NoRoute = NoRoute
  Bogus = Bogus
  JunkKeys = {Bogus}
  SP = 0
  Clients = {x}
  Home <- XatA
  Servers = {c}
  MaxRequests = 1
  SrvAddr = SrvAddr
  NoAddr = NoAddr
  MAXH = 15
  CHAR_HALF = 128
  JunkHops = {0}
  JunkDests = {Bogus}
  IpFits = TRUE
  SlowServer = FALSE
  MaxTime = 0
  MaxCrashes = 0
  NotTime = NotTime
  Targets <- ToC
  AddrLens = {TRUE, FALSE}
  Lossy = TRUE
  Mortal = {}
  Calm = FALSE
  Patient = TRUE
CHECK_DEADLOCK FALSE
INVARIANT RouteKept
INVARIANT OneDataPacket
PROPERTY Settles
