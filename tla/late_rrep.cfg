SPECIFICATION Spec
CONSTANTS
  a = a
  b = b
  c = c
  d = d
  e = e
  L1 = L1
  L2 = L2
  L3 = L3
  L4 = L4
  L5 = L5
  x = x
  y = y
  Nodes = {a, b, c}
  Lans = {L1, L2, L3}
  Attach <- Triangle
  NoLan = NoLan
  Aliased <- NoAlias
  NoRoute = NoRoute
  Bogus = Bogus
  JunkKeys = {Bogus}
  SP = 0
  Clients = {x}
  Home <- XatA
  Servers = {b, c}
  MaxRequests = 2
  SrvAddr = SrvAddr
  NoAddr = NoAddr
  MAXH = 15
  CHAR_HALF = 128
  JunkHops = {0}
  JunkDests = {Bogus}
  IpFits = TRUE
  SlowServer = FALSE
  MaxTime = 0
  MaxCrashes = 0
  NotTime = NotTime
  Targets <- ToBC
  AddrLens = {TRUE}
  Lossy = FALSE
  Mortal = {}
  Calm = FALSE
  Patient = TRUE
CHECK_DEADLOCK FALSE
INVARIANT ReplyMatches
