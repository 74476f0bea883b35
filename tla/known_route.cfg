SPECIFICATION FairSpec
CONSTANTS
  a = a
  b = b
  c = c
  d = d
  e = e
  L1 = L1
  L2 = L2
  L3 = L3
  L4 = L4
  L5 = L5
  x = x
  y = y
  Nodes = {a, b, c, d, e}
  Lans = {L1, L2, L3, L4}
  Attach <- Kite
  NoLan = NoLan
  Aliased <- NoAlias
  NoRoute = NoRoute
  Bogus = Bogus
  JunkKeys = {Bogus}
  SP = 0
  Clients = {x}
  Home <- XatA
  Servers = {e}
  MaxRequests = 2
  SrvAddr = SrvAddr
  NoAddr = NoAddr
  MAXH = 15
  CHAR_HALF = 128
  JunkHops = {0}
  JunkDests = {Bogus}
  IpFits = TRUE
  SlowServer = FALSE
  MaxTime = 0
  MaxCrashes = 1
  NotTime = NotTime
  Targets <- ToE
  AddrLens = {TRUE}
  Lossy = FALSE
  Mortal = {a, b, d}
  Calm = TRUE
  Patient = TRUE
CHECK_DEADLOCK FALSE
INVARIANT RouteKept
PROPERTY Answered
PROPERTY AnsweredInTwo
PROPERTY DaemonsStayUp
PROPERTY ServiceKept
