SPECIFICATION Spec
CONSTANTS
  a = a
  b = b
  c = c
  d = d
  e = e
  L1 = L1
  L2 = L2
  L3 = L3
  L4 = L4
  L5 = L5
  x = x
  y = y
  Nodes = {a, b, c}
  Lans = {L1, L2}
  Attach <- Line3
  NoLan = NoLan
  Aliased <- NoAlias
  NoRoute = NoRoute
  Bogus = Bogus
  JunkKeys = {Bogus}
  SP = 0
  Clients = {x, y}
  Home <- XatAYatC
  Servers = {a, c}
  MaxRequests = 1
  SrvAddr = SrvAddr
  NoAddr = NoAddr
  MAXH = 3
  CHAR_HALF = 2
  JunkHops = {0, 9}
  JunkDests = {Bogus, b}
  IpFits = TRUE
  SlowServer = TRUE
  MaxTime = 1
  MaxCrashes = 0
  NotTime = NotTime
  Targets <- Crossed
  AddrLens = {TRUE}
  Lossy = FALSE
  Mortal = {}
  Calm = FALSE
  Patient = TRUE
CHECK_DEADLOCK FALSE
INVARIANT TypeOK
INVARIANT NextHopAttached
INVARIANT AskedServersTime
INVARIANT HearsAgain
PROPERTY ExitsExplained
PROPERTY RoutesRemembered
