SPECIFICATION Spec
CONSTANTS
  a = a
  b = b
  lo = lo
  eth0 = eth0
  L1 = L1
  L2 = L2
  Nodes = {a, b}
  Lans = {L1, L2}
  Attach <- OnTwo
  NoLan = NoLan
  NoRoute = NoRoute
  Bogus = Bogus
  JunkKeys = {Bogus}
  SP = 0
  MaxCells = 6
  Nics = {lo, eth0, L1, L2}
  Skipped = {lo, eth0}
  Wrong = Wrong
  FirstCap = 2
  CapStep = 2
  Refuses = {TRUE, FALSE}
  MaxChanges = 1
  Kernels <- Machines
  Hops = {1, 2}
  MaxTime = 1
CHECK_DEADLOCK FALSE
INVARIANT RingsLinked
INVARIANT OneEntryPerKey
INVARIANT NothingCut
INVARIANT InterfacesKnown
INVARIANT ListIsTable
PROPERTY DiscoveryEnds
