SPECIFICATION RoutingSpec
CONSTANTS
  c1 = c1
  c6 = c6
  Cidr = {c1}
  Inet6 = {}
  PrefixLen <- MCPrefixLen
  TableId = {200}
  Device = {}
  Server = {}
  Foreign <- MCForeign
  MaxJumps = 2
  NoCidr = NoCidr
  NoRoute = NoRoute
  Blackhole = Blackhole
INVARIANT
  CleanupRemovesEveryTrace
