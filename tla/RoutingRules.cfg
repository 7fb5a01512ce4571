SPECIFICATION FairRoutingSpec
CONSTANTS
  c1 = c1
  c6 = c6
  Cidr = {c1}
  Inet6 = {}
  PrefixLen <- MCPrefixLen
  TableId = {200, 201}
  Device = {}
  Server = {s1}
  Foreign <- MCForeign
  MaxJumps = 2
  NoCidr = NoCidr
  NoRoute = NoRoute
  Blackhole = Blackhole
INVARIANTS
  RoutingTypeOK
  ForeignUntouched
  ReconcileExact
  RoutingInv
  MarksExact
  CleanupIsolated
PROPERTIES
  OnlyDifferencesTouched
  AddBeforeDelete
  CallReturns
