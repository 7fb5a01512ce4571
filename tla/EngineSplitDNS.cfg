SPECIFICATION Spec
CONSTANTS
  a = a
  b = b
  c1 = c1
  c6 = c6
  r1 = r1
  d1 = d1
  s1 = s1
  Cidr = {}
  Inet6 = {}
  PrefixLen <- MCPrefixLen
  TableId = {200}
  Device = {a}
  Server = {s1}
  Foreign = {}
  MaxJumps = 1
  NoCidr = NoCidr
  NoRoute = NoRoute
  Blackhole = Blackhole
  RuleId = {}
  Domain = {d1}
  Direct = Direct
  DefaultFallback = {s1}
  InitialConfigs <- MCSplitDNS
  Edits <- MCSplitDNSEdits
  Requests = {"start", "stop", "dns", "delete", "link", "fault", "reload", "crash", "edit"}
  NoConf = NoConf
INVARIANTS
  StopExact
  ApplyExact
PROPERTIES
  KeepsConfigStore
  UsesDnsService
