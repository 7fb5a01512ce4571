SPECIFICATION Spec
CONSTANTS
  a = a
  b = b
  c1 = c1
  c6 = c6
  r1 = r1
  d1 = d1
  s1 = s1
  Cidr = {c1}
  Inet6 = {}
  PrefixLen <- MCPrefixLen
  TableId = {200, 201}
  Device = {a}
  Server = {s1}
  Foreign = {}
  MaxJumps = 1
  NoCidr = NoCidr
  NoRoute = NoRoute
  Blackhole = Blackhole
  RuleId = {r1}
  Domain = {}
  Direct = Direct
  DefaultFallback = {s1}
  InitialConfigs <- MCOneTunnel
  Edits = {}
  Requests = {"start", "stop", "tunnels", "delete", "rule", "enable", "fallback", "tunnel", "reload", "crash"}
  NoConf = NoConf
INVARIANTS
  TypeOK
  ApplyExact
