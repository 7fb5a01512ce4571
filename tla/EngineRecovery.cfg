SPECIFICATION FairSpec
CONSTANTS
  a = a
  b = b
  c1 = c1
  c6 = c6
  r1 = r1
  d1 = d1
  s1 = s1
  Cidr = {c1}
  Inet6 = {}
  PrefixLen <- MCPrefixLen
  TableId = {200}
  Device = {a}
  Server = {s1}
  Foreign = {}
  MaxJumps = 1
  NoCidr = NoCidr
  NoRoute = NoRoute
  Blackhole = Blackhole
  RuleId = {r1}
  Domain = {d1}
  Direct = Direct
  DefaultFallback = {s1}
  InitialConfigs <- MCRecovery
  Edits <- MCRecoveryEdits
  Requests = {"start", "stop", "reload", "edit", "link", "fault", "crash", "reboot", "settle"}
  NoConf = NoConf
PROPERTIES
  Heals
  HealsInOneApply
