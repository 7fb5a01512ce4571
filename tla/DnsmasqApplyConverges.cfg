SPECIFICATION DnsSpec
CONSTANTS
  Addr = {lo}
  List = {l1}
  NoFile = NoFile
INVARIANT
  ApplyConverges
