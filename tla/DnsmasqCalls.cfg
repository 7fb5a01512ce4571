SPECIFICATION DnsSpec
CONSTANTS
  Addr = {lo, lan}
  List = {l1, l2}
  NoFile = NoFile
INVARIANTS
  DnsTypeOK
  ApplyServesList
  ApplyReadsWhatItWrote
  CleanupKeepsOn
  DnsInv
PROPERTY
  KeepsDnsService
