SPECIFICATION FairGuiSpec
CONSTANTS
  Domain = {d1}
  Via = {tun}
  Slot = {k1, k2}
  MaxOrphans = 1
  Pending = Pending
  Failed = Failed
INVARIANTS
  GuiTypeOK
  OnePoll
PROPERTIES
  PollShows
  Settles
