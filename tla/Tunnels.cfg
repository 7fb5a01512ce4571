CONSTANTS
  None = None
  Host = Host
  Underlay = "wlan0"
  VPN = {"office", "lab"}
  Device = {"home"}
  TunnelList <- MCTunnelList
  Devices <- MCDevices
  TunnelLike <- MCTunnelLike
  Fixed <- MCFixed
  DevicesOf <- MCDevicesOf
  AddressesOf <- MCAddressesOf
SPECIFICATION FairSpec
INVARIANT
  TunnelsTypeOK
PROPERTIES
  ReportsItsOwn
  FoundInOneTick
  PickedUp
