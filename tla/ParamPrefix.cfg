SPECIFICATION Spec
CONSTANTS
  Base = 2
  Radix = 2
  MacSpan = 8
  Surplus = 4
  Links = {1, 2}
  Vlans = {1, 2}
  MacAddrOffSet <- MCMacAddrOffSet
  BaseInterfaces = {"eth0", "eth1", "ptm0"}
  Prefix <- MCPrefix
  LinkSets <- MCLinkSets
  VlanSets <- MCVlanSets
  PsmLink <- MCPsmLink
  PsmVlan <- MCPsmVlan
  NoMac = NoMac
  Faults = {"spawn", "base"}
  MaxSets = 3
PROPERTIES
  RefreshFindsOver
CHECK_DEADLOCK FALSE
