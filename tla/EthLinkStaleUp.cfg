SPECIFICATION EthSpec
CONSTANTS
  l1 = l1
  l2 = l2
  Links = {l1}
  NoLink = NoLink
  NoPath = NoPath
  Bus = Bus
  Threads = {t1}
  Names <- MCNames
  VlanIds = {}
  Paths <- MCPaths
  LinkName <- MCLinkName
  LinkPath <- MCLinkPath
  LinkPsmEnable = {}
  WanMarkings = {l1}
  Hal = "ip"
  Faults = {}
  Requests = {"linkEnable", "refresh"}
  MaxRequests = 3
  MaxPoll = 2
  QuietWrites = TRUE
INVARIANTS
  StatusNotified
CHECK_DEADLOCK FALSE
