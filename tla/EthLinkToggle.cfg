SPECIFICATION EthSpec
CONSTANTS
  l1 = l1
  l2 = l2
  Links = {l1, l2}
  NoLink = NoLink
  NoPath = NoPath
  Bus = Bus
  Threads = {t1}
  Names <- MCNames
  VlanIds = {}
  Paths <- MCPaths
  LinkName <- MCLinkName
  LinkPath <- MCLinkPath
  LinkPsmEnable = {}
  WanMarkings = {l1}
  Hal = "ip"
  Faults = {"memory"}
  Requests = {"linkEnable", "linkStatus", "priorityTagging", "refresh"}
  MaxRequests = 5
  MaxPoll = 2
  QuietWrites = TRUE
INVARIANTS
  LinkFollowsEnable
PROPERTIES
  ReportsAreTrue
CHECK_DEADLOCK FALSE
