SPECIFICATION Spec
CONSTANTS
  l1 = l1
  l2 = l2
  v1 = v1
  v2 = v2
  Shape = "tagged"
  Links <- MCLinks
  Vlans <- MCVlans
  NoLink = NoLink
  NoVlan = NoVlan
  NoThread = NoThread
  NoPath = NoPath
  Bus = Bus
  Threads = {t1, t2}
  Names <- MCNames
  VlanIds <- MCVlanIds
  Paths <- MCPaths
  LinkName <- MCLinkName
  LinkPath <- MCLinkPath
  VlanPath <- MCVlanPath
  LinkPsmEnable = {}
  PsmEnable = {}
  PsmId <- MCPsmId
  PsmName <- MCPsmName
  PsmLower <- MCPsmLower
  BaseInterface <- MCBase
  MarkingLink <- MCMarkingLink
  RollbackName <- MCRollbackName
  WanMarkings = {l1}
  Hal = "ip"
  Faults = {}
  Requests = {"vlanEnable"}
  MaxRequests = 2
  MaxPoll = 2
  QuietWrites = TRUE
  MaxCrashes = 0
INVARIANTS
  EnableApplied
CHECK_DEADLOCK FALSE
