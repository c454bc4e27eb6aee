SPECIFICATION Spec
CONSTANTS
  Callers = {p1, p2}
  Builds = {"puma7", "bcm"}
  BridgeModes = {0, 2}
  QuietChanges = TRUE
  MaxCalls = 4
  MaxChanges = 3
  MaxMishaps = 1
INVARIANTS
  LayoutBuilt
  ModeFollowed
CHECK_DEADLOCK FALSE
