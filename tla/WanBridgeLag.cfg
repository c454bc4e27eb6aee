SPECIFICATION Spec
CONSTANTS
  Callers = {p1, p2}
  Builds = {"puma7"}
  BridgeModes = {0}
  QuietChanges = TRUE
  MaxCalls = 4
  MaxChanges = 3
  MaxMishaps = 0
INVARIANTS
  ModeOfLastCall
CHECK_DEADLOCK FALSE
