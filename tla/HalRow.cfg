SPECIFICATION Spec
CONSTANTS
  Callers = {p1, p2}
  Interfaces = {1, 2}
  MaxLooks = 2
  Mishaps = {"timeout", "refuse"}
  MaxCalls = 2
  MaxBreaks = 0
INVARIANTS
  RowIsOwn
CHECK_DEADLOCK FALSE
