SPECIFICATION FairSpec
CONSTANTS
  Callers = {p1, p2}
  Interfaces = {1}
  MaxLooks = 2
  Mishaps = {"header", "timeout", "refuse", "break", "noreply"}
  MaxCalls = 3
  MaxBreaks = 1
INVARIANTS
  OkIsServed
  DeletedIsGone
  NothingHeld
PROPERTIES
  CallsReturn
CHECK_DEADLOCK FALSE
