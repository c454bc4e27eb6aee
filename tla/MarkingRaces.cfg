SPECIFICATION Spec
CONSTANTS
  Threads = {t1}
  Bus = Bus
  Blocks = {b1, b2, b3}
  NULL = NULL
  MaxRows = 2
  MaxOps = 3
  Hal = "json"
  Faults = {"memory"}
INVARIANTS
  NoBadAccess
  NoLeak
  CopyIsCurrent
CHECK_DEADLOCK FALSE
