SPECIFICATION Spec
CONSTANTS
  Threads = {t1}
  Bus = Bus
  Blocks = {b1, b2}
  NULL = NULL
  MaxRows = 1
  MaxOps = 4
  Hal = "json"
  Faults = {}
INVARIANTS
  NoBadAccess
CHECK_DEADLOCK FALSE
