SPECIFICATION Spec
CONSTANTS
  Threads = {t1}
  Bus = Bus
  Blocks = {b1, b2, b3}
  NULL = NULL
  MaxRows = 2
  MaxOps = 4
  Hal = "ip"
  Faults = {}
CHECK_DEADLOCK FALSE
INVARIANTS
  HandleIdentifies
