SPECIFICATION Spec
CONSTANTS
  MaxVlans = 2
  MaxLinks = 2
  MaxCfgs = 2
  MaxMisses = 2
  Faults = {"hal", "sysevent", "memory"}
INVARIANTS
  TypeOK
  VlanFieldsOwn
  IdsOfRegion
  LinkFieldsNear
CHECK_DEADLOCK FALSE
