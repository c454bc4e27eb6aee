SPECIFICATION Spec
CONSTANTS
  Main = Main
  Bus = Bus
  Consoles = {TRUE, FALSE}
  Faults = {"fork", "pid", "bus", "memory", "plugin", "register", "cdm"}
  MaxCommands = 5
INVARIANTS
  ComponentIsWhole
  NoUseAfterFree
  GreenIsRegistered
PROPERTIES
  ReadyHasComponent
CHECK_DEADLOCK FALSE
