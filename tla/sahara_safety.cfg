SPECIFICATION Spec
CONSTANTS
  Faults = {"late", "unplug"}
  FlushDiscards = FALSE
  FileSize <- Files
  Commands = {1, 2}
  Habits = {"careful", "aborts"}
  BootModes = {0, 2}
  Wanted <- TwoImages
  MaxRequests = 2
  MaxRestarts = 1
  ErrorPhases = {"tx", "ready", "ended"}
  ResultSizes = {1, 3}
INVARIANTS TypeOK InStep ImageIntact NoMutualWait DoneIsAcknowledged ResultIsOfCommand
CHECK_DEADLOCK FALSE
