SPECIFICATION Spec
CONSTANTS
  Faults = {}
  FlushDiscards = FALSE
  FileSize <- Files
  Commands = {}
  Habits = {"careful", "rereads"}
  BootModes = {0}
  Wanted <- TwoImages
  MaxRequests = 2
  MaxRestarts = 0
  ErrorPhases = {}
  ResultSizes = {1}
INVARIANTS NoMutualWait
CHECK_DEADLOCK FALSE
