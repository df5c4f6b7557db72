SPECIFICATION Spec
CONSTANTS
  Faults = {"unplug"}
  FlushDiscards = FALSE
  FileSize <- Files
  Commands = {}
  Habits = {"careful"}
  BootModes = {0, 2}
  Wanted <- TwoImages
  MaxRequests = 1
  MaxRestarts = 1
  ErrorPhases = {}
  ResultSizes = {1}
INVARIANTS HelloResetIsRetried
CHECK_DEADLOCK FALSE
