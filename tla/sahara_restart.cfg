SPECIFICATION Spec
CONSTANTS
  Faults = {}
  FlushDiscards = FALSE
  FileSize <- Files
  Commands = {}
  Habits = {"careful"}
  BootModes = {0}
  Wanted <- TwoImages
  MaxRequests = 1
  MaxRestarts = 1
  ErrorPhases = {}
  ResultSizes = {1}
PROPERTIES RequestIsGenuine
CHECK_DEADLOCK FALSE
