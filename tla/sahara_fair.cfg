SPECIFICATION FairSpec
CONSTANTS
  Faults = {"late"}
  FlushDiscards = TRUE
  FileSize <- Files
  Commands = {}
  Habits = {"careful", "rereads"}
  BootModes = {0}
  Wanted <- TwoImages
  MaxRequests = 3
  MaxRestarts = 0
  ErrorPhases = {"hello", "tx", "ended"}
  ResultSizes = {1}
PROPERTIES RequestIsGenuine TransferEnds
CHECK_DEADLOCK FALSE
