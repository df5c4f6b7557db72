SPECIFICATION Spec
CONSTANTS
  SectorSize = 4
  MaxData = 2
  LengthLimit = 8
  BlockSizes = {0, 4}
  Sectors = 3
  Modes = {"emmc"}
  Reads <- SomeReads
  Writes <- SomeWrites
  Trailers = {0}
  Ignored = {"setSecurityMode"}
  Faults = {}
  MaxLogs = 1
  MaxLate = 1
INVARIANT WrittenFromLba
CHECK_DEADLOCK FALSE
