SPECIFICATION FairSpec
CONSTANTS
  SectorSize = 2
  MaxData = 2
  LengthLimit = 8
  BlockSizes = {0, 4}
  Sectors = 3
  Modes = {"emmc"}
  Reads <- SomeReads
  Writes <- SomeWrites
  Trailers = {0}
  Ignored = {"setSecurityMode"}
  Faults = {"late", "log", "error", "short"}
  MaxLogs = 1
  MaxLate = 1
INVARIANTS TypeOK OpenedIsOpen
PROPERTIES StoreKept CallsEnd
CHECK_DEADLOCK FALSE
