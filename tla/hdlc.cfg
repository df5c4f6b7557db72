SPECIFICATION Spec
CONSTANTS
  Bytes = {0, 1, 2, 3, 4, 5}
  Flag = 0
  Esc = 2
  Masked <- SmallMask
  Crc <- SmallCrc
  Payloads <- ShortPayloads
  Calls = {"pointer"}
  Sizes = {5, 12}
  KeepsFlag = {TRUE, FALSE}
  DeviceOpens = FALSE
  Faults = {"late", "stall"}
  MaxFrames = 2
INVARIANTS TypeOK RequestsArrive PointerReadDelivers
CHECK_DEADLOCK FALSE
