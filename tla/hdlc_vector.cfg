SPECIFICATION Spec
CONSTANTS
  Bytes = {0, 1, 2, 3, 4, 5}
  Flag = 0
  Esc = 2
  Masked <- SmallMask
  Crc <- SmallCrc
  Payloads <- ShortPayloads
  Calls = {"vector"}
  Sizes = {5, 12}
  KeepsFlag = {TRUE}
  DeviceOpens = FALSE
  Faults = {}
  MaxFrames = 2
INVARIANT VectorReadDelivers
CHECK_DEADLOCK FALSE
