CONSTANTS
  MAX_PACKET = 3
  PacketSizes = {2, 3}
  Lengths = {0, 2, 3}
  QUEUE_LEN = 2
  MaxUnits = 3
  MaxDevices = 2
  MaxResets = 1
SPECIFICATION LiveSpec
INVARIANTS TypeOK NothingOld
PROPERTIES WholeInOrder KeepsUp
CHECK_DEADLOCK FALSE
