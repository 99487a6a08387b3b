CONSTANTS
  MAX_PORTS = 3
  CHILDREN = 2
  ENUM_ATTEMPTS = 2
  MaxAddr = 3
  MaxDevices = 3
SPECIFICATION LiveSpec
INVARIANTS TypeOK ServesAttached  AddressesKept
PROPERTY GoneReleased
CHECK_DEADLOCK FALSE
