SPECIFICATION LiveSpec

CHECK_DEADLOCK FALSE

CONSTANTS
  QueueLen = 1
  Leds = {1, 2}
  MaxWheels = 2
  MaxPings = 2
  MaxEntries = 2
  MaxOwed = 2

INVARIANTS
  TypeOK
  RightSide
  LightsFollow

PROPERTIES
  IndexKept
  GetsServed
