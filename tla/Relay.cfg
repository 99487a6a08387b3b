CONSTANTS
  QUEUE_LEN = 2
  SIGNER_PROBE_TRIES = 2
  MaxRequests = 4
  MaxCommands = 3
  MaxPackets = 4
  MaxHubs = 2
SPECIFICATION Spec
INVARIANTS TypeOK DropsCounted
PROPERTY InOrder
CHECK_DEADLOCK FALSE
