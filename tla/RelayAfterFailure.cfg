CONSTANTS
  QUEUE_LEN = 2
  SIGNER_PROBE_TRIES = 2
  MaxRequests = 1
  MaxCommands = 1
  MaxPackets = 2
  MaxHubs = 1
SPECIFICATION LiveSpec
PROPERTY FailureEnds
CHECK_DEADLOCK FALSE
