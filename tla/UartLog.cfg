SPECIFICATION Spec

CONSTANTS
  Cores = {0, 1}
  PIPE_LEN = 5
  LINE_LEN = 3
  NOTICE_LEN = 2
  CHUNK_LEN = 2
  U32_MAX = 2
  MaxRecords = 4

INVARIANTS
  TypeOK
  WholeLines
  Accounted

CHECK_DEADLOCK FALSE
