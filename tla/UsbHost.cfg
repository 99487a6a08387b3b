CONSTANTS
  MAX_HID_INTERFACES = 2
  MAX_REPORTS = 2
  STACK_LEN = 1
  FEATURE_BUF_LEN = 4
  U32 = 32
  Roles = {"Wheel", "Relay"}
  Configs <- SomeConfigs
  Descs <- SomeDescs
  ReportValues = {0, 1}
  REPORT_DESC_BUF_LEN = 7
  REPORT_LOG_INTERVAL = 2
  CHILDREN = 2
  MaxAddr = 3
  MaxDevices = 2
SPECIFICATION LiveHostSpec
INVARIANTS HostTypeOK InterfacesFound ProbeReads ChangesLogged
PROPERTY ServedInTheEnd
CHECK_DEADLOCK FALSE
