CONSTANTS
  Reports <- SomeReports
  MaxReports = 2
  MaxWheels = 2
SPECIFICATION Spec
INVARIANTS TypeOK ConsoleReadsWheel UpToDate
CHECK_DEADLOCK FALSE
