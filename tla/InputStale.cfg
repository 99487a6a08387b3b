CONSTANTS
  Reports <- SomeReports
  MaxReports = 1
  MaxWheels = 2
SPECIFICATION Spec
INVARIANT NeutralFirst
CHECK_DEADLOCK FALSE
