SPECIFICATION LiveSpec

CONSTANTS
  LinkCap = 4
  QueueLen = 2
  MinDetach = 5
  HaltTimeout = 10
  RecoveryInterval = 50
  ReplugTime = 9
  WakeTime = 1

INVARIANTS
  TypeOK
  LinkTracksWheel
  QueuesFresh

PROPERTIES
  ConsoleSeesUnplug
  GoneSeen
  BackOn
