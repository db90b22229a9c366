SPECIFICATION Spec
CONSTANTS
  Records = {r1, r2, r3}
  BelowLevel = {r3}
  MaxQueue = 1
  MaxInits = 2
  MaxDerive = 2
INVARIANTS
  NothingStaysOpen
  SinksAgree
PROPERTIES
  OnlineRecordsSettle
  ShutdownFlushesOrReports
CHECK_DEADLOCK FALSE
