SPECIFICATION Spec
CONSTANTS
  Callers = {c1, c2}
  Facts = {f1}
  Partitions = {p1, p2}
  MaxAttempts = 2
  MaxEmits = 2
  MaxFailovers = 1
INVARIANTS
  AckedIsOnTopic
  AckedIsAccountedFor
  TwoIdsNeedFailedEmit
PROPERTIES
  AckedIsRecorded
  EmitReturns
CHECK_DEADLOCK FALSE
