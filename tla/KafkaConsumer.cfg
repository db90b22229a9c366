SPECIFICATION Spec
CONSTANTS
  Consumers = {c1, c2}
  Partitions = {p1}
  Nobody = Nobody
  MaxOffset = 2
  MaxDisturbances = 2
INVARIANTS
  TypeOK
  NoSkip
  AttemptedIsPrefix
PROPERTIES
  RewindNeedsStaleCommit
  ImplementsAtLeastOnce
  Drains
  StopReturns
CHECK_DEADLOCK FALSE
