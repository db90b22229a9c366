SPECIFICATION Spec
CONSTANTS
  Callers = {c1}
  Facts = {f1}
  Partitions = {p1, p2}
  MaxAttempts = 2
  MaxEmits = 2
  MaxFailovers = 1
INVARIANT PerEventOrder
CHECK_DEADLOCK FALSE
