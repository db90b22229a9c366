CONSTANTS
  Procs = {p1, p2}
  MaxId = 2
  CodeOf <- Codes
  MaxInt = 127
  Sizes = {0, 1}
  MaxCalls = 2
SYMMETRY Symmetry
SPECIFICATION Spec
INVARIANTS HandedOutOnce OneDocPerCode MissNeedsShift
PROPERTY LossNeedsLaterWrite
CHECK_DEADLOCK FALSE
