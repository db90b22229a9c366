CONSTANTS
  MaxNodes = 4
  MaxCalls = 2
SPECIFICATION Spec
INVARIANTS IdFollowsTheCalls NilMeansPosted
CHECK_DEADLOCK FALSE
