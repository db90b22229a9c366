SPECIFICATION Spec
CONSTANTS
  Requests = {r1}
  MaxCalls = 2
  Chains <- AllOrders
INVARIANTS
  CrashNeedsCause
  TimeoutAnswerNeedsDeadline
  LateOnlyIfCut
  LoggedStatusIsSent
  RecoveredPanicAnswered
PROPERTIES
  AnsweredDespiteStuckHandler
  AbandonedHandlerStops
