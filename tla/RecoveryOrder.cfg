SPECIFICATION Spec
CONSTANTS
  Requests = {r1}
  MaxCalls = 1
  Chains <- ReadmeOrders
INVARIANT RecoveryRecovers
