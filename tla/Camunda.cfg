CONSTANTS
  Facts = {f1}
  MaxPublish = 3
  MaxWaits = 2
SPECIFICATION CamundaSpec
INVARIANTS TwiceNeedsFailedPublish UpMeansEnabled
CHECK_DEADLOCK FALSE
