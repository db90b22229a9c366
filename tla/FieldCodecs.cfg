CONSTANTS
  DayTicks = 4
  ZeroTime = 4
  EndOfYears = 12
  MinTime <- FirstTime
  MaxTime = 14
SPECIFICATION Spec
INVARIANT LoadsWhatItStored
PROPERTY EchoIsStable
