SPECIFICATION Spec
CONSTANTS
  Procs = {p1, p2}
  MaxCalls = 2
  MaxOutages = 1
SYMMETRY Symmetry
INVARIANT HealthCheckTellsTheTruth
