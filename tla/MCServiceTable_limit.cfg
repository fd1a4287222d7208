SPECIFICATION Spec
CONSTANTS
  Clients = {"c1"}
  Workers = {"w1"}
  Operations = {"start"}
  RestartPeriod = 2
  RestartLimit = 2
  MaxOps = 1
  MaxDeaths = 3
  MaxFaults = 0
INVARIANT RestartsLimited
CHECK_DEADLOCK FALSE
