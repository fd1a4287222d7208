SPECIFICATION Spec
CONSTANTS
  Clients = {"c1"}
  Workers = {"w1"}
  Operations = {"start", "stop"}
  RestartPeriod = 1
  RestartLimit = 2
  MaxOps = 2
  MaxDeaths = 1
  MaxFaults = 0
PROPERTY StopHolds
CHECK_DEADLOCK FALSE
