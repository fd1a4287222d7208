SPECIFICATION FairSpec
CONSTANTS
  Clients = {"c1", "c2"}
  Workers = {"w1"}
  Operations = {"start"}
  RestartPeriod = 1
  RestartLimit = 2
  MaxOps = 2
  MaxDeaths = 0
  MaxFaults = 0
PROPERTY StartReturns
CHECK_DEADLOCK FALSE
