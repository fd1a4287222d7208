SPECIFICATION FairSpec
CONSTANTS
  Clients = {"c1", "c2"}
  Workers = {"w1"}
  Operations = {"start", "stop", "refresh", "wait", "update", "setglobal"}
  RestartPeriod = 1
  RestartLimit = 2
  MaxOps = 2
  MaxDeaths = 2
  MaxFaults = 1
INVARIANTS TypeOK RestartOwed RestartBudget IInv
PROPERTY SleeperWoken
CHECK_DEADLOCK FALSE
