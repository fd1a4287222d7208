SPECIFICATION FairSpec
CONSTANTS
  Type = "EXECUTABLE"
  MaxLaunches = 1
  MaxFaults = 0
  MaxStrangers = 0
PROPERTIES StopNoticed
CHECK_DEADLOCK FALSE
