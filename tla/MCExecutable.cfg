SPECIFICATION FairSpec
CONSTANTS
  Type = "EXECUTABLE"
  MaxLaunches = 2
  MaxFaults = 1
  MaxStrangers = 1
INVARIANTS TypeOK NeverMisfires OneInstance RunningWasReady NoTaskWhenDown UpIsAnnounced IInv
PROPERTIES ImplementsLifecycle StartResolves DeathNoticed
CHECK_DEADLOCK FALSE
