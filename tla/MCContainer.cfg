CONSTANTS
  Services = {s1, s2}
  Ids = {c1, c2}
  Null = null
  MaxStarts = 2
  MaxFaults = 1
SPECIFICATION FairSpec
CHECK_DEADLOCK FALSE
INVARIANT TypeOK
INVARIANT ServiceHasContainer
INVARIANT OneContainer
 
INVARIANT NullOnlyByRefresh
PROPERTY OrphanEnds
