CONSTANTS
  Create = create
  Others = {read}
  MaxFaults = 1
  MaxSpurious = 1
SPECIFICATION FairSpec
CHECK_DEADLOCK FALSE
INVARIANT TypeOK
 
INVARIANT FileRefsExact
INVARIANT CloseAlone
INVARIANT CloseOnce
INVARIANT CancelNotForgotten
INVARIANT NoLeak
INVARIANT OpenIsClosed
PROPERTY RundownEnds
