CONSTANTS
  N = 3
  MaxEvents = 2
SPECIFICATION Spec
CHECK_DEADLOCK FALSE
INVARIANT UpNeedsDeps
INVARIANT ShutdownComplete
INVARIANT ClosuresExact
