CONSTANTS
  Create = create
  Others = {read}
  MaxFaults = 0
  MaxSpurious = 0
SPECIFICATION Spec
CHECK_DEADLOCK FALSE
INVARIANT NeverResurrected
