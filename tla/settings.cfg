SPECIFICATION Spec
CONSTANTS
  MaxClock = 1
  Setups <- SomeSetups
INVARIANTS
  KeptOnDisk
  
  RunsLastSaved
  RawAfterTwoMishaps
  OneFixIsEnough
CHECK_DEADLOCK FALSE
