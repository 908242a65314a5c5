SPECIFICATION FairSpec
CONSTANTS
  MaxJobs = 4
  MaxCalls = 2
  Depth = 2
INVARIANTS
  TypeOK
  TextsInOrder
  FreshestKept
  AllAccounted
PROPERTIES
  AmbientServed
  StopEnds
\* Every job is answered and every call is over.
CHECK_DEADLOCK FALSE
