SPECIFICATION FairSpec
CONSTANTS
  MaxSessions = 2
  MaxJobs = 2
  Users = {"hotkey"}
  MaxLaunches = 2
  MaxCaptures = 1
  Stamps = {1}
INVARIANTS
  TypeOK
PROPERTIES
  BundleComplete
  CompilationReported
\* The last launch has ended.
CHECK_DEADLOCK FALSE
