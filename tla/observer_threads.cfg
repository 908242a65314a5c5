SPECIFICATION Spec
CONSTANTS
  MaxSessions = 1
  MaxJobs = 2
  Users = {"hotkey", "qt"}
  MaxLaunches = 1
  MaxCaptures = 2
  Stamps = {1, 2}
INVARIANTS
  TimelineRises

  
\* The launch has ended.
CHECK_DEADLOCK FALSE
