SPECIFICATION FairSpec
CONSTANTS
  MaxRecs = 2
  MaxPipes = 2
  MaxBlocks = 1
  Streaming = FALSE
  AutoStop = FALSE
  StreamingASR = FALSE
  ClipboardFallback = TRUE
  MaxCancels = 1
  Hasty = TRUE
  Outcomes <- LiveFault
INVARIANTS
  ErrorTimerArmed
  InsertedOnce
  RestsIdle
PROPERTIES
  PipelinesFinish
\* The system idles once the user has used up the bounds.
CHECK_DEADLOCK FALSE
