SPECIFICATION FairSpec
CONSTANTS
  MaxRecs = 2
  MaxPipes = 2
  MaxBlocks = 1
  Streaming = TRUE
  AutoStop = FALSE
  StreamingASR = TRUE
  ClipboardFallback = TRUE
  MaxCancels = 0
  Hasty = TRUE
  Outcomes <- NoFault
PROPERTIES
  StreamWaitEnds
\* The system idles once the user has used up the bounds.
CHECK_DEADLOCK FALSE
