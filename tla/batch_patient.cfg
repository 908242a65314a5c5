SPECIFICATION Spec
CONSTANTS
  MaxRecs = 2
  MaxPipes = 2
  MaxBlocks = 2
  Streaming = FALSE
  AutoStop = FALSE
  StreamingASR = FALSE
  ClipboardFallback = TRUE
  MaxCancels = 2
  Hasty = FALSE
  Outcomes <- FaultButAsr
INVARIANTS
  RevokedNotInserted
PROPERTIES
  ServiceSpec
\* The system idles once the user has used up the bounds.
CHECK_DEADLOCK FALSE
