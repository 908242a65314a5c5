SPECIFICATION Spec
CONSTANTS
  MaxRecs = 2
  MaxPipes = 3
  MaxBlocks = 2
  Streaming = TRUE
  AutoStop = TRUE
  StreamingASR = FALSE
  ClipboardFallback = FALSE
  MaxCancels = 0
  Hasty = FALSE
  Outcomes <- LiveFault
INVARIANTS
  InsertedWhole
\* The system idles once the user has used up the bounds.
CHECK_DEADLOCK FALSE
