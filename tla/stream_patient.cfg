SPECIFICATION FairSpec
CONSTANTS
  MaxRecs = 2
  MaxPipes = 2
  MaxBlocks = 3
  Streaming = TRUE
  AutoStop = FALSE
  StreamingASR = TRUE
  ClipboardFallback = TRUE
  MaxCancels = 1
  Hasty = FALSE
  Outcomes <- StreamFault
INVARIANTS
  TypeOK
  InsertedTail
  CancelledNotInserted
PROPERTIES
  Delivered
\* The system idles once the user has used up the bounds.
CHECK_DEADLOCK FALSE
