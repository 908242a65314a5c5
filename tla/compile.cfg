SPECIFICATION Spec
CONSTANTS
  Sessions = {1, 2}
  Formats <- BothFormats
  BlockGap = 5
  OcrLines = 2
  LlmLines = 2
  Setups <- SomeSetups
INVARIANTS
  SummariesOfTheirBlocks
  ReportedStands
  TimelineKept
CHECK_DEADLOCK FALSE
