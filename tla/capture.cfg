SPECIFICATION FairSpec
CONSTANTS
  Depth = 2
  Preroll = 1
  Silence = 1
  Least = 1
  Most = 2
  Window = 2
  Cost = 2
  Interval = 1
  Settle = 1
  QueueDepth = 1
  Windows = {"editor", "vault"}
  Secret = {"vault"}
  Setups <- SomeSetups
  MaxSessions = 2
  MaxBlobs = 1
INVARIANTS
  UtterancesInOrder
  SpeechKept
  Paced
  SecretOnlyIfMoved
  
CHECK_DEADLOCK FALSE
PROPERTIES
  SessionStops
