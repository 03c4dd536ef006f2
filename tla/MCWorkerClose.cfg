CONSTANTS
  MaxMessages = 0
  MaxEvents = 0
  MaxCalls = 2
SPECIFICATION FairScriptsSpec
PROPERTY ClosedThreadEnds
CHECK_DEADLOCK FALSE
