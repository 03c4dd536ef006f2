CONSTANTS
  MaxMessages = 2
  MaxEvents = 1
  MaxCalls = 2
SPECIFICATION FairSpec
INVARIANTS CountIsRight CollectedHasNoMessages ProxyOutlivesUsers ShutdownIsComplete
PROPERTIES TerminatedThreadEnds ProxyIsDeleted
CHECK_DEADLOCK FALSE
