CONSTANTS
  Processes = {ui, web}
  Restricted = {web}
  Exiting = {web}
  Strict = {ui}
  Impatient = {ui}
  Mortal = {web}
  MaxSends = 2
SPECIFICATION FairSpec
INVARIANTS NoRequestIsLost ReceivedAreScheduled
CHECK_DEADLOCK FALSE
PROPERTIES MainThreadsReturn
