CONSTANTS
  Threads = {w1, w2, n1}
  Waiters = {w1, w2}
  Addresses = {c1}
  Null = Null
  BucketOf <- OneBucket
  Timeouts = {"never", "pending"}
  MayParkInHand = FALSE
  MaxTokens = 3
  MaxWaits = 4
SPECIFICATION FairSpec
CHECK_DEADLOCK FALSE
INVARIANT TokensAreAnnounced
PROPERTIES TokensAreTaken TimedWaitsReturn
