CONSTANTS
  Threads = {t1, t2}
  Addresses = {a1}
  Null = Null
  BucketOf <- OneBucket
  Timeouts = {"never", "pending"}
  MayParkInHand = TRUE
  MaxParks = 2
SPECIFICATION Spec
INVARIANT ReturnedAreOffTheQueues
