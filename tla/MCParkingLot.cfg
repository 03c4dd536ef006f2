CONSTANTS
  Threads = {t1, t2, t3}
  Addresses = {a1, a2}
  Null = Null
  BucketOf <- OneBucket
  Timeouts = {"never", "pending"}
  MayParkInHand = FALSE
  MaxParks = 4
SPECIFICATION Spec
SYMMETRY Symmetry
INVARIANTS QueuesHoldTheParked ListsAreQueues ResultIsHonest SleepersHaveAWaker
