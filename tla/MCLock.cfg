CONSTANTS
  t1 = t1
  Threads = {t1, t2, t3}
  Addresses = {l1}
  Null = Null
  BucketOf <- OneBucket
  SpinLimit = 1
  WeakCASMayFail = TRUE
SPECIFICATION FairSpec
INVARIANTS CallbackSeesBothBits ParkedAreServed
PROPERTIES ImplementsMutex ParkedAreUnparked
