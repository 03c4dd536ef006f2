CONSTANTS
  t1 = t1
  Threads = {t1, t2, t3}
  Null = Null
  SpinLimit = 1
  WeakCASMayFail = TRUE
SPECIFICATION FairSpec
INVARIANTS StoresAreNotStale QueueIsSound
PROPERTIES ImplementsMutex SleepersWake
