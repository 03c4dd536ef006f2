CONSTANTS
  t1 = t1  t2 = t2  t3 = t3
  a1 = a1  a2 = a2
  Threads = {t1, t2, t3}
  Addresses = {a1, a2}
  Null = Null
  Hash <- HashOfAddresses
  Used <- Roles
  BucketIds = {1, 2, 3}
  MaxLoadFactor = 1
  GrowthFactor = 1
SPECIFICATION Spec
CHECK_DEADLOCK FALSE
INVARIANTS QueuedAreFound NoCircularWait
PROPERTIES EachAddressIsAQueue UnparkMissesNobody
