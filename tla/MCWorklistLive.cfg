CONSTANTS
  v1 = v1  v2 = v2  k1 = k1  k2 = k2  k3 = k3
  N = 1
  None = None
  VMs = {v1, v2}
  Keys = {k1, k3}
  VmOf <- OneKeyEach
  MaxPlans = 2
  MaxCollections = 2
SPECIFICATION FairSpec
CHECK_DEADLOCK FALSE
PROPERTIES
  WaitsEnd
  CollectionsFinish
  ThreadsJoin
