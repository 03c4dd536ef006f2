CONSTANTS
  v1 = v1  v2 = v2  k1 = k1  k2 = k2  k3 = k3
  N = 2
  None = None
  VMs = {v1, v2}
  Keys = {k1, k2, k3}
  VmOf <- TwoVMs
  MaxPlans = 2
  MaxCollections = 2
SYMMETRY Symmetry
SPECIFICATION Spec
INVARIANTS NoCompilationDuringCollection CancelPathIffCancelled EnoughThreadsAreAwake KnownPlansHaveOnePlace OneVersionAtATime
