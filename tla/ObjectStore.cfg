SPECIFICATION Spec
CONSTANTS
  Keys = 2
  Proc = {p, q}
  SingleMax = 1
  Workloads <- MCWorkloads
SYMMETRY Symmetry
CHECK_DEADLOCK FALSE
INVARIANTS PartsOutliveCompletion AcknowledgedWritesStick ReadsAreSound
PROPERTIES StoreIsAtomic CompletionIsExact
