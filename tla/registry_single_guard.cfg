\* Two goroutines: both through the getter of n1, or the unguarded direct calls.
CONSTANTS
  p1 = p1  p2 = p2  n1 = n1  n2 = n2  L1 = L1  L2 = L2
  NoHolder = NoHolder
  Procs = {p1, p2}
  Names = {n1}
  Locks = {L1}
  Workloads <- WorkloadsSingleGuard
  TTL = 1
  MaxTime = 3
  MaxVersion = 2
SPECIFICATION Spec
INVARIANT TypeOK
INVARIANT GuardedCacheNeverRegresses
PROPERTY NoOverwrite
PROPERTY CallsReturn
