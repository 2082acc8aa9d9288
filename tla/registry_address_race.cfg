\* An unguarded GetAddress racing the getter of the same name.
CONSTANTS
  p1 = p1  p2 = p2  n1 = n1  n2 = n2  L1 = L1  L2 = L2
  NoHolder = NoHolder
  Procs = {p1, p2}
  TTL = 1
  MaxTime = 3
  MaxVersion = 2
SPECIFICATION Spec
CONSTANTS
  Names = {n1}
  Locks = {L1}
  Workloads <- GetterAndAddressProgram
INVARIANT CacheNeverRegresses
