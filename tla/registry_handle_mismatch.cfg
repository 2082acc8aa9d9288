\* A bound contract built from address and ABI cache entries of different ages.
CONSTANTS
  p1 = p1  p2 = p2  n1 = n1  n2 = n2  L1 = L1  L2 = L2
  NoHolder = NoHolder
  Procs = {p1, p2}
  TTL = 1
  MaxTime = 3
  MaxVersion = 2
SPECIFICATION Spec
CONSTANTS
  Names = {n1}
  Locks = {L1}
  Workloads <- GettersProgram
INVARIANT HandleConsistent
