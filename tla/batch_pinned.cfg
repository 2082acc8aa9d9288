\* GetMembers with opts pinned to the head at the call, and the minipool
\* readers and the auction lot readers with
\* opts pinned or nil.
CONSTANTS
  a = a  b = b  c = c
  Null = Null
  Items = {a, b, c}
  MaxLen = 3
  MaxBlocks = 3
  BatchSize = 2
  Pinned = TRUE
  Statuses = {"prelaunch", "staking"}
  MaxMinipools = 3
  PageSize = 2
SPECIFICATION CSpec
INVARIANT CTypeOK PagedPinnedExact NilScanCountsEach PinnedLots
PROPERTY Snapshot MinipoolsSnapshot
