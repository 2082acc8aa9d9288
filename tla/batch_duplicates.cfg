\* GetMembers with opts nil while members leave: the same address listed twice.
CONSTANTS
  a = a  b = b  c = c
  Null = Null
  Items = {a, b, c}
  MaxLen = 3
  MaxBlocks = 3
  BatchSize = 2
  Pinned = FALSE
SPECIFICATION Spec
INVARIANT MembersDistinct
