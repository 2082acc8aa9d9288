\* Two CreateLot or SubmitProposal calls in a row, sent before the first is mined.
CONSTANTS
  p1 = p1
  Callers = {p1}
  MaxCalls = 2
  MaxOther = 0
SPECIFICATION Spec
INVARIANT IdsMatch
