\* The estimator against a chain that advances while it runs.
CONSTANTS
  a = a  b = b
  Nodes = {a, b}
  Freq = 2
  Lookback = 2
  Width = 6
  InitialHead = 3
  MaxBlock = 8
SYMMETRY Symm
SPECIFICATION Spec
INVARIANT TypeOK
INVARIANT WindowAfterLastChange
INVARIANT TableExact
INVARIANT LatestTableCurrent
