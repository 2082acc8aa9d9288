\* The three caller shapes (FilterContractLogs, the participation estimator,
\* GetDeposits), with intervalSize nil or 3 shared by all their calls.
CONSTANTS
  Nil = Nil
  MaxBlock = 5
  InitialHead = 3
  DeployBlock = 1
  IntervalSizes = {3, Nil}
  Callers <- BothCallers
  p1 = p1  p2 = p2  p3 = p3
  Pubkeys = {p1, p2}
  BlockDeposits <- ChainDeposits
  GetDepositsCaller <- DepositsQueries
SPECIFICATION DSpec
INVARIANT TypeOK
INVARIANT LogsExact
INVARIANT ChunkWithinLimit
INVARIANT DepositsExact
PROPERTY CallerReturns
