\* FilterContractLogs with intervalSize 1: the second call's chunk is empty.
CONSTANTS
  Nil = Nil
  MaxBlock = 5
  InitialHead = 3
  DeployBlock = 1
  IntervalSizes = {1}
  Callers <- OnlyFilterContractLogs
  p1 = p1  p2 = p2  p3 = p3
  Pubkeys = {p1, p2}
  BlockDeposits <- ChainDeposits
  GetDepositsCaller <- DepositsQueries
SPECIFICATION DSpec
PROPERTY CallerReturns
