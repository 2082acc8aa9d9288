\* Every proposal fetcher, with opts pinned or nil, while the chain changes.
CONSTANTS
  d1 = d1  d2 = d2
  AllDAOs = AllDAOs
  NoDAO = NoDAO
  DAOs = {d1, d2}
  MaxProposals = 3
  MaxVersion = 1
  MaxBlocks = 3
  NamesBatchSize = 2
  DetailsBatchSize = 2
SPECIFICATION Spec
INVARIANT TypeOK
INVARIANT PinnedSnapshot
INVARIANT ListMatchesCount
PROPERTY CallReturns
