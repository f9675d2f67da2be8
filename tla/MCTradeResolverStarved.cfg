\* A batch with room for one unresolved trade; the oldest never resolves.
SPECIFICATION TradesFairSpec
CONSTANTS
  A = A
  B = B
  X = X
  Y = Y
  U = U
  Trades = {1, 2, 3, 4, 5}
  Owners = {A, B}
  NoRecord = NoRecord
  Resolvers = {loop}
  BatchSizes = {1}
  MaxWrites = 3
  MaxTradeFaults = 0
  WalletOf <- MCWalletOf
  Swap <- MCSwap
  TimeOf <- MCTimeOf
  ScoredAt <- MCScoredAt
  Prices <- MCPrices
PROPERTY OutcomesCatchUp
\* An instance has finitely many upserts; without unresolved trades the
\* resolver has nothing to do.
CHECK_DEADLOCK FALSE
