\* The loop of the worker and a manual trigger.
SPECIFICATION TradesSpec
CONSTANTS
  A = A
  B = B
  X = X
  Y = Y
  U = U
  Trades = {1, 2, 3, 4, 5}
  Owners = {A, B}
  NoRecord = NoRecord
  Resolvers = {loop, trigger}
  BatchSizes = {5}
  MaxWrites = 3
  MaxTradeFaults = 0
  WalletOf <- MCWalletOf
  Swap <- MCSwap
  TimeOf <- MCTimeOf
  ScoredAt <- MCScoredAt
  Prices <- MCPrices
INVARIANT NoUnitSoldTwice
\* An instance has finitely many upserts; without unresolved trades the
\* resolver has nothing to do.
CHECK_DEADLOCK FALSE
