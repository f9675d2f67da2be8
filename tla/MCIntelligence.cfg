\* Trades: one resolver, four writes (a backfill writes several rows), two failures.
\* Agents: events at every threshold; two traders' histories, two seedings and one fault;
\* four candidates in a window of three, batches of two, no limit or one batch, one fault;
\* two requests on two users.
SPECIFICATION IntelligenceSpec
CONSTANTS
  A = A
  B = B
  X = X
  Y = Y
  U = U
  Trades = {1, 2, 3, 4, 5}
  Owners = {A, B}
  NoRecord = NoRecord
  Resolvers = {loop}
  BatchSizes = {5}
  MaxWrites = 4
  MaxTradeFaults = 2
  WalletOf <- MCWalletOf
  Swap <- MCSwap
  TimeOf <- MCTimeOf
  ScoredAt <- MCScoredAt
  Prices <- MCPrices
  Nothing = Nothing
  ScoredEvents <- MCScoredEvents
  zero = zero
  a = a
  b = b
  Wallets = {zero, a, b}
  Traders = {a}
  Zero = zero
  EntityIds = {"x", "y"}
  Files <- MCFiles
  MinTrades = 2
  HighRate = 80
  MediumRate = 50
  MaxTrades = 2
  MaxSeedings = 2
  MaxDbFaults = 1
  Candidates = {1, 2, 3, 4}
  BackfillSize = 2
  ScanSize = 3
  BatchLimits = {1, Unlimited}
  Unlimited = Unlimited
  MaxBackfillFaults = 1
  u = u
  v = v
  r1 = r1
  r2 = r2
  Accounts = {u, v}
  Requests = {r1, r2}
  MaxBootstraps = 2
  MaxOverlaps = 1
  MaxVacancies = 1
INVARIANTS
  TradesTypeOK
  FifoIsReference
  OutcomesOfOneHistory
  NoUnitSoldTwice
  BoostPromotes
  BatchAgrees
  BoostIsEarned
  EntitiesAreLabeled
  BackfillLeavesNothing
  BootstrapsArePaidFor
PROPERTIES
  OutcomesCatchUp
  StartedBackfillFinishes
