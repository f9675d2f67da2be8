\* The comment at line 1318 of the on-chain collector, which z1 refutes.
SPECIFICATION PublishingSpec
CONSTANTS
  n0 = n0
  n1 = n1
  r0 = r0
  c0 = c0
  c1 = c1
  c2 = c2
  t1 = t1
  t2 = t2
  None = None
  Threads = {t1, t2}
  PoolSize = 1
  RetryAttempts = 2
  Processes = {"A", "B"}
  Jobs <- MCJobs
  ProcessOf <- MCProcessOf
  Kind <- MCKind
  Feed <- MCFeed
  Identity <- MCIdentity
  Broken = {n0, c2}
  Refused = {r0}
  Dull = {c0}
  Seeds = {"s1", "s2"}
  Tries = 2
  MaxFaults = 1
  MaxCopies = 5
  PriceEntries <- MCPriceEntries
  RssEntries <- MCRssEntries
  s1 = s1
  z1 = z1
  m1 = m1
  e1 = e1
  x1 = x1
  P = P
  Q = Q
  Txs = {s1, z1, m1, e1, x1}
  Pools = {P, Q}
  Chain <- MCChain
  SwapLogs <- MCSwapLogs
  TransferLogs <- MCTransferLogs
  Ether <- MCEther
  PoolTokens <- MCPoolTokens
  Stablecoins <- MCStablecoins
  Boosted = {"USDT", "DAI"}
  Depth = 1
  PerBlock = 2
  MaxSwapLogs = 3
  MaxPools = 1
  MinUsd = 2
  MediumUsd = 2
  HighUsd = 20
  WordBits = 4
  Prices = {1, 2}
  FirstHead = 3
  MaxCycles = 2
  MaxRpcFaults = 1
  CycleInterval = 36
  FailureRetryInterval = 5
  CooldownSeconds = 2
  MaxBackoff = 24
  MaxRateLimitSleep = 4
  FailFast = 5
  MaxErrors = 6
INVARIANT RejectedSwapsSuppressNothing
