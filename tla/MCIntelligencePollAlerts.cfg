\* The README's claim about alerts, which one crash refutes.
SPECIFICATION Spec
CONSTANTS
  a = a
  b = b
  c = c
  p1 = p1
  p2 = p2
  Events <- MCEvents
  Alerting <- MCAlerting
  Wallets <- MCWallets
  WalletsOf <- MCWalletsOf
  TradeLike <- MCTradeLike
  Pollers <- MCPollers
  BatchSize = 2
  PollEvery = 2
  MaxFaults = 1
SYMMETRY MCSymmetry
INVARIANT EveryAlertRaised
\* Every event scored: nothing is left to do.
CHECK_DEADLOCK FALSE
