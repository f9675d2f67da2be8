\* Two pollers, every second flush starts a poll, two transfers that share a wallet,
\* one error or crash at any step; no symmetry, because liveness is checked too.
SPECIFICATION FairSpec
CONSTANTS
  a = a
  b = b
  c = c
  p1 = p1
  p2 = p2
  Events <- MCFewEvents
  Alerting <- MCFewAlerting
  Wallets <- MCFewWallets
  WalletsOf <- MCFewWalletsOf
  TradeLike <- MCFewTradeLike
  Pollers <- MCPollers
  BatchSize = 2
  PollEvery = 2
  MaxFaults = 1
INVARIANTS
  TypeOK
  OneAlertPerEvent
  AlertsAreScored
  MissingAlertsArePaidFor
  UnprofiledArePaidFor
PROPERTIES
  KnownLabelsStay
  TakenAreScored
\* Every event scored: nothing is left to do.
CHECK_DEADLOCK FALSE
