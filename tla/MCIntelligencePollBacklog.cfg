\* The README's score for every incoming event, with one process and no error:
\* every second flush starts a poll.
SPECIFICATION FairSpec
CONSTANTS
  a = a
  b = b
  c = c
  p1 = p1
  p2 = p2
  Events <- MCEvents
  Alerting <- MCAlerting
  Wallets <- MCWallets
  WalletsOf <- MCWalletsOf
  TradeLike <- MCTradeLike
  Pollers <- MCOnePoller
  BatchSize = 2
  PollEvery = 2
  MaxFaults = 0
PROPERTY BacklogDrains
\* No event left to flush: nothing is left to do.
CHECK_DEADLOCK FALSE
