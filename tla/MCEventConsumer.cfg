\* Three messages, batches of two, two lost connections or crashes at any
\* steps; no symmetry, because liveness is checked too.
SPECIFICATION FairSpec
CONSTANTS
  v1 = v1
  v2 = v2
  v3 = v3
  x1 = x1
  t1 = t1
  NoTrade = NoTrade
  Messages <- MCFewMessages
  Valid <- MCFewValid
  TradeOf <- MCFewTradeOf
  BatchSize = 2
  PollEvery = 2
  MaxLosses = 2
INVARIANTS
  TypeOK
  SettledIsDurable
  TagsAreOutstanding
  NothingForgotten
  WindowNeverStalls
  DuplicatesArePaidFor
PROPERTIES
  ImplementsDelivery
  EverythingSettles
\* Every message published and settled: nothing is left to do.
CHECK_DEADLOCK FALSE
