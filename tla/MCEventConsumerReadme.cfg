\* The README's claim about delivery, which one failed commit refutes.
SPECIFICATION Spec
CONSTANTS
  v1 = v1
  v2 = v2
  v3 = v3
  x1 = x1
  t1 = t1
  NoTrade = NoTrade
  Messages <- MCMessages
  Valid <- MCValid
  TradeOf <- MCTradeOf
  BatchSize = 2
  PollEvery = 2
  MaxLosses = 1
SYMMETRY MCSymmetry
INVARIANT AtLeastOnce
\* Every message published and settled: nothing is left to do.
CHECK_DEADLOCK FALSE
