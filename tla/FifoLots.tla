------------------------------ MODULE FifoLots ------------------------------
(***************************************************************************)
(* The position accounting of resolve_pending_trade_outcomes               *)
(* (app/modules/intelligence/application/trade_records.py): the outcomes   *)
(* of one wallet's trades, taken in the order of time.                     *)
(*                                                                         *)
(* A trade is a record [in, paid, out, got, usd]: paid units of token in   *)
(* leave the wallet and got units of token out enter it, at a total value  *)
(* of usd.  Amounts are integers, and usd a multiple of got, so the cost   *)
(* of a unit is an integer too; EPSILON is 0.  A nullable column is a      *)
(* sequence of at most one value.                                          *)
(***************************************************************************)
EXTENDS Integers, SequencesExt

Columns == {"is_profitable", "return_usd", "return_percentage"}

\* The three columns are NULL together.
Outcomes ==
  {o \in [is_profitable : {<<>>, <<TRUE>>, <<FALSE>>},
          return_usd : Seq(Int),
          return_percentage : Seq(Int)] :
     \A c \in Columns : Len(o[c]) = Len(o.is_profitable)}

Unresolved == [c \in Columns |-> <<>>]

Resolved(usd, cost) ==
  [is_profitable |-> <<usd > cost>>,
   return_usd |-> <<usd - cost>>,
   return_percentage |-> <<(100 * (usd - cost)) \div cost>>]

Lesser(a, b) == IF a < b THEN a ELSE b

-----------------------------------------------------------------------------
\* Mutant: a lot the sale does not use up is not reduced.
SellFromLotKeepsAmount(sale, lot) ==
  LET sold == Lesser(sale.remaining, lot.amount)
  IN [remaining |-> sale.remaining - sold,
      cost  |-> sale.cost + sold * lot.unit_cost,
      queue |-> IF sold = lot.amount THEN sale.queue ELSE Append(sale.queue, lot)]

\* One lot of the queue, oldest first: what of it is sold, what stays.
SellFromLot(sale, lot) ==
  LET sold == Lesser(sale.remaining, lot.amount)
  IN [remaining |-> sale.remaining - sold,
      cost  |-> sale.cost + sold * lot.unit_cost,
      queue |-> IF sold = lot.amount THEN sale.queue
                ELSE Append(sale.queue, [lot EXCEPT !.amount = @ - sold])]

\* The while loop of the sell leg: it takes lots also for a sale they do not
\* cover in the end.
Sell(queue, amount) ==
  FoldLeft(SellFromLot, [remaining |-> amount, cost |-> 0, queue |-> <<>>], queue)

\* One trade: realise its sell leg, then open a lot for its buy leg.  Without a
\* price it does neither.
Account(books, trade) ==
  LET sale == Sell(books.open[trade.in], trade.paid)
      held == [books.open EXCEPT ![trade.in] = sale.queue]
      lot  == [amount |-> trade.got, unit_cost |-> trade.usd \div trade.got]
  IN IF trade.usd = 0
     THEN [books EXCEPT !.outcomes = Append(@, Unresolved)]
     ELSE [open |-> [held EXCEPT ![trade.out] = Append(@, lot)],
           outcomes |-> Append(books.outcomes,
                               IF sale.remaining = 0 /\ sale.cost > 0
                               THEN Resolved(trade.usd, sale.cost)
                               ELSE Unresolved)]

Tokens(trades) == UNION {{trades[i].in, trades[i].out} : i \in DOMAIN trades}

\* The outcomes of a sequence of trades, one by one.
Fifo(trades) ==
  FoldLeft(Account, [open |-> [x \in Tokens(trades) |-> <<>>], outcomes |-> <<>>],
           trades).outcomes

-----------------------------------------------------------------------------
(* What the outcomes should be, without queues: number the units of a      *)
(* token in the order they are bought; a sale takes the first units that   *)
(* are there and not gone yet.                                             *)

BuysBefore(trades, i, x) ==
  {j \in 1..(i - 1) : trades[j].usd > 0 /\ trades[j].out = x}
SalesBefore(trades, i, x) ==
  {j \in 1..(i - 1) : trades[j].usd > 0 /\ trades[j].in = x}

PaidOf(trades) == [j \in DOMAIN trades |-> trades[j].paid]
GotOf(trades)  == [j \in DOMAIN trades |-> trades[j].got]

Bought(trades, i, x) == SumFunctionOnSet(GotOf(trades), BuysBefore(trades, i, x))
Asked(trades, i, x)  == SumFunctionOnSet(PaidOf(trades), SalesBefore(trades, i, x))

\* Units gone before trade i: all that was asked for, but never more than there
\* were at any of the sales.
Gone(trades, i, x) ==
  Min({Asked(trades, i, x)} \cup
      {Bought(trades, j, x) + Asked(trades, i, x) - Asked(trades, j + 1, x) :
         j \in SalesBefore(trades, i, x)})

\* What the n-th unit of x was bought for.
UnitCost(trades, n, x) ==
  LET j == CHOOSE k \in BuysBefore(trades, Len(trades) + 1, x) :
             n - Bought(trades, k, x) \in 1..trades[k].got
  IN trades[j].usd \div trades[j].got

\* What some units of x were bought for.
CostOf(trades, x, units) ==
  SumFunctionOnSet([n \in units |-> UnitCost(trades, n, x)], units)

Reference(trades) ==
  [i \in DOMAIN trades |->
     LET x     == trades[i].in
         first == Gone(trades, i, x) + 1
         last  == Gone(trades, i, x) + trades[i].paid
     IN IF trades[i].usd > 0 /\ last <= Bought(trades, i, x)
        THEN Resolved(trades[i].usd, CostOf(trades, x, first..last))
        ELSE Unresolved]
=============================================================================
