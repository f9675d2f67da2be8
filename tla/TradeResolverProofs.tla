------------------------ MODULE TradeResolverProofs ------------------------
(***************************************************************************)
(* What one resolver writes for a wallet always comes from one history of  *)
(* it (TradeResolver's OutcomesOfOneHistory), so what FIFO accounting      *)
(* guarantees of a history, FifoLotsProofs, holds of the table: no unit is *)
(* sold twice (NoUnitSoldTwice).  That every history is accounted for as   *)
(* it should be (FifoIsReference) holds for any number of resolvers.       *)
(*                                                                         *)
(* How the outcomes are computed plays no part in the first.  What counts  *)
(* is that nobody else writes outcomes between the read of a wallet and    *)
(* the flush, so that the columns the flush leaves alone, because they     *)
(* are as they were read, are those of the row now.                        *)
(*                                                                         *)
(* The second carries a sum over the places of a history over to the       *)
(* trades that stand there: a chronology is a bijection, because ORDER BY  *)
(* timestamp, trade_id is a total order.  The history may be an old one;   *)
(* but rows are never deleted, so its purchases are still there.           *)
(***************************************************************************)
EXTENDS TradeResolver, FifoLotsProofs

(* Sums along a sequence.                                                  *)

\* A sum over places is a sum over what stands there.
Stands(I, order, f, F) ==
  /\ IsFiniteSet(I)
  /\ \A i \in I : F[i] \in Int /\ F[i] = f[order[i]]
  /\ \A i, j \in I : order[i] = order[j] => i = j
Image(order, I) == {order[i] : i \in I}
LEMMA SumReindexed ==
  ASSUME NEW I, NEW f, NEW F, NEW order, Stands(I, order, f, F)
  PROVE  SumFunctionOnSet(F, I) = SumFunctionOnSet(f, Image(order, I))
<1> USE DEF Stands, Image
<1> DEFINE P == {U \in SUBSET I : /\ IsFiniteSet({order[i] : i \in U})
                                  /\ SumFunctionOnSet(F, U) = SumFunctionOnSet(f, {order[i] : i \in U})}
<1>1. {} \in P
  <2>1. {order[i] : i \in {}} = {}
    OBVIOUS
  <2> QED
    BY <2>1, SumOfNone, FS_EmptySet
<1>2. ASSUME NEW U \in SUBSET I, U # {}, \A z \in U : U \ {z} \in P PROVE U \in P
  <2>1. PICK z \in U : TRUE
    BY <1>2
  <2> DEFINE R == {order[i] : i \in U \ {z}}
  <2>2. IsFiniteSet(R) /\ SumFunctionOnSet(F, U \ {z}) = SumFunctionOnSet(f, R)
    BY <1>2, <2>1
  <2>3. {order[i] : i \in U} = R \cup {order[z]} /\ order[z] \notin R
    BY <2>1
  <2>4. IsFiniteSet(U) /\ Integral(F, U) /\ Integral(f, R) /\ f[order[z]] = F[z] /\ F[z] \in Int
    BY <2>1, FS_Subset DEF Integral
  <2> HIDE DEF P, R
  <2>5. IsFiniteSet(R \cup {order[z]})
    BY <2>2, FS_AddElement
  <2>6. SumFunctionOnSet(F, U) = F[z] + SumFunctionOnSet(F, U \ {z})
    BY <2>4, SumTakesAny
  <2>7. SumFunctionOnSet(f, R \cup {order[z]}) = f[order[z]] + SumFunctionOnSet(f, R)
    <3> DEFINE y == order[z]
    <3>1. y \notin R /\ f[y] \in Int
      BY <2>3, <2>4
    <3> HIDE DEF y
    <3>2. SumFunctionOnSet(f, R \cup {y}) = f[y] + SumFunctionOnSet(f, R)
      BY <2>2, <2>4, <3>1, SumWithOneMore
    <3> QED
      BY <3>2 DEF y
  <2>8. SumFunctionOnSet(F, U) = SumFunctionOnSet(f, R \cup {order[z]})
    BY <2>2, <2>4, <2>6, <2>7
  <2> QED
    BY <2>3, <2>5, <2>8 DEF P
<1>3. SUBSET I \subseteq P
  <2> HIDE DEF P
  <2> QED
    BY <1>1, <1>2, FinInduct
<1> QED
  BY <1>3

-----------------------------------------------------------------------------
(* The tables, and the order of the trades of a wallet.                    *)

RecordsOf(t) == [at : {TimeOf[t], ScoredAt[t]}, usd : Prices[t]] \cup {NoRecord}

LEMMA TableRecords ==
  ASSUME NEW table \in Tables
  PROVE  /\ table = [t \in Trades |-> table[t]]
         /\ \A t \in Trades : table[t] \in RecordsOf(t)
<1> PICK known \in SUBSET Trades, backfilled \in SUBSET Trades, value \in Valuations :
      table = [t \in Trades |->
                 IF t \in known
                 THEN [at |-> IF t \in backfilled THEN ScoredAt[t] ELSE TimeOf[t], usd |-> value[t]]
                 ELSE NoRecord]
  BY DEF Tables
<1>1. \A t \in Trades : value[t] \in Prices[t]
  BY DEF Valuations
<1> QED
  BY <1>1 DEF RecordsOf

LEMMA RecordsTable ==
  ASSUME NEW table, table = [t \in Trades |-> table[t]],
         \A t \in Trades : table[t] \in RecordsOf(t)
  PROVE  table \in Tables
<1> DEFINE known == StoredIn(table)
           backfilled == {t \in known : table[t].at = ScoredAt[t]}
           value == [t \in Trades |-> IF t \in known THEN table[t].usd
                                      ELSE CHOOSE usd \in Prices[t] : TRUE]
           row(t) == [at |-> IF t \in backfilled THEN ScoredAt[t] ELSE TimeOf[t], usd |-> value[t]]
<1>1. known \in SUBSET Trades /\ backfilled \in SUBSET Trades
  BY DEF StoredIn
<1>2. \A t \in known : /\ table[t].at \in {TimeOf[t], ScoredAt[t]} /\ table[t].usd \in Prices[t]
                       /\ table[t] = [at |-> table[t].at, usd |-> table[t].usd]
  BY DEF StoredIn, RecordsOf
<1>3. value \in Valuations
  <2>1. ASSUME NEW t \in Trades PROVE value[t] \in Prices[t]
    <3>1. Prices[t] # {}
      BY TradeAssumption
    <3> QED
      BY <1>2, <3>1
  <2>2. \A t \in Trades : value[t] \in UNION {Prices[s] : s \in Trades}
    BY <2>1
  <2> HIDE DEF value
  <2>3. value = [t \in Trades |-> value[t]]
    BY DEF value
  <2> QED
    BY <2>1, <2>2, <2>3 DEF Valuations
<1>4. \A t \in known : table[t] = row(t)
  BY <1>1, <1>2
<1>5. \A t \in Trades \ known : table[t] = NoRecord
  BY DEF StoredIn
<1> HIDE DEF known, backfilled, value
<1>6. table = [t \in Trades |-> IF t \in known THEN row(t) ELSE NoRecord]
  BY <1>4, <1>5
<1> QED
  BY <1>1, <1>3, <1>6 DEF Tables

\* Trades of one wallet have distinct places.
LEMMA Chronological ==
  ASSUME NEW table \in Tables, NEW w
  PROVE  LET order == Chronology(table, w)
             known == StoredIn(table) \cap OfWallet(w)
         IN /\ IsFiniteSet(known)
            /\ order \in Bijection(1..Cardinality(known), known)
<1> DEFINE known == StoredIn(table) \cap OfWallet(w)
           before(t) == {s \in known : Earlier(table, s, t)}
           rank == [t \in known |-> Cardinality(before(t))]
           n == Cardinality(known)
           order == Chronology(table, w)
<1>1. IsFiniteSet(known) /\ n \in Nat
  <2>1. known \in SUBSET Trades
    BY DEF OfWallet
  <2> QED
    BY <2>1, TradeAssumption, FS_Subset, FS_CardinalityType
<1>2. \A t \in known : t \in Nat /\ table[t].at \in Nat
  <2> TAKE t \in known
  <2>1. t \in Trades /\ table[t] \in RecordsOf(t) /\ table[t] # NoRecord
    BY TableRecords DEF StoredIn, OfWallet
  <2>2. table[t].at \in {TimeOf[t], ScoredAt[t]} /\ TimeOf[t] \in Nat /\ ScoredAt[t] \in Nat
    BY <2>1, TradeAssumption DEF RecordsOf
  <2> QED
    BY <2>1, <2>2, TradeAssumption
<1>3. \A s, t \in known : s # t => Earlier(table, s, t) \/ Earlier(table, t, s)
  BY <1>2 DEF Earlier
<1>4. \A s, t, u \in known : Earlier(table, s, t) /\ Earlier(table, t, u) => Earlier(table, s, u)
  BY <1>2 DEF Earlier
<1>5. \A t \in known : ~Earlier(table, t, t)
  BY <1>2 DEF Earlier
<1> HIDE DEF known
<1>6. ASSUME NEW s \in known, NEW t \in known, Earlier(table, s, t)
      PROVE  Cardinality(before(s)) < Cardinality(before(t))
  <2>1. before(s) \in SUBSET before(t) /\ s \in before(t) /\ s \notin before(s)
    BY <1>4, <1>5, <1>6
  <2>2. IsFiniteSet(before(t))
    <3>1. before(t) \in SUBSET known
      OBVIOUS
    <3> HIDE DEF before
    <3> QED
      BY <1>1, <3>1, FS_Subset
  <2> HIDE DEF before
  <2>3. Cardinality(before(s)) <= Cardinality(before(t))
        /\ (Cardinality(before(t)) = Cardinality(before(s)) => before(t) = before(s))
    BY <2>1, <2>2, FS_Subset
  <2>4. Cardinality(before(s)) \in Nat /\ Cardinality(before(t)) \in Nat
    BY <2>1, <2>2, FS_Subset, FS_CardinalityType
  <2> QED
    BY <2>1, <2>3, <2>4
<1>7. ASSUME NEW t \in known PROVE Cardinality(before(t)) \in 0..(n - 1)
  <2>1. before(t) \in SUBSET known /\ t \notin before(t)
    BY <1>5
  <2> HIDE DEF before
  <2>2. /\ IsFiniteSet(before(t)) /\ Cardinality(before(t)) <= n
        /\ (n = Cardinality(before(t)) => known = before(t))
    BY <1>1, <2>1, FS_Subset
  <2>3. Cardinality(before(t)) \in Nat
    BY <2>2, FS_CardinalityType
  <2> QED
    BY <1>1, <2>1, <2>2, <2>3
<1>8. rank \in Injection(known, 0..(n - 1))
  <2>1. rank \in [known -> 0..(n - 1)]
    <3> HIDE DEF n, before
    <3> QED
      BY <1>7
  <2>2. ASSUME NEW s \in known, NEW t \in known, s # t PROVE rank[s] # rank[t]
    <3>1. Cardinality(before(s)) < Cardinality(before(t)) \/ Cardinality(before(t)) < Cardinality(before(s))
      BY <1>3, <1>6, <2>2
    <3>2. Cardinality(before(s)) \in Int /\ Cardinality(before(t)) \in Int
      <4> HIDE DEF before, n
      <4> QED
        BY <1>1, <1>7
    <3> HIDE DEF before
    <3> QED
      BY <3>1, <3>2
  <2> HIDE DEF rank
  <2> QED
    BY <2>1, <2>2 DEF Injection, IsInjective
<1>9. \A i \in 0..(n - 1) : \E t \in known : rank[t] = i
  <2> DEFINE T == 0..(n - 1)
  <2>1. IsFiniteSet(T) /\ Cardinality(T) = n
    <3>1. 0 \in Int /\ n - 1 \in Int
      BY <1>1
    <3> HIDE DEF n
    <3>2. IsFiniteSet(0..(n - 1)) /\ Cardinality(0..(n - 1)) = IF 0 > n - 1 THEN 0 ELSE (n - 1) - 0 + 1
      BY <3>1, FS_Interval
    <3> QED
      BY <1>1, <3>2
  <2> HIDE DEF rank, T
  <2>2. rank \in Injection(known, T)
    BY <1>8 DEF T
  <2>3. rank \in Surjection(known, T)
    BY <2>1, <2>2, FS_Injection
  <2> QED
    BY <2>3 DEF Surjection, T
<1>10. order = [i \in 1..n |-> CHOOSE t \in known : Cardinality(before(t)) = i - 1]
  BY DEF Chronology, known
<1> HIDE DEF order
<1>11. \A i \in 1..n : order[i] \in known /\ rank[order[i]] = i - 1
  <2> TAKE i \in 1..n
  <2>1. i - 1 \in 0..(n - 1)
    BY <1>1
  <2>2. \A t \in known : rank[t] = Cardinality(before(t))
    OBVIOUS
  <2> HIDE DEF before, rank
  <2>3. \E t \in known : Cardinality(before(t)) = i - 1
    BY <1>9, <2>1, <2>2
  <2>4. order[i] = CHOOSE t \in known : Cardinality(before(t)) = i - 1
    BY <1>10
  <2>5. order[i] \in known /\ Cardinality(before(order[i])) = i - 1
    BY <2>3, <2>4
  <2> QED
    BY <2>2, <2>5
<1> HIDE DEF rank
<1>12. order \in [1..n -> known]
  <2> HIDE DEF n
  <2> QED
    BY <1>10, <1>11
<1>13. order \in Injection(1..n, known)
  <2>1. ASSUME NEW i \in 1..n, NEW j \in 1..n, order[i] = order[j] PROVE i = j
    <3>1. i - 1 = j - 1
      BY <1>11, <2>1
    <3> HIDE DEF n
    <3> QED
      BY <1>1, <3>1
  <2> HIDE DEF n
  <2> QED
    BY <1>12, <2>1 DEF Injection, IsInjective
<1>14. order \in Surjection(1..n, known)
  <2>1. ASSUME NEW t \in known PROVE \E i \in 1..n : order[i] = t
    <3> DEFINE i == rank[t] + 1
    <3>1. rank[t] \in 0..(n - 1)
      <4> HIDE DEF n
      <4> QED
        BY <1>8 DEF Injection
    <3> HIDE DEF n
    <3>2. i \in 1..n /\ i - 1 = rank[t]
      BY <1>1, <3>1
    <3>3. order[i] \in known /\ rank[order[i]] = rank[t]
      BY <1>11, <3>2
    <3>4. order[i] = t
      BY <1>8, <3>3 DEF Injection, IsInjective
    <3> QED
      BY <3>2, <3>4
  <2> HIDE DEF n
  <2> QED
    BY <1>12, <2>1 DEF Surjection
<1> QED
  BY <1>1, <1>13, <1>14 DEF Bijection, order, known

-----------------------------------------------------------------------------
(* The outcomes of a table.                                                *)

Known(table, w) == StoredIn(table) \cap OfWallet(w)
TradesOf(table, w) == History(table, Chronology(table, w))

LEMMA HistoryType ==
  ASSUME NEW table \in Tables, NEW w
  PROVE  LET h == TradesOf(table, w)
             order == Chronology(table, w)
             n == Cardinality(Known(table, w))
         IN /\ n \in Nat /\ DOMAIN order = 1..n /\ Len(h) = n
            /\ h \in Seq(Trade(Tokens(h))) /\ h \in Seq(Priced(Tokens(h)))
            /\ \A i \in 1..n :
                 /\ order[i] \in Known(table, w) /\ i \in DOMAIN h
                 /\ h[i].in = Swap[order[i]].in /\ h[i].paid = Swap[order[i]].paid
                 /\ h[i].out = Swap[order[i]].out /\ h[i].got = Swap[order[i]].got
            /\ \A i, j \in 1..n : order[i] = order[j] => i = j
            /\ \A t \in Known(table, w) : \E i \in 1..n : order[i] = t
<1> DEFINE known == Known(table, w)
           order == Chronology(table, w)
           n == Cardinality(known)
           h == TradesOf(table, w)
           T == Tokens(h)
<1>1. IsFiniteSet(known) /\ order \in Bijection(1..n, known)
  BY Chronological DEF Known
<1>2. n \in Nat
  BY <1>1, FS_CardinalityType
<1> HIDE DEF order, n, known
<1>3. /\ order \in [1..n -> known]
      /\ \A i, j \in 1..n : order[i] = order[j] => i = j
      /\ \A t \in known : \E i \in 1..n : order[i] = t
  BY <1>1 DEF Bijection, Injection, Surjection, IsInjective
<1>4. ASSUME NEW t \in known
      PROVE  /\ Swap[t].paid \in Nat \ {0} /\ Swap[t].got \in Nat \ {0}
             /\ table[t].usd \in Nat /\ table[t].usd % Swap[t].got = 0
  <2>1. t \in Trades /\ table[t] \in RecordsOf(t) /\ table[t] # NoRecord
    BY TableRecords DEF StoredIn, OfWallet, known, Known
  <2>2. table[t].usd \in Prices[t]
    BY <2>1 DEF RecordsOf
  <2>3. Prices[t] \in SUBSET Nat
    BY <2>1, TradeAssumption
  <2> QED
    BY <2>1, <2>2, <2>3, SwapAssumption
<1> DEFINE row(i) == [in |-> Swap[order[i]].in, paid |-> Swap[order[i]].paid,
                      out |-> Swap[order[i]].out, got |-> Swap[order[i]].got,
                      usd |-> table[order[i]].usd]
<1>5. h = [i \in 1..n |-> row(i)]
  <2>1. DOMAIN order = 1..n
    BY <1>3
  <2> QED
    BY <2>1 DEF History, TradesOf, order
<1> HIDE DEF h
<1>6. DOMAIN h = 1..n /\ \A i \in 1..n : h[i] = row(i)
  BY <1>5
<1>7. ASSUME NEW i \in 1..n PROVE row(i) \in Trade(T) /\ row(i) \in Priced(T)
  <2>1. order[i] \in known
    BY <1>3
  <2>2. row(i).in \in T /\ row(i).out \in T
    <3>1. h[i].in \in Tokens(h) /\ h[i].out \in Tokens(h)
      BY <1>6 DEF Tokens
    <3> QED
      BY <1>6, <3>1
  <2> HIDE DEF T
  <2>3. Swap[order[i]].in \in T /\ Swap[order[i]].out \in T
    BY <2>2
  <2>4. row(i) \in Trade(T)
    BY <1>4, <2>1, <2>3 DEF Trade
  <2>5. row(i).paid > 0 /\ row(i).usd % row(i).got = 0
    BY <1>4, <2>1
  <2> HIDE DEF row
  <2> QED
    BY <2>4, <2>5 DEF Priced
<1>8. h \in Seq(Trade(T)) /\ h \in Seq(Priced(T)) /\ Len(h) = n
  <2> HIDE DEF T, row
  <2> QED
    BY <1>2, <1>5, <1>7
<1>9. \A i \in 1..n : /\ h[i].in = Swap[order[i]].in /\ h[i].paid = Swap[order[i]].paid
                      /\ h[i].out = Swap[order[i]].out /\ h[i].got = Swap[order[i]].got
  BY <1>6
<1>10. DOMAIN order = 1..n /\ \A i \in 1..n : order[i] \in known /\ i \in DOMAIN h
  BY <1>3, <1>6
<1> QED
  BY <1>2, <1>3, <1>8, <1>9, <1>10 DEF known, n, order, h, T

\* The outcome of a trade is what Fifo has at its place.
LEMMA ResultsAre ==
  ASSUME NEW table \in Tables, NEW t \in Trades
  PROVE  /\ Results[table][t] \in Outcomes
         /\ t \notin StoredIn(table) => Results[table][t] = Unresolved
         /\ \A i \in DOMAIN Chronology(table, WalletOf[t]) :
              t \in StoredIn(table) /\ Chronology(table, WalletOf[t])[i] = t =>
                Results[table][t] = Fifo(TradesOf(table, WalletOf[t]))[i]
<1> DEFINE w == WalletOf[t]
           order == Chronology(table, w)
           h == TradesOf(table, w)
           n == Cardinality(Known(table, w))
           result == Fifo(h)
           place == CHOOSE i \in DOMAIN order : order[i] = t
           row == IF t \in StoredIn(table) THEN result[place] ELSE Unresolved
<1>1. Results[table][t] = [c \in Columns |-> row[c]]
  BY DEF Results, TradesOf
<1> HIDE DEF row
<1>2. /\ n \in Nat /\ DOMAIN order = 1..n /\ Len(h) = n
      /\ h \in Seq(Trade(Tokens(h)))
      /\ \A i, j \in 1..n : order[i] = order[j] => i = j
      /\ \A s \in Known(table, w) : \E i \in 1..n : order[i] = s
  BY HistoryType
<1>3. result \in Seq(Outcomes) /\ Len(result) = n
  <2> HIDE DEF h, n
  <2> QED
    BY <1>2, FifoBalances
<1> HIDE DEF result, h, n, order
<1>4. CASE t \in StoredIn(table)
  <2>1. t \in Known(table, w)
    BY <1>4 DEF Known, OfWallet
  <2>2. place \in 1..n /\ order[place] = t
    BY <1>2, <2>1
  <2>3. row = result[place] /\ row \in Outcomes
    <3> HIDE DEF place
    <3> QED
      BY <1>3, <1>4, <2>2 DEF row
  <2>4. Results[table][t] = row
    BY <1>1, <2>3, RowColumns
  <2>5. ASSUME NEW i \in DOMAIN order, order[i] = t PROVE i = place
    BY <1>2, <2>2, <2>5
  <2> HIDE DEF place
  <2> QED
    BY <1>4, <2>3, <2>4, <2>5 DEF order, result, h
<1>5. CASE t \notin StoredIn(table)
  <2>1. row = Unresolved /\ row \in Outcomes
    BY <1>5, UnresolvedType DEF row
  <2>2. Results[table][t] = row
    BY <1>1, <2>1, RowColumns
  <2> QED
    BY <1>5, <2>1, <2>2
<1> QED
  BY <1>4, <1>5

\* The trades with an outcome in a table, and the purchases it knows.
SoldIn(table, w, x) ==
  {t \in OfWallet(w) : Swap[t].in = x /\ Results[table][t].is_profitable # <<>>}
BoughtIn(table, w, x) == {t \in Known(table, w) : Swap[t].out = x}

LEMMA TableBalances ==
  ASSUME NEW table \in Tables, NEW w, NEW x
  PROVE  SumFunctionOnSet(Paid, SoldIn(table, w, x)) <= SumFunctionOnSet(Got, BoughtIn(table, w, x))
<1> DEFINE order == Chronology(table, w)
           h == TradesOf(table, w)
           n == Cardinality(Known(table, w))
           result == Fifo(h)
           sold == SoldAt(h, result, x)
           bought == BoughtAt(h, n, x)
<1>1. /\ n \in Nat /\ DOMAIN order = 1..n /\ Len(h) = n
      /\ h \in Seq(Trade(Tokens(h)))
      /\ \A i \in 1..n : /\ order[i] \in Known(table, w) /\ i \in DOMAIN h
                         /\ h[i].in = Swap[order[i]].in /\ h[i].paid = Swap[order[i]].paid
                         /\ h[i].out = Swap[order[i]].out /\ h[i].got = Swap[order[i]].got
      /\ \A i, j \in 1..n : order[i] = order[j] => i = j
      /\ \A s \in Known(table, w) : \E i \in 1..n : order[i] = s
  BY HistoryType
<1>2. /\ result \in Seq(Outcomes) /\ Len(result) = n
      /\ \A y \in Tokens(h) : SoldOf(h, result, y) <= BoughtOf(h, n, y)
  <2> HIDE DEF h, n
  <2> QED
    BY <1>1, FifoBalances
<1>3. \A t \in Known(table, w) : t \in Trades /\ t \in StoredIn(table) /\ WalletOf[t] = w
  BY DEF Known, OfWallet
<1>4. \A i \in 1..n : Results[table][order[i]] = result[i]
  <2> TAKE i \in 1..n
  <2>1. order[i] \in Trades /\ order[i] \in StoredIn(table) /\ WalletOf[order[i]] = w
    BY <1>1, <1>3
  <2>2. i \in DOMAIN Chronology(table, w) /\ Chronology(table, w)[i] = order[i]
    BY <1>1
  <2> HIDE DEF n
  <2> QED
    BY <2>1, <2>2, ResultsAre
<1> HIDE DEF order, h, n, result
<1>5. DOMAIN result = 1..n
  BY <1>1, <1>2
<1>6. sold \subseteq 1..n /\ bought \subseteq 1..n /\ IsFiniteSet(sold) /\ IsFiniteSet(bought)
  <2>1. IsFiniteSet(1..n)
    <3>1. 1 \in Int /\ n \in Int
      BY <1>1
    <3> QED
      BY <3>1, FS_Interval
  <2>2. sold \subseteq 1..n /\ bought \subseteq 1..n
    BY <1>5 DEF SoldAt, BoughtAt
  <2> HIDE DEF sold, bought
  <2> QED
    BY <2>1, <2>2, FS_Subset
<1>7. SoldIn(table, w, x) = {order[i] : i \in sold}
  <2>1. ASSUME NEW t \in SoldIn(table, w, x) PROVE \E i \in sold : order[i] = t
    <3>1. /\ t \in Trades /\ WalletOf[t] = w /\ Swap[t].in = x
          /\ Results[table][t].is_profitable # <<>>
      BY <2>1 DEF SoldIn, OfWallet
    <3>2. t \in Known(table, w)
      BY <3>1, ResultsAre, UnresolvedEmpty DEF Known, OfWallet
    <3>3. PICK i \in 1..n : order[i] = t
      BY <1>1, <3>2
    <3>4. h[i].in = x /\ result[i].is_profitable # <<>>
      BY <1>1, <1>4, <3>1, <3>3
    <3> QED
      BY <1>5, <3>3, <3>4 DEF SoldAt
  <2>2. ASSUME NEW i \in sold PROVE order[i] \in SoldIn(table, w, x)
    <3>1. i \in 1..n /\ h[i].in = x /\ result[i].is_profitable # <<>>
      BY <1>5, <2>2 DEF SoldAt
    <3>2. order[i] \in OfWallet(w) /\ Swap[order[i]].in = x
          /\ Results[table][order[i]].is_profitable # <<>>
      BY <1>1, <1>4, <3>1 DEF Known
    <3> QED
      BY <3>2 DEF SoldIn
  <2> HIDE DEF sold
  <2> QED
    BY <2>1, <2>2
<1>8. BoughtIn(table, w, x) = {order[i] : i \in bought}
  BY <1>1 DEF BoughtIn, BoughtAt
<1>9. \A i \in 1..n : /\ PaidOf(h)[i] = Paid[order[i]] /\ PaidOf(h)[i] \in Int
                      /\ GotOf(h)[i] = Got[order[i]] /\ GotOf(h)[i] \in Nat
  <2> TAKE i \in 1..n
  <2>1. i \in DOMAIN h /\ order[i] \in Trades
    BY <1>1, <1>3
  <2>2. Swap[order[i]].paid \in Nat /\ Swap[order[i]].got \in Nat
    BY <2>1, SwapAssumption
  <2>3. h[i].paid = Swap[order[i]].paid /\ h[i].got = Swap[order[i]].got
    BY <1>1
  <2> QED
    BY <2>1, <2>2, <2>3 DEF PaidOf, GotOf, Paid, Got
<1> HIDE DEF sold, bought
<1>10. SumFunctionOnSet(PaidOf(h), sold) = SumFunctionOnSet(Paid, SoldIn(table, w, x))
  <2>1. Stands(sold, order, Paid, PaidOf(h))
    BY <1>1, <1>6, <1>9 DEF Stands
  <2>2. SumFunctionOnSet(PaidOf(h), sold) = SumFunctionOnSet(Paid, Image(order, sold))
    BY <2>1, SumReindexed, Zenon
  <2> QED
    BY <1>7, <2>2 DEF Image
<1>11. SumFunctionOnSet(GotOf(h), bought) = SumFunctionOnSet(Got, BoughtIn(table, w, x))
  <2>1. Stands(bought, order, Got, GotOf(h))
    BY <1>1, <1>6, <1>9 DEF Stands
  <2>2. SumFunctionOnSet(GotOf(h), bought) = SumFunctionOnSet(Got, Image(order, bought))
    BY <2>1, SumReindexed, Zenon
  <2> QED
    BY <1>8, <2>2 DEF Image
<1>12. SumFunctionOnSet(PaidOf(h), sold) <= SumFunctionOnSet(GotOf(h), bought)
  <2>1. CASE x \in Tokens(h)
    BY <1>2, <2>1 DEF SoldOf, BoughtOf, sold, bought
  <2>2. CASE x \notin Tokens(h)
    <3>1. sold = {} /\ bought = {}
      BY <1>1, <1>5, <2>2 DEF sold, bought, SoldAt, BoughtAt, Tokens
    <3> QED
      BY <3>1, SumOfNone
  <2> QED
    BY <2>1, <2>2
<1> QED
  BY <1>10, <1>11, <1>12

-----------------------------------------------------------------------------
(* What the writers make of the table.                                     *)

\* Trades exist in the table without trades, where none has an outcome.
LEMMA EmptyTable ==
  /\ [t \in Trades |-> NoRecord] \in Tables
  /\ StoredIn([t \in Trades |-> NoRecord]) = {}
<1> DEFINE none == [t \in Trades |-> NoRecord]
<1>1. none = [t \in Trades |-> none[t]] /\ \A t \in Trades : none[t] \in RecordsOf(t)
  BY DEF RecordsOf
<1>2. StoredIn(none) = {}
  BY DEF StoredIn
<1> HIDE DEF none
<1>3. none \in Tables
  BY <1>1, RecordsTable
<1> QED BY <1>2, <1>3 DEF none

\* An upsert keeps to a table and adds at most a trade to it.
LEMMA UpsertTables ==
  ASSUME record \in Tables, NEW t \in Trades, NEW usd \in Prices[t], Upsert(t, usd)
  PROVE  record' \in Tables /\ StoredIn(record) \subseteq StoredIn(record')
<1> DEFINE new == [at |-> TimeOf[t], usd |-> usd]
<1>1. new \in RecordsOf(t) /\ new # NoRecord
  <2>1. TimeOf[t] \in Nat /\ usd \in Nat
    BY TradeAssumption
  <2> QED BY <2>1, TradeAssumption DEF RecordsOf
<1>2. record' = [record EXCEPT ![t] = new]
  BY DEF Upsert
<1> HIDE DEF new
<1>3. record = [s \in Trades |-> record[s]] /\ \A s \in Trades : record[s] \in RecordsOf(s)
  BY TableRecords
<1>4. \A s \in Trades : record'[s] = IF s = t THEN new ELSE record[s]
  BY <1>2, <1>3
<1>5. record' \in Tables
  <2>1. record' = [s \in Trades |-> record'[s]] /\ \A s \in Trades : record'[s] \in RecordsOf(s)
    BY <1>1, <1>2, <1>3, <1>4
  <2> QED BY <2>1, RecordsTable
<1> QED BY <1>1, <1>4, <1>5 DEF StoredIn

\* So does a backfill, with many.
LEMMA BackfillTables ==
  ASSUME record \in Tables, NEW now, NEW value \in Valuations, Backfill(now, value)
  PROVE  record' \in Tables /\ StoredIn(record) \subseteq StoredIn(record')
<1> DEFINE new(t) == [at |-> ScoredAt[t], usd |-> value[t]]
<1>1. ASSUME NEW t \in Trades PROVE new(t) \in RecordsOf(t) /\ new(t) # NoRecord
  <2>1. ScoredAt[t] \in Nat /\ value[t] \in Prices[t] /\ value[t] \in Nat
    BY TradeAssumption DEF Valuations
  <2> QED BY <2>1, TradeAssumption DEF RecordsOf
<1>2. record' = [t \in Trades |-> IF ScoredAt[t] <= now THEN new(t) ELSE record[t]]
  BY DEF Backfill
<1> HIDE DEF new
<1>3. \A t \in Trades : record'[t] \in RecordsOf(t)
  BY <1>1, <1>2, TableRecords
<1>4. record' \in Tables
  <2>1. record' = [t \in Trades |-> record'[t]]
    BY <1>2
  <2> QED BY <1>3, <2>1, RecordsTable
<1> QED BY <1>1, <1>2, <1>4 DEF StoredIn

\* What the writers leave is a table.
TableKept == record \in Tables

LEMMA NextTables == TableKept /\ [TradesNext]_tradeVars => TableKept'
<1> SUFFICES ASSUME record \in Tables, [TradesNext]_tradeVars PROVE record' \in Tables
  BY DEF TableKept
<1>1. CASE \E t \in Trades : \E usd \in Prices[t] : Upsert(t, usd)
  BY <1>1, UpsertTables
<1>2. CASE \E now \in {ScoredAt[t] : t \in Trades} :
             \E value \in Valuations : Backfill(now, value)
  BY <1>2, BackfillTables
<1>3. CASE \E r \in Resolvers : Resolve(r) \/ Fail(r)
  <2>1. record' = record
    BY <1>3 DEF Resolve, Begin, ReadWallet, Finish, Fail
  <2> QED BY <2>1
<1>4. CASE UNCHANGED tradeVars
  <2>1. record' = record
    BY <1>4 DEF tradeVars
  <2> QED BY <2>1
<1> QED BY <1>1, <1>2, <1>3, <1>4 DEF TradesNext

\* Whatever is in the table, the queues of lots account for the trades of a wallet as
\* numbering the units they buy does, for any number of resolvers: the sell leg of
\* resolve_pending_trade_outcomes takes the oldest units there are, and each sale
\* costs what those were bought for.
THEOREM FifoIsReferenceHolds == TradesSpec => []FifoIsReference
<1>1. TradesInit => TableKept
  BY EmptyTable DEF TradesInit, TableKept
<1>2. TableKept => FifoIsReference
  <2> SUFFICES ASSUME record \in Tables, NEW w \in Owners
               PROVE  Fifo(TradesOf(record, w)) = Reference(TradesOf(record, w))
    BY DEF FifoIsReference, TradesOf, TableKept
  <2> DEFINE history == TradesOf(record, w)
  <2>1. history \in Seq(Priced(Tokens(history)))
    BY HistoryType
  <2> HIDE DEF history
  <2>2. Fifo(history) = Reference(history)
    BY <2>1, FifoEqualsReference
  <2> QED BY <2>2 DEF history
<1> QED BY <1>1, <1>2, NextTables, PTL DEF TradesSpec

-----------------------------------------------------------------------------
(* One resolver.                                                           *)

\* The outcomes of wallet w are those of table.
FromTable(w, table) == \A t \in OfWallet(w) : outcome[t] = Results[table][t]

\* Of wallet w the session holds what was read from table, and the outcomes have
\* not changed since.
SessionFrom(r, w, table) ==
  \A t \in OfWallet(w) :
    IF t \in StoredIn(table)
    THEN session[r][t] = <<[was |-> outcome[t], new |-> Results[table][t]]>>
    ELSE session[r][t] = <<>> /\ outcome[t] = Unresolved

Unread(r, w) == \A t \in OfWallet(w) : session[r][t] = <<>>

Shape ==
  /\ record \in Tables
  /\ outcome = [t \in Trades |-> outcome[t]]
  /\ session = [r \in Resolvers |-> [t \in Trades |-> session[r][t]]]

\* Only rows that exist have outcomes or are in a session.
StoredOnly ==
  \A t \in Trades \ StoredIn(record) :
    /\ outcome[t] = Unresolved
    /\ \A r \in Resolvers : session[r][t] = <<>>

\* The tables there may have been: nothing is ever deleted.
Past == {table \in Tables : StoredIn(table) \subseteq StoredIn(record)}

Consistent == \A w \in Owners : \E table \in Past : FromTable(w, table)

SessionConsistent ==
  \A r \in Resolvers, w \in Owners :
    Unread(r, w) \/ \E table \in Past : SessionFrom(r, w, table)

IInv == Shape /\ StoredOnly /\ Consistent /\ SessionConsistent

-----------------------------------------------------------------------------
\* Flushing a row that has not changed since it was read makes it the computed
\* one.
LEMMA FlushedRow ==
  ASSUME NEW table \in Tables, NEW t \in Trades, NEW now
  PROVE  Flushed([was |-> now, new |-> Results[table][t]], now) = Results[table][t]
<1> DEFINE new == Results[table][t]
<1>1. new = [c \in Columns |-> new[c]]
  BY ResultsAre, RowColumns
<1> HIDE DEF new
<1>2. Flushed([was |-> now, new |-> new], now) = [c \in Columns |-> new[c]]
  BY DEF Flushed
<1> QED BY <1>1, <1>2 DEF new

LEMMA InitIInv == TradesInit => IInv
<1> SUFFICES ASSUME TradesInit PROVE IInv
  OBVIOUS
<1> DEFINE none == [t \in Trades |-> NoRecord]
<1>1. Shape
  BY EmptyTable DEF TradesInit, Shape, EmptySession
<1>2. StoredOnly
  BY DEF TradesInit, StoredOnly, EmptySession
<1>3. \A t \in Trades : Results[none][t] = Unresolved
  BY EmptyTable, ResultsAre
<1>4. none \in Past
  BY EmptyTable DEF TradesInit, Past
<1>5. Consistent
  <2> HIDE DEF none
  <2> QED BY <1>3, <1>4 DEF TradesInit, Consistent, FromTable, OfWallet
<1>6. SessionConsistent
  BY DEF TradesInit, SessionConsistent, Unread, OfWallet, EmptySession
<1> QED BY <1>1, <1>2, <1>5, <1>6 DEF IInv

\* Whoever upserts leaves outcomes and sessions alone and deletes nothing.
LEMMA WritersIInv ==
  ASSUME IInv, record' \in Tables, StoredIn(record) \subseteq StoredIn(record'),
         UNCHANGED <<outcome, session>>
  PROVE  IInv'
<1>1. Shape'
  BY DEF IInv, Shape
<1>2. StoredOnly'
  BY DEF IInv, StoredOnly
<1>3. Past \subseteq Past'
  BY DEF Past, StoredIn
<1>4. Consistent'
  BY <1>3 DEF IInv, Consistent, FromTable
<1>5. SessionConsistent'
  BY <1>3 DEF IInv, SessionConsistent, Unread, SessionFrom
<1> QED BY <1>1, <1>2, <1>4, <1>5 DEF IInv

LEMMA UpsertIInv ==
  ASSUME IInv, NEW t \in Trades, NEW usd \in Prices[t], Upsert(t, usd)
  PROVE  IInv'
<1>1. record' \in Tables /\ StoredIn(record) \subseteq StoredIn(record')
  BY UpsertTables DEF IInv, Shape
<1>2. UNCHANGED <<outcome, session>>
  BY DEF Upsert, resolvers
<1> QED BY <1>1, <1>2, WritersIInv

LEMMA BackfillIInv ==
  ASSUME IInv, NEW now, NEW value \in Valuations, Backfill(now, value)
  PROVE  IInv'
<1>1. record' \in Tables /\ StoredIn(record) \subseteq StoredIn(record')
  BY BackfillTables DEF IInv, Shape
<1>2. UNCHANGED <<outcome, session>>
  BY DEF Backfill, resolvers
<1> QED BY <1>1, <1>2, WritersIInv

LEMMA ReadWalletIInv ==
  ASSUME IInv, NEW r \in Resolvers, ReadWallet(r)
  PROVE  IInv'
<1> PICK w \in toRead[r] :
      session' = [session EXCEPT ![r] =
                 [t \in Trades |->
                    IF t \in StoredIn(record) /\ WalletOf[t] = w
                    THEN <<[was |-> outcome[t], new |-> Results[record][t]]>>
                    ELSE session[r][t]]]
  BY DEF ReadWallet
<1>1. UNCHANGED <<record, outcome>>
  BY DEF ReadWallet
<1>2. session'[r] = [t \in Trades |->
                    IF t \in StoredIn(record) /\ WalletOf[t] = w
                    THEN <<[was |-> outcome[t], new |-> Results[record][t]]>>
                    ELSE session[r][t]]
  BY DEF IInv, Shape
<1>3. \A q \in Resolvers \ {r} : session'[q] = session[q]
  BY DEF IInv, Shape
<1>4. session' = [q \in Resolvers |-> session'[q]]
  BY DEF IInv, Shape
<1>5. \A q \in Resolvers : session'[q] = [t \in Trades |-> session'[q][t]]
  BY <1>2, <1>3 DEF IInv, Shape
<1>6. Shape'
  <2>1. session' = [q \in Resolvers |-> [t \in Trades |-> session'[q][t]]]
    BY <1>4, <1>5
  <2> QED BY <1>1, <2>1 DEF IInv, Shape
<1>7. StoredOnly'
  BY <1>1, <1>2, <1>3 DEF IInv, StoredOnly, StoredIn
<1>8. Consistent'
  BY <1>1 DEF IInv, Consistent, FromTable, Past
<1>9. SessionConsistent'
  <2> SUFFICES ASSUME NEW q \in Resolvers, NEW v \in Owners
               PROVE  Unread(q, v)' \/ \E table \in Past : SessionFrom(q, v, table)'
    BY <1>1 DEF SessionConsistent, Past
  <2>1. CASE q = r /\ v = w
    <3>1. ASSUME NEW t \in OfWallet(v) \ StoredIn(record)
          PROVE  session'[r][t] = <<>> /\ outcome[t] = Unresolved
      BY <1>2, <2>1 DEF IInv, StoredOnly, OfWallet
    <3>2. ASSUME NEW t \in OfWallet(v) \cap StoredIn(record)
          PROVE  session'[r][t] = <<[was |-> outcome[t], new |-> Results[record][t]]>>
      BY <1>2, <2>1 DEF OfWallet
    <3>3. PICK table \in Past : table = record
      BY DEF IInv, Shape, Past
    <3>4. SessionFrom(q, v, table)'
      BY <1>1, <2>1, <3>1, <3>2, <3>3 DEF SessionFrom
    <3> QED BY <3>4
  <2>2. CASE ~(q = r /\ v = w)
    <3>1. \A t \in OfWallet(v) : session'[q][t] = session[q][t]
      BY <1>2, <1>3, <2>2 DEF OfWallet
    <3>2. Unread(q, v) \/ \E table \in Past : SessionFrom(q, v, table)
      BY DEF IInv, SessionConsistent
    <3> QED BY <1>1, <3>1, <3>2 DEF Unread, SessionFrom
  <2> QED BY <2>1, <2>2
<1> QED BY <1>6, <1>7, <1>8, <1>9 DEF IInv

\* Closing a session that wrote nothing.
LEMMA CloseIInv ==
  ASSUME IInv, NEW r \in Resolvers, Close(r), UNCHANGED <<record, outcome>>
  PROVE  IInv'
<1>1. session'[r] = EmptySession /\ \A q \in Resolvers \ {r} : session'[q] = session[q]
  BY DEF Close, IInv, Shape
<1>2. \A q \in Resolvers : session'[q] = [t \in Trades |-> session'[q][t]]
  BY <1>1 DEF IInv, Shape, EmptySession
<1>3. session' = [q \in Resolvers |-> session'[q]]
  BY DEF Close, IInv, Shape
<1>4. Shape'
  BY <1>2, <1>3 DEF IInv, Shape
<1>5. StoredOnly'
  BY <1>1 DEF IInv, StoredOnly, StoredIn, EmptySession
<1>6. Consistent'
  BY DEF IInv, Consistent, FromTable, Past
<1>7. SessionConsistent'
  <2>1. ASSUME NEW v \in Owners PROVE Unread(r, v)'
    BY <1>1 DEF Unread, OfWallet, EmptySession
  <2>2. ASSUME NEW q \in Resolvers \ {r}, NEW v \in Owners
        PROVE  Unread(q, v)' \/ \E table \in Past : SessionFrom(q, v, table)'
    BY <1>1 DEF IInv, SessionConsistent, Unread, SessionFrom
  <2> QED BY <2>1, <2>2 DEF SessionConsistent, Past
<1> QED BY <1>4, <1>5, <1>6, <1>7 DEF IInv

\* The commit of the only resolver.
LEMMA CommitIInv ==
  ASSUME IInv, NEW r, Resolvers = {r}, outcome' = Updated(r), Close(r),
         UNCHANGED record
  PROVE  IInv'
<1>1. session' = [q \in Resolvers |-> [t \in Trades |-> <<>>]]
  BY DEF Close, IInv, Shape, EmptySession
<1>2. Shape'
  BY <1>1 DEF IInv, Shape, Updated
<1>3. \A t \in Trades : t \notin InSession(r) => outcome'[t] = outcome[t]
  BY DEF Updated
<1>4. StoredOnly'
  BY <1>1, <1>3 DEF IInv, StoredOnly, StoredIn, InSession
<1>5. ASSUME NEW w \in Owners
      PROVE  \E table \in Past : FromTable(w, table)'
  <2>1. CASE Unread(r, w)
    <3>1. \A t \in OfWallet(w) : outcome'[t] = outcome[t]
      BY <1>3, <2>1 DEF Unread, InSession, OfWallet
    <3> QED BY <3>1 DEF IInv, Consistent, FromTable
  <2>2. ASSUME NEW table \in Past, SessionFrom(r, w, table)
        PROVE  FromTable(w, table)'
    <3> SUFFICES ASSUME NEW t \in OfWallet(w) PROVE outcome'[t] = Results[table][t]
      BY DEF FromTable
    <3>1. t \in Trades /\ table \in Tables
      BY DEF OfWallet, Past
    <3>2. CASE t \in StoredIn(table)
      <4> DEFINE row == [was |-> outcome[t], new |-> Results[table][t]]
      <4>1. session[r][t] = <<row>>
        BY <2>2, <3>2 DEF SessionFrom
      <4> HIDE DEF row
      <4>2. t \in InSession(r) /\ session[r][t][1] = row
        BY <3>1, <4>1 DEF InSession
      <4>3. outcome'[t] = Flushed(row, outcome[t])
        BY <3>1, <4>2 DEF Updated
      <4> QED BY <3>1, <4>3, FlushedRow DEF row
    <3>3. CASE t \notin StoredIn(table)
      <4>1. session[r][t] = <<>> /\ outcome[t] = Unresolved
        BY <2>2, <3>3 DEF SessionFrom
      <4> QED BY <1>3, <3>1, <3>3, <4>1, ResultsAre DEF InSession
    <3> QED BY <3>2, <3>3
  <2> QED BY <2>1, <2>2 DEF IInv, SessionConsistent
<1>6. Consistent'
  BY <1>5 DEF Consistent, Past
<1>7. SessionConsistent'
  BY <1>1 DEF SessionConsistent, Unread, OfWallet
<1> QED BY <1>2, <1>4, <1>6, <1>7 DEF IInv

LEMMA NextIInv ==
  ASSUME NEW r, Resolvers = {r}, IInv, [TradesNext]_tradeVars
  PROVE  IInv'
<1>1. CASE UNCHANGED tradeVars
  BY <1>1, WritersIInv DEF tradeVars, resolvers, IInv, Shape
<1>2. ASSUME NEW t \in Trades, NEW usd \in Prices[t], Upsert(t, usd) PROVE IInv'
  BY <1>2, UpsertIInv
<1>3. ASSUME NEW now, NEW value \in Valuations, Backfill(now, value) PROVE IInv'
  BY <1>3, BackfillIInv
<1>4. CASE Begin(r)
  BY <1>4, WritersIInv DEF Begin, IInv, Shape
<1>5. CASE ReadWallet(r)
  BY <1>5, ReadWalletIInv
<1>6. CASE Finish(r)
  BY <1>6, CommitIInv, CloseIInv DEF Finish
<1>7. CASE Fail(r)
  BY <1>7, CommitIInv, CloseIInv DEF Fail
<1> QED
  BY <1>1, <1>2, <1>3, <1>4, <1>5, <1>6, <1>7 DEF TradesNext, Resolve

\* run_trade_outcome_resolution: with one resolver, whatever upserts, backfills,
\* failures and rollbacks come between its reads and its commit, the outcomes of
\* a wallet are those of a single history of it.
THEOREM OneResolverOneHistory ==
  ASSUME NEW r, Resolvers = {r}
  PROVE  TradesSpec => []OutcomesOfOneHistory
<1>1. IInv => OutcomesOfOneHistory
  <2> SUFFICES ASSUME IInv, NEW w \in Owners
               PROVE  [t \in OfWallet(w) |-> outcome[t]] \in OfOneHistory[w]
    BY DEF OutcomesOfOneHistory
  <2>1. PICK table \in Tables : FromTable(w, table)
    BY DEF IInv, Consistent, Past
  <2>2. [t \in OfWallet(w) |-> outcome[t]] = [t \in OfWallet(w) |-> Results[table][t]]
    BY <2>1 DEF FromTable
  <2> QED BY <2>2 DEF OfOneHistory
<1> QED BY <1>1, InitIInv, NextIInv, PTL DEF TradesSpec

-----------------------------------------------------------------------------
(* Types.                                                                  *)

Controls ==
  /\ stage \in [Resolvers -> {"idle", "reading"}]
  /\ toRead \in [Resolvers -> SUBSET Owners]
  /\ writes \in 0..MaxWrites
  /\ tradeFaults \in 0..MaxTradeFaults

LEMMA InitControls == TradesInit => Controls
  BY TradeAssumption DEF TradesInit, Controls

LEMMA NextControls ==
  ASSUME Controls, [TradesNext]_tradeVars
  PROVE  Controls'
<1>0. writes \in Nat /\ tradeFaults \in Nat /\ MaxWrites \in Nat /\ MaxTradeFaults \in Nat
  BY TradeAssumption DEF Controls
<1>1. CASE UNCHANGED tradeVars
  BY <1>1 DEF tradeVars, resolvers, Controls
<1>2. ASSUME NEW t \in Trades, NEW usd \in Prices[t], Upsert(t, usd) PROVE Controls'
  BY <1>0, <1>2 DEF Upsert, resolvers, Controls
<1>3. ASSUME NEW now, NEW value \in Valuations, Backfill(now, value) PROVE Controls'
  BY <1>0, <1>3 DEF Backfill, resolvers, Controls
<1>4. ASSUME NEW r \in Resolvers, Begin(r) PROVE Controls'
  <2> PICK n \in BatchSizes : \E some \in Oldest(n) :
             toRead' = [toRead EXCEPT ![r] = {WalletOf[t] : t \in some}]
    BY <1>4 DEF Begin
  <2>1. PICK some \in Oldest(n) : toRead' = [toRead EXCEPT ![r] = {WalletOf[t] : t \in some}]
    OBVIOUS
  <2>2. {WalletOf[t] : t \in some} \in SUBSET Owners
    <3>1. some \in SUBSET Trades
      BY DEF Oldest, Pending, StoredIn
    <3> QED BY <3>1, TradeAssumption
  <2>3. UNCHANGED <<writes, tradeFaults>> /\ stage' = [stage EXCEPT ![r] = "reading"]
    BY <1>4 DEF Begin
  <2> QED BY <2>1, <2>2, <2>3 DEF Controls
<1>5. ASSUME NEW r \in Resolvers, ReadWallet(r) PROVE Controls'
  <2>1. PICK w \in toRead[r] : toRead' = [toRead EXCEPT ![r] = @ \ {w}]
    BY <1>5 DEF ReadWallet
  <2>2. UNCHANGED <<stage, writes, tradeFaults>>
    BY <1>5 DEF ReadWallet
  <2> QED BY <2>1, <2>2 DEF Controls
<1>6. ASSUME NEW r \in Resolvers, Finish(r) PROVE Controls'
  BY <1>6 DEF Finish, Close, Controls
<1>7. ASSUME NEW r \in Resolvers, Fail(r) PROVE Controls'
  BY <1>0, <1>7 DEF Fail, Close, Controls
<1> QED
  BY <1>1, <1>2, <1>3, <1>4, <1>5, <1>6, <1>7 DEF TradesNext, Resolve

\* Outcomes are outcomes of some table, and so are those in a session.
LEMMA InvariantTypes == IInv /\ Controls => TradesTypeOK
<1> SUFFICES ASSUME IInv, Controls PROVE TradesTypeOK
  OBVIOUS
<1>1. ASSUME NEW t \in Trades PROVE outcome[t] \in Outcomes
  <2>1. WalletOf[t] \in Owners /\ t \in OfWallet(WalletOf[t])
    BY TradeAssumption DEF OfWallet
  <2>2. PICK table \in Tables : outcome[t] = Results[table][t]
    BY <2>1 DEF IInv, Consistent, Past, FromTable
  <2> QED BY <2>2, ResultsAre
<1>2. ASSUME NEW r \in Resolvers, NEW t \in Trades PROVE session[r][t] \in Seq(Row)
  <2>1. WalletOf[t] \in Owners /\ t \in OfWallet(WalletOf[t])
    BY TradeAssumption DEF OfWallet
  <2>2. CASE session[r][t] = <<>>
    BY <2>2
  <2>3. CASE session[r][t] # <<>>
    <3>1. PICK table \in Tables :
            session[r][t] = <<[was |-> outcome[t], new |-> Results[table][t]]>>
      BY <2>1, <2>3 DEF IInv, SessionConsistent, Past, Unread, SessionFrom
    <3>2. [was |-> outcome[t], new |-> Results[table][t]] \in Row
      BY <1>1, ResultsAre DEF Row
    <3> QED BY <3>1, <3>2
  <2> QED BY <2>2, <2>3
<1>3. outcome \in [Trades -> Outcomes]
  BY <1>1 DEF IInv, Shape
<1>4. session \in [Resolvers -> [Trades -> Seq(Row)]]
  <2>1. session = [r \in Resolvers |-> [t \in Trades |-> session[r][t]]]
    BY DEF IInv, Shape
  <2> HIDE DEF Row
  <2> QED BY <1>2, <2>1
<1> QED BY <1>3, <1>4 DEF TradesTypeOK, Controls, IInv, Shape

\* trade_records and backfill_trades with one resolver: the three columns of an
\* outcome are NULL together, in the table and in a session.
THEOREM TypesHold ==
  ASSUME NEW r, Resolvers = {r}
  PROVE  TradesSpec => []TradesTypeOK
<1>1. TradesInit => IInv /\ Controls
  BY InitIInv, InitControls
<1>2. IInv /\ Controls /\ [TradesNext]_tradeVars => (IInv /\ Controls)'
  BY NextIInv, NextControls
<1> QED BY <1>1, <1>2, InvariantTypes, PTL DEF TradesSpec

-----------------------------------------------------------------------------
(* Units.                                                                  *)

\* The outcomes are those of a table whose purchases are still there.
LEMMA InvariantConserves == IInv => NoUnitSoldTwice
<1> SUFFICES ASSUME IInv, NEW w \in Owners, NEW x
             PROVE  SumFunctionOnSet(Paid, Sold(w, x)) <= SumFunctionOnSet(Got, Purchases(w, x))
  BY DEF NoUnitSoldTwice
<1>1. PICK table \in Past : FromTable(w, table)
  BY DEF IInv, Consistent
<1>2. table \in Tables /\ StoredIn(table) \subseteq StoredIn(record)
  BY DEF Past
<1>3. Sold(w, x) = SoldIn(table, w, x)
  BY <1>1 DEF Sold, SoldIn, FromTable
<1>4. /\ BoughtIn(table, w, x) \in SUBSET Purchases(w, x)
      /\ Purchases(w, x) \subseteq Trades /\ Sold(w, x) \subseteq Trades
  BY <1>2 DEF BoughtIn, Purchases, Known, Sold, OfWallet
<1>5. IsFiniteSet(Purchases(w, x)) /\ IsFiniteSet(Sold(w, x))
  BY <1>4, TradeAssumption, FS_Subset
<1>6. \A t \in Trades : Paid[t] \in Nat /\ Got[t] \in Nat
  BY SwapAssumption DEF Paid, Got
<1>7. /\ SumFunctionOnSet(Got, BoughtIn(table, w, x)) \in Nat
      /\ SumFunctionOnSet(Got, BoughtIn(table, w, x)) <= SumFunctionOnSet(Got, Purchases(w, x))
  <2>1. \A t \in Purchases(w, x) : Got[t] \in Nat
    BY <1>4, <1>6
  <2> QED BY <1>4, <1>5, <2>1, SumGrows
<1>8. /\ SumFunctionOnSet(Paid, Sold(w, x)) \in Int
      /\ SumFunctionOnSet(Got, Purchases(w, x)) \in Int
  <2>1. Integral(Paid, Sold(w, x)) /\ Integral(Got, Purchases(w, x))
    BY <1>4, <1>6 DEF Integral
  <2> QED BY <1>5, <2>1, SumIsInt
<1>9. SumFunctionOnSet(Paid, Sold(w, x)) <= SumFunctionOnSet(Got, BoughtIn(table, w, x))
  BY <1>2, <1>3, TableBalances
<1> QED BY <1>7, <1>8, <1>9

\* resolve_pending_trade_outcomes with one resolver: lots are used once, whatever
\* upserts, backfills, failures and rollbacks come in between, also when a sale
\* becomes known after a later one has been resolved.
THEOREM NoUnitSoldTwiceHolds ==
  ASSUME NEW r, Resolvers = {r}
  PROVE  TradesSpec => []NoUnitSoldTwice
  BY InitIInv, NextIInv, InvariantConserves, PTL DEF TradesSpec
=============================================================================
