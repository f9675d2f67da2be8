-------------------------- MODULE MCTradeResolver --------------------------
(* Instances of TradeResolver for TLC. *)
EXTENDS TradeResolver

CONSTANTS A, B, X, Y, U

\* Wallet A buys three X (its price may be missing at first) and sells two of
\* them twice: the purchase covers one sale only.  Wallet B buys one Y and sells
\* it.
MCWalletOf == <<A, A, A, B, B>>
MCSwap ==
  << [in |-> U, paid |-> 6, out |-> X, got |-> 3],
     [in |-> X, paid |-> 2, out |-> U, got |-> 1],
     [in |-> X, paid |-> 2, out |-> U, got |-> 1],
     [in |-> U, paid |-> 4, out |-> Y, got |-> 1],
     [in |-> Y, paid |-> 1, out |-> U, got |-> 1] >>

\* The two sales of A are scored in the reverse order: a poll takes the newest
\* event first.
MCTimeOf   == <<1, 3, 4, 2, 5>>
MCScoredAt == <<6, 8, 7, 6, 8>>
MCPrices   == <<{0, 6}, {6}, {2}, {2}, {6}>>

\* Every table has outcomes, and only for the trades it stores.
ASSUME ResultsAreOutcomes == Results \in [Tables -> [Trades -> Outcomes]]
ASSUME StoredHaveOutcomes ==
  \A table \in Tables, t \in Trades :
    Results[table][t] # Unresolved => t \in StoredIn(table)
============================================================================
