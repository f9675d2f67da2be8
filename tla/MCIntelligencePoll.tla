------------------------- MODULE MCIntelligencePoll -------------------------
(* Instance of IntelligencePoll for TLC: events 2 and 3 are transfers that *)
(* share the wallet b, event 1 is a news item.                             *)
EXTENDS IntelligencePoll, TLC

CONSTANTS a, b, c, p1, p2

MCEvents    == 1..3
MCAlerting  == {1, 3}
MCWallets   == {a, b, c}
MCWalletsOf == 1 :> {} @@ 2 :> {a, b} @@ 3 :> {b, c}
MCTradeLike == {3}
MCPollers   == {p1, p2}

\* An instance for liveness: two transfers that share the wallet b, and two
\* older news items that make up the flushes without a poll.
MCFewEvents    == 1..4
MCFewAlerting  == {3, 4}
MCFewWallets   == {a, b}
MCFewWalletsOf == 1 :> {} @@ 2 :> {} @@ 3 :> {b} @@ 4 :> {a, b}
MCFewTradeLike == {4}

MCOnePoller == {p1}

MCSymmetry == Permutations({p1, p2})
=============================================================================
