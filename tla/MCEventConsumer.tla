-------------------------- MODULE MCEventConsumer --------------------------
(* Instance of EventConsumer for TLC: two valid messages that are events of *)
(* the same trade, one that is no trade, and one malformed message.         *)
EXTENDS EventConsumer, TLC

CONSTANTS v1, v2, v3, x1, t1

MCMessages == {v1, v2, v3, x1}
MCValid    == {v1, v2, v3}
MCTradeOf  == v1 :> t1 @@ v2 :> t1 @@ v3 :> NoTrade

\* A smaller instance, for liveness and for two losses.
MCFewMessages == {v1, v2, x1}
MCFewValid    == {v1, v2}
MCFewTradeOf  == v1 :> t1 @@ v2 :> t1

\* v1 and v2 play the same part.
MCSymmetry == Permutations({v1, v2})
=============================================================================
