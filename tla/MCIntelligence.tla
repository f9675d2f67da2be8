--------------------------- MODULE MCIntelligence ---------------------------
(* The trade records beside the parts of MCAgents, with which they share no *)
(* state: a behaviour runs one of them.                                     *)
EXTENDS MCTradeResolver, MCAgents

RestsTrades == TradesInit
RestsAgents == RestsScoring /\ RestsProfiler /\ RestsBackfill /\ RestsRoles

IntelligenceInit ==
  \/ part = "trades" /\ TradesInit /\ RestsAgents
  \/ AgentsInit /\ RestsTrades

TradesPart == part = "trades" /\ TradesNext /\ UNCHANGED all
AgentsPart == AgentsNext /\ UNCHANGED tradeVars

\* The bound on writes ends the trades while no run is on its way.
Quiet ==
  /\ part = "trades" /\ writes = MaxWrites
  /\ \A r \in Resolvers : stage[r] = "idle"
  /\ UNCHANGED <<all, tradeVars>>

IntelligenceNext == TradesPart \/ AgentsPart \/ Quiet

\* The fairness of TradesFairSpec and of BackfillFairSpec.
IntelligenceSpec ==
  /\ IntelligenceInit
  /\ [][IntelligenceNext]_<<all, tradeVars>>
  /\ \A r \in Resolvers : WF_tradeVars(part = "trades" /\ Resolve(r))
  /\ WF_backfillVars(part = "backfill" /\ BackfillStep)
=============================================================================
