------------------------------ MODULE MCAgents ------------------------------
(* Four parts side by side, of which a behaviour runs one: events that       *)
(* Agent A scores; wallets that Agent B profiles and the seeding script      *)
(* labels; the backfill of Agent B; two requests on the roles of two users.  *)
(*                                                                           *)
(* a trades, b does not.  One seed file labels a; the other lists it in two  *)
(* entities, and is rolled back while a has no row.                          *)
EXTENDS AgentAScoring, WalletProfiler, AgentBBackfill, AdminRoles, TLC

CONSTANTS zero, a, b, u, v, r1, r2

Known(id, name, type, verified, reliability, wallets) ==
  [id |-> id, name |-> name, type |-> type, verified |-> verified,
   reliability |-> reliability, wallets |-> wallets]
MCFiles ==
  {<<Known("x", "Binance", "exchange", TRUE, 50, {a})>>,
   <<Known("x", "Coinbase", "unknown", FALSE, 70, {a, b}),
     Known("y", "Jump", "market_maker", FALSE, 90, {a})>>}

\* One event for every combination of the values at which the scores differ.
MCScoredEvents ==
  {[content |-> TRUE, named |-> TRUE, sources |-> s, mentions |-> m, majors |-> j, hashtags |-> h,
    rate |-> 20, verified |-> w, spam |-> p, generic |-> 0, similarity |-> d,
    type |-> t, marker |-> "none"] :
     s \in {0, 2, 3}, m \in {0, 1, 2}, j \in {0, 1}, h \in {0, 3}, w \in BOOLEAN,
     p \in {0, 5}, d \in {Nothing, 899, 900, 1000}, t \in {"news", "onchain"}}
  \cup
  {[content |-> c, named |-> n, sources |-> 0, mentions |-> m, majors |-> 0, hashtags |-> h,
    rate |-> r, verified |-> FALSE, spam |-> 0, generic |-> g, similarity |-> Nothing,
    type |-> "onchain", marker |-> k] :
     c \in BOOLEAN, n \in BOOLEAN, m \in {0, 1}, h \in {0, 2}, r \in {0, 51}, g \in {0, 2},
     k \in {"none", "LOW", "MEDIUM", "HIGH"}}

VARIABLE part

RestsScoring  == scored = CHOOSE e \in ScoredEvents : e.type = "news"
RestsProfiler == ProfilerInit
RestsBackfill ==
  scoredRows = {} /\ lacking = {} /\ unreadable = {} /\ polling = FALSE /\ left = Unlimited
  /\ BackfillInit
RestsRoles    == target = [r \in Requests |-> u] /\ RolesInit

AgentsInit ==
  \/ part = "scoring" /\ ScoringInit /\ RestsProfiler /\ RestsBackfill /\ RestsRoles
  \/ part = "profiler" /\ ProfilerInit /\ RestsScoring /\ RestsBackfill /\ RestsRoles
  \/ part = "backfill" /\ BackfillInit /\ RestsScoring /\ RestsProfiler /\ RestsRoles
  \/ part = "roles" /\ RolesInit /\ RestsScoring /\ RestsProfiler /\ RestsBackfill

all == <<part, scored, profilerVars, backfillVars, roleVars>>

ScoringPart  == /\ part = "scoring" /\ ScoringNext
                /\ UNCHANGED <<part, profilerVars, backfillVars, roleVars>>
ProfilerPart == /\ part = "profiler" /\ ProfilerNext
                /\ UNCHANGED <<part, scored, backfillVars, roleVars>>
BackfillPart == /\ part = "backfill" /\ BackfillNext
                /\ UNCHANGED <<part, scored, profilerVars, roleVars>>
RolesPart    == /\ part = "roles" /\ RolesNext
                /\ UNCHANGED <<part, scored, profilerVars, backfillVars>>

\* The only ends: of a one-off backfill, and the bounds on roles.
Ended ==
  /\ \/ part = "backfill" /\ run = "ended"
     \/ part = "roles" /\ vacancies = MaxVacancies
  /\ UNCHANGED all

AgentsNext == ScoringPart \/ ProfilerPart \/ BackfillPart \/ RolesPart \/ Ended

AgentsSpec ==
  /\ AgentsInit
  /\ [][AgentsNext]_all
  /\ WF_backfillVars(part = "backfill" /\ BackfillStep)

\* BackfillFinishes, in the part where the backfill runs.
StartedBackfillFinishes == part = "backfill" => BackfillFinishes
=============================================================================
