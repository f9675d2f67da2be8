---------------------------- MODULE AgentAScoring ----------------------------
(***************************************************************************)
(* Agent A: score_event and score_events_batch of                          *)
(* app/modules/intelligence/application/agent_a.py.                        *)
(*                                                                         *)
(* An event is abstracted to what its score depends on: how many sources,  *)
(* mentions, hashtags, spam patterns and generic names it has, its rate of *)
(* engagement (per mille), the similarity (per mille) of its embedding to  *)
(* the nearest known one, whether its content is a dictionary and all its  *)
(* mentions are strings, and what the on-chain collector marked.  Scores   *)
(* are in tenths.                                                          *)
(***************************************************************************)
EXTENDS Integers

CONSTANTS ScoredEvents, Nothing

ASSUME ScoringAssumption ==
  \A e \in ScoredEvents :
    /\ {e.sources, e.mentions, e.hashtags, e.spam, e.generic} \subseteq Nat
    /\ e.rate \in Int /\ e.similarity \in Int \cup {Nothing}

VARIABLES scored  \* the event that is scored

Least(a, b) == IF a < b THEN a ELSE b

\* ScoringConfig
MinSources == 3
Weights    == [sources |-> 3, engagement |-> 2, bot |-> 3, dedup |-> 2]

\* Mutant: an event without sources is neutral.
MultiSourceNeutral(e) ==
  IF e.sources = 0 THEN 50
  ELSE IF e.sources >= MinSources THEN 100 ELSE (100 * e.sources) \div MinSources

\* multi_source_check
MultiSource(e) == IF e.sources >= MinSources THEN 100 ELSE (100 * e.sources) \div MinSources

\* engagement_analysis: mentions and hashtags stand for engagement, then the
\* rate; content that is no dictionary raises, and the handler answers 50.
EngagementBase(e) ==
  CASE e.mentions >= 2 \/ e.hashtags >= 3 -> 100
    [] e.mentions = 1 \/ (e.mentions < 2 /\ e.hashtags \in 1..2) -> 75
    [] e.mentions = 0 /\ e.hashtags = 0 /\ e.rate > 0 ->
         IF e.rate > 50 THEN 100 ELSE 2 * e.rate
    [] OTHER -> 40
Engagement(e) ==
  IF ~e.content THEN 50
  ELSE Least(EngagementBase(e) + (IF e.verified THEN 20 ELSE 0), 120)

\* bot_detection
Bot(e) ==
  LET score == 100 - 20 * e.spam - 20 * e.generic
  IN  IF score < 0 THEN 0 ELSE score

\* semantic_similarity: no embedding, or no number, counts as unique.
Uniqueness(similarity) ==
  IF similarity = Nothing THEN 100
  ELSE IF similarity < 900 THEN 100 ELSE (1000 - similarity) \div 10
Dedup(e) == Uniqueness(e.similarity)

Weighted(ms, eng, bot, dedup) ==
  Weights.sources * ms + Weights.engagement * eng + Weights.bot * bot + Weights.dedup * dedup

ScorePriority(score) ==
  IF score >= 800 THEN "HIGH" ELSE IF score >= 500 THEN "MEDIUM" ELSE "LOW"

Verdict(score, priority) == [score |-> score, priority |-> priority]

Marked(e)  == e.marker \in {"HIGH", "MEDIUM", "LOW"}
\* A news event that mentions enough: the boost passes every check by.
Boosted(e) == e.type = "news" /\ (e.mentions >= 2 \/ e.hashtags >= 3 \/ e.majors >= 1)

Standard(e) ==
  LET score == Weighted(MultiSource(e), Engagement(e), Bot(e), Dedup(e))
  IN  Verdict(score, ScorePriority(score))

\* Content that is no dictionary raises before the marker is read; a mention that is
\* no string, after it and before anything is scored.
Raises(e) == ~e.content \/ (~Marked(e) /\ e.mentions > 0 /\ ~e.named)

\* score_event
ScoreEvent(e) ==
  CASE Raises(e) -> Verdict(0, "LOW")
    [] ~Raises(e) /\ Marked(e) ->
         Verdict(CASE e.marker = "HIGH" -> 950 [] e.marker = "MEDIUM" -> 700
                   [] e.marker = "LOW" -> 350, e.marker)
    [] ~Raises(e) /\ ~Marked(e) /\ Boosted(e) -> Verdict(650, "MEDIUM")
    [] OTHER -> Standard(e)

\* Mutant: the batch scores a near duplicate as unique.
ScoreInBatchLenient(e) ==
  LET score == Weighted(MultiSource(e), Engagement(e), Bot(e),
                        IF e.similarity = Nothing THEN 100
                        ELSE IF e.similarity <= 900 THEN 100
                        ELSE (1000 - e.similarity) \div 10)
  IN  Verdict(score, ScorePriority(score))

\* score_events_batch scores every event the standard way, with a uniqueness of
\* its own making and no fast path.
ScoreInBatch(e) ==
  LET dedup == IF e.similarity = Nothing THEN 100
               ELSE IF e.similarity < 900 THEN 100 ELSE (1000 - e.similarity) \div 10
      score == Weighted(MultiSource(e), Engagement(e), Bot(e), dedup)
  IN  Verdict(score, ScorePriority(score))

ScoringInit == scored \in ScoredEvents
\* The next event; of the same kind, and as original as this one.
ScoringNext ==
  scored' \in {e \in ScoredEvents : e.type = scored.type /\ e.similarity = scored.similarity}
ScoringSpec == ScoringInit /\ [][ScoringNext]_scored

-----------------------------------------------------------------------------
(* What must hold.                                                         *)

\* README: "promotes RSS events that mention two or more crypto entities, or three or
\* more hashtags, directly to MEDIUM priority without running the full scoring pipeline"
\* (one major entity is enough in the code): no event a collector makes (which names
\* no sources and no verified author) would be HIGH if it ran the pipeline.
BoostPromotes ==
  scored.sources = 0 /\ ~scored.verified /\ Boosted(scored)
    => Standard(scored).priority # "HIGH"

\* Scoring a batch is only a faster way to score its events, wherever score_event
\* neither takes a fast path nor raises: both give such an event one score.
BatchAgrees ==
  ~Raises(scored) /\ ~Marked(scored) /\ ~Boosted(scored)
    => ScoreInBatch(scored) = ScoreEvent(scored)
=============================================================================
