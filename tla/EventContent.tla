---------------------------- MODULE EventContent ----------------------------
(***************************************************************************)
(* What the collectors make of a feed entry: the extractors of             *)
(* app/shared/utils/data_extractors.py, the entities of                    *)
(* entity_extraction.py, Event.create of                                   *)
(* app/modules/ingestion/domain/models.py, and the schemas of              *)
(* app/shared/utils/validators.py.                                         *)
(*                                                                         *)
(* A text is its length in characters once stripped, a list of texts its   *)
(* size; None is an absent value.  Prices and percentages are integers,    *)
(* ratios are compared by multiplying out.  arrows and bangs count the     *)
(* ">>>" and the "!!" of a title; size is the length of the JSON made of   *)
(* the entry's texts.                                                      *)
(***************************************************************************)
EXTENDS Integers, FiniteSets

CONSTANTS
  None,
  PriceEntries,  \* what CoinGecko may report of the coin
  RssEntries     \* what a feed may hold

\* What the sources may report.  extract_crypto_mentions knows 21 symbols; the
\* source is the host of one of FEEDS, or "coingecko".
ASSUME ContentAssumption ==
  /\ \A e \in RssEntries \cup PriceEntries :
       e.age \in Int /\ e.symbols \in 0..21 /\ e.source \in 9..17 /\ e.size \in Nat
  /\ \A e \in RssEntries :
       /\ e.kind = "news"
       /\ {e.title, e.summary, e.link, e.categories, e.words, e.urls, e.keywords} \subseteq Nat
       /\ {e.arrows, e.bangs} \subseteq Nat /\ 3 * e.arrows + 2 * e.bangs <= e.title
       /\ {e.author, e.image} \subseteq Nat \cup {None}
  /\ \A e \in PriceEntries :
       /\ e.kind = "price" /\ {e.id, e.symbol, e.name} \subseteq Nat
       /\ {e.price, e.ath, e.atl, e.high, e.low, e.change_1h, e.change_24h,
           e.change_7d, e.change_30d, e.rank, e.volume, e.cap, e.circulating,
           e.max_supply} \subseteq Int \cup {None}

VARIABLE entry   \* the entry being collected

Least(a, b) == IF a < b THEN a ELSE b
Abs(x) == IF x < 0 THEN -x ELSE x
OrZero(x) == IF x = None THEN 0 ELSE x
\* Python's truth of a number that may be absent.
Truthy(x) == x # None /\ x # 0

\* An optional number passes Field(None, ge=lo, le=hi).
Within(x, lo, hi) == x = None \/ x \in lo..hi

-----------------------------------------------------------------------------
(* RSS.                                                                    *)

\* words / 200 minutes, rounded half to even, at least one.
ReadTime(words) ==
  LET q == words \div 200
      r == words % 200
      rounded == IF r > 100 \/ (r = 100 /\ q % 2 = 1) THEN q + 1 ELSE q
  IN  IF words = 0 THEN 0 ELSE IF rounded < 1 THEN 1 ELSE rounded

TitlePoints(n) ==
  CASE n \in 30..120 -> 20 [] n > 120 -> 15 [] n \in 15..29 -> 10 [] OTHER -> 0
SummaryPoints(n) ==
  CASE n \in 100..500 -> 25 [] n \in 501..2000 -> 20 [] n > 2000 -> 15
    [] OTHER -> 0
CategoryPoints(n) == CASE n >= 2 -> 15 [] n = 1 -> 8 [] OTHER -> 0

\* calculate_content_score: 15 points are for "links" and 5 for "site_name",
\* fields that extract_rss_entry_detailed never sets.
ContentScore(c) ==
  Least(100, TitlePoints(c.title) + SummaryPoints(c.summary)
             + (IF Truthy(c.author) THEN 10 ELSE 0)
             + CategoryPoints(c.categories)
             + (IF "links" \in DOMAIN c THEN 15 ELSE 0)
             + (IF Truthy(c.image_url) THEN 10 ELSE 0)
             + (IF "site_name" \in DOMAIN c THEN 5 ELSE 0))

\* extract_crypto_entities keeps 15 of the keywords found.
CryptoEntities(found) == Least(15, found)

\* extract_rss_entry_detailed.  The hashtags are at most ten of the categories
\* and keywords; the urls and the hashtags pass through a Python set, so their
\* order, which is part of the event's id, is not determined (Collectors).
RssContent(e) ==
  [title |-> e.title, arrows |-> e.arrows, bangs |-> e.bangs,
   summary |-> e.summary, link |-> e.link, source |-> e.source,
   author |-> e.author, categories |-> e.categories, image_url |-> e.image,
   read |-> ReadTime(e.words),
   urls |-> IF e.summary > 0 THEN e.urls + 1 ELSE 1,
   hashtags |-> Least(10, Least(5, e.categories)
                          + Least(5, CryptoEntities(e.keywords)))]

RssContentSchema(c) ==
  /\ c.title \in 5..500 /\ c.arrows <= 3 /\ c.bangs <= 5
  /\ c.source \in 1..100
  /\ c.summary <= 50000
  /\ c.link >= 10
  /\ Within(c.author, 0, 200)
  /\ c.categories <= 20
  /\ Within(c.image_url, 0, 500)
  /\ c.read \in 0..1000
  /\ c.urls <= 50
  /\ c.hashtags <= 50
  /\ ContentScore(c) \in 0..100

-----------------------------------------------------------------------------
(* Prices.                                                                 *)

\* Thousandths of the 24 h range below the price, clamped to the range.
PricePosition(e) ==
  IF ~(Truthy(e.high) /\ Truthy(e.low) /\ Truthy(e.price)) THEN None
  ELSE IF e.high = e.low THEN 500
  ELSE LET raw == (1000 * (e.price - e.low)) \div (e.high - e.low)
       IN  IF raw < 0 THEN 0 ELSE Least(1000, raw)

\* Mutant: a category the schema does not know.
VolatilityExtreme(change) ==
  CASE Abs(change) > 20 -> "extreme" [] Abs(change) \in 5..20 -> "medium"
    [] OTHER -> "low"
Volatility(change) ==
  CASE Abs(change) >= 10 -> "high" [] Abs(change) \in 5..9 -> "medium"
    [] OTHER -> "low"

VolatilityRisk(change) ==
  CASE Abs(change) > 20 -> 30 [] Abs(change) \in 11..20 -> 20
    [] Abs(change) \in 6..10 -> 10 [] OTHER -> 5
RankRisk(rank) ==
  CASE ~Truthy(rank) -> 30 [] rank \in 1..10 -> 5 [] rank \in 11..50 -> 15
    [] rank \in 51..100 -> 25 [] OTHER -> 30
VolumeRisk(volume, cap) ==
  IF ~(Truthy(volume) /\ Truthy(cap)) THEN 20
  ELSE CASE volume > cap -> 5 [] volume <= cap /\ 2 * volume > cap -> 10
         [] 2 * volume <= cap /\ 10 * volume > cap -> 15 [] OTHER -> 20
SupplyRisk(circulating, most) ==
  IF ~(Truthy(circulating) /\ Truthy(most)) THEN 15
  ELSE LET r == 10 * circulating
       IN  CASE r > 9 * most -> 5 [] r <= 9 * most /\ r > 7 * most -> 10
             [] r <= 7 * most /\ r > 5 * most -> 15 [] OTHER -> 20

\* calculate_crypto_risk_score
RiskScore(e) ==
  Least(100, VolatilityRisk(OrZero(e.change_24h)) + RankRisk(e.rank)
             + VolumeRisk(e.volume, e.cap)
             + SupplyRisk(e.circulating, e.max_supply))

\* extract_price_entry_detailed: the changes are fields of the content itself.
PriceContent(e) ==
  [id |-> e.id, symbol |-> e.symbol, name |-> e.name,
   price |-> e.price, ath |-> e.ath, atl |-> e.atl,
   position |-> PricePosition(e), change_1h |-> e.change_1h,
   change_24h |-> e.change_24h, change_7d |-> e.change_7d,
   change_30d |-> e.change_30d, volume |-> e.volume,
   circulating |-> e.circulating, rank |-> e.rank, risk |-> RiskScore(e),
   volatility |-> Volatility(OrZero(e.change_24h))]

\* identify_significant_changes looks for the changes under "price_changes",
\* which the content does not have.
Changes(c) ==
  IF "price_changes" \in DOMAIN c THEN c.price_changes
  ELSE [change_1h |-> None, change_24h |-> None]
Near(price, extreme) ==
  /\ Truthy(extreme) /\ Truthy(price)
  /\ 100 * Abs(price - extreme) < 5 * extreme
SignificantMoves(c) ==
  LET hour == OrZero(Changes(c).change_1h)
      day == OrZero(Changes(c).change_24h)
  IN  {m \in {"1h", "24h", "trend", "ath", "atl"} :
         \/ m = "1h" /\ Abs(hour) >= 5
         \/ m = "24h" /\ Abs(day) >= 5
         \/ m = "trend" /\ ((hour > 0 /\ day > 0) \/ (hour < 0 /\ day < 0))
         \/ m = "ath" /\ Near(c.price, c.ath)
         \/ m = "atl" /\ Near(c.price, c.atl)}

PriceContentSchema(c) ==
  /\ c.id \in 1..100 /\ c.symbol \in 1..20 /\ c.name \in 1..200
  /\ c.price # None => c.price > 0
  /\ c.rank # None => c.rank > 0
  /\ c.volume # None => c.volume >= 0
  /\ c.circulating # None => c.circulating >= 0
  /\ \A change \in {c.change_1h, c.change_24h, c.change_7d, c.change_30d} :
       Within(change, -100, 1000)
  /\ c.risk \in 0..100
  /\ c.volatility \in {"low", "medium", "high"}

-----------------------------------------------------------------------------
(* Both.                                                                   *)

Megabyte == 1024 * 1024

\* EventSchema with validate_by_type; age is in seconds, negative in the future.
EventSchema(e) ==
  /\ e.source \in 1..100
  /\ e.age >= -300
  /\ e.size <= Megabyte
  /\ e.symbols <= 100
  /\ IF e.kind = "news" THEN RssContentSchema(RssContent(e))
     ELSE PriceContentSchema(PriceContent(e))

\* What the price collector sends of the coin it looks at.
Collected(e) ==
  EventSchema(e) /\ (e.kind = "news" \/ SignificantMoves(PriceContent(e)) # {})

\* The collector comes to another entry, or to the next reading of the coin.
ContentInit == entry \in RssEntries \cup PriceEntries
ContentNext == entry' \in IF entry.kind = "news" THEN RssEntries ELSE PriceEntries
ContentSpec == ContentInit /\ [][ContentNext]_entry

-----------------------------------------------------------------------------
(* What must hold.                                                         *)

\* What the extractors compute always passes the schema: an entry is refused
\* for what the source said (a date in the future, a missing name, a spam-like
\* title, a text or a list too long, a change beyond the schema's range), never
\* for a score, a risk, a volatility, a reading time or a number of hashtags or
\* entities of our own making.
RefusedForItsOwnData ==
  ~EventSchema(entry) =>
    \/ entry.age < -300
    \/ entry.size > Megabyte
    \/ entry.kind = "news"
       /\ \/ entry.title \notin 5..500 \/ entry.link < 10
          \/ entry.arrows > 3 \/ entry.bangs > 5
          \/ entry.summary > 50000 \/ ~Within(entry.author, 0, 200)
          \/ entry.categories > 20 \/ ~Within(entry.image, 0, 500)
          \/ entry.urls >= 50 \/ entry.words > 200100
    \/ entry.kind = "price"
       /\ \/ entry.id \notin 1..100 \/ entry.symbol \notin 1..20
          \/ entry.name \notin 1..200
          \/ \E x \in {entry.change_1h, entry.change_24h,
                      entry.change_7d, entry.change_30d} : ~Within(x, -100, 1000)
          \/ \E x \in {entry.price, entry.rank} : x # None /\ x <= 0
          \/ \E x \in {entry.volume, entry.circulating} : x # None /\ x < 0
=============================================================================
