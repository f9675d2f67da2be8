---------------------------- MODULE MCPublishing ----------------------------
(* Five parts side by side, of which a behaviour runs one: two threads on a *)
(* publisher of one connection; the collectors of two processes; the        *)
(* entries the collectors look at; cycles of the on-chain collector; the    *)
(* worker that runs them.                                                   *)
(*                                                                          *)
(* Feeds: n0 cannot be normalised, r0 is refused by the schema, n1 has an   *)
(* id that depends on the seed of the process, which two processes may      *)
(* share; c0 does not move, c1 does, with an id that depends on the time of *)
(* the cycle, and c2 behind it cannot be normalised.                        *)
(*                                                                          *)
(* Chain: s1 swaps through P after a log without amounts in Q, z1 swaps     *)
(* without a stablecoin, m1 hides ether behind a small transfer, e1 and x1  *)
(* send ether to an exchange, e1 a stablecoin to P as well.                 *)
EXTENDS RabbitMQPublisher, Collectors, EventContent, OnChainCollector, OnChainWorker, TLC

CONSTANTS s1, z1, m1, e1, x1, P, Q

CONSTANTS n0, n1, r0, c0, c1, c2, t1, t2

MCJobs      == {"rssA", "rssB", "priceA"}
MCProcessOf == "rssA" :> "A" @@ "rssB" :> "B" @@ "priceA" :> "A"
MCKind      == "rssA" :> "rss" @@ "rssB" :> "rss" @@ "priceA" :> "price"
MCFeed      == "rssA" :> <<n0, r0, n1>> @@ "rssB" :> <<n0, n1>>
               @@ "priceA" :> <<c0, c1, c2>>
MCIdentity  == n0 :> "fixed" @@ r0 :> "fixed" @@ n1 :> "seeded"
               @@ c0 :> "clock" @@ c1 :> "clock" @@ c2 :> "clock"

\* One reading for every combination of the values at which the code decides,
\* and one for each other field with a value out of bounds.
Reading == [kind |-> "price", source |-> 9, size |-> 700, age |-> 0,
  symbols |-> 1, id |-> 7, symbol |-> 3, name |-> 7, price |-> 1000,
  ath |-> 1040, atl |-> 10, high |-> 1100, low |-> 900, change_1h |-> None,
  change_24h |-> 0, change_7d |-> 12, change_30d |-> None, rank |-> 10,
  volume |-> 60, cap |-> 100, circulating |-> 60, max_supply |-> None]
MCPriceEntries ==
  {[Reading EXCEPT !.ath = a, !.high = h, !.change_1h = d, !.change_24h = c,
                   !.rank = r, !.volume = v] :
     a \in {None, 1040, 1053}, h \in {900, 1100}, d \in {None, -4, 5},
     c \in {0, 7, -21, 1001}, r \in {None, 10}, v \in {None, 60}}
  \cup {[Reading EXCEPT !.change_7d = 1001], [Reading EXCEPT !.change_30d = -101],
        [Reading EXCEPT !.id = 0], [Reading EXCEPT !.name = 201],
        [Reading EXCEPT !.symbol = 21], [Reading EXCEPT !.price = 0],
        [Reading EXCEPT !.circulating = -1]}
Article == [kind |-> "news", source |-> 17, size |-> 900, age |-> 60,
  symbols |-> 0, title |-> 30, arrows |-> 3, bangs |-> 5, summary |-> 500,
  link |-> 30, author |-> None, categories |-> 1, image |-> None,
  words |-> 300, urls |-> 0, keywords |-> 20]
MCRssEntries ==
  {[Article EXCEPT !.age = g, !.symbols = n, !.summary = s, !.categories = k,
                   !.words = w, !.urls = u] :
     g \in {-301, 60}, n \in {0, 21}, s \in {0, 500, 2001}, k \in {1, 21},
     w \in {0, 300}, u \in {0, 50}}
  \cup {[Article EXCEPT !.title = 4, !.arrows = 0, !.bangs = 0],
        [Article EXCEPT !.arrows = 4], [Article EXCEPT !.bangs = 6],
        [Article EXCEPT !.size = 1048577], [Article EXCEPT !.author = 201],
        [Article EXCEPT !.words = 200101], [Article EXCEPT !.words = 200100]}

MCChain == << <<>>, <<s1>>, <<x1, z1, m1>>, <<e1>>, <<>> >>
Swap(p, v3, words) == [pool |-> p, v3 |-> v3, words |-> words]
MCSwapLogs ==
  s1 :> <<Swap(Q, FALSE, <<0, 0, 0, 0>>), Swap(P, FALSE, <<0, 5, 4, 0>>)>>
  @@ z1 :> <<Swap(Q, TRUE, <<5, 12>>)>> @@ m1 :> <<>> @@ e1 :> <<>> @@ x1 :> <<>>
Moved(token, ends, usd) == [token |-> token, ends |-> ends, usd |-> usd]
MCTransferLogs ==
  s1 :> <<Moved("DAI", {P}, 5), Moved("USDT", {"exchange"}, 5)>>
  @@ z1 :> <<Moved("DAI", {Q}, 8)>>
  @@ m1 :> <<Moved("USDT", {}, 1), Moved("DAI", {"exchange"}, 5)>>
  @@ e1 :> <<Moved("DAI", {P}, 8)>> @@ x1 :> <<>>
Sends(eth, exchange, logs) == [eth |-> eth, exchange |-> exchange, logs |-> logs]
MCEther ==
  s1 :> Sends(0, FALSE, {}) @@ z1 :> Sends(0, FALSE, {})
  @@ m1 :> Sends(2, TRUE, {2}) @@ e1 :> Sends(1, TRUE, {1, 2})
  @@ x1 :> Sends(3, TRUE, {})
MCPoolTokens == P :> <<"DAI", "PEPE">> @@ Q :> <<"WETH", "PEPE">>
MCStablecoins == <<"USDT", "DAI">>

VARIABLE part

FirstEntry == Reading
RestsPool    == pool = 0 /\ PoolInit
RestsCollect == seed = [p \in Processes |-> CHOOSE s \in Seeds : TRUE] /\ Init
RestsContent == entry = FirstEntry

RestsChain   == price = 1 /\ ChainInit
RestsWorker  == WorkerInit

PublishingInit ==
  \/ part = "pool" /\ PoolInit /\ RestsCollect /\ RestsContent /\ RestsChain /\ RestsWorker
  \/ part = "collect" /\ Init /\ RestsPool /\ RestsContent /\ RestsChain /\ RestsWorker
  \/ part = "content" /\ ContentInit /\ RestsPool /\ RestsCollect /\ RestsChain /\ RestsWorker
  \/ part = "chain" /\ ChainInit /\ RestsPool /\ RestsCollect /\ RestsContent /\ RestsWorker
  \/ part = "worker" /\ WorkerInit /\ RestsPool /\ RestsCollect /\ RestsContent /\ RestsChain

all == <<part, poolVars, vars, entry, chainVars, workerVars>>

PoolPart    == /\ part = "pool" /\ PoolNext
               /\ UNCHANGED <<part, vars, entry, chainVars, workerVars>>
CollectPart == /\ part = "collect" /\ Next
               /\ UNCHANGED <<part, poolVars, entry, chainVars, workerVars>>
ContentPart == /\ part = "content" /\ ContentNext
               /\ UNCHANGED <<part, poolVars, vars, chainVars, workerVars>>
ChainPart   == /\ part = "chain" /\ ChainNext
               /\ UNCHANGED <<part, poolVars, vars, entry, workerVars>>
WorkerPart  == /\ part = "worker" /\ WorkerNext
               /\ UNCHANGED <<part, poolVars, vars, entry, chainVars>>

\* The only ends: a worker told to stop, and the bound on the chain's cycles.
Ended ==
  /\ \/ part = "worker" /\ stage \in {"stopped", "exited"}
     \/ part = "chain" /\ cycle = MaxCycles /\ phase = "idle"
  /\ UNCHANGED all

PublishingNext ==
  PoolPart \/ CollectPart \/ ContentPart \/ ChainPart \/ WorkerPart \/ Ended

PublishingSpec ==
  /\ PublishingInit
  /\ [][PublishingNext]_all
  /\ \A j \in Jobs : WF_vars(part = "collect" /\ Step(j))
  /\ WF_workerVars(part = "worker" /\ Working)
  /\ SF_workerVars(part = "worker" /\ Shutdown)

\* EntriesArrive, in the part where the collectors run.
CollectedEntriesArrive == part = "collect" => EntriesArrive

\* TLC computes these tables once.
ASSUME
  /\ MCFeed = [j \in MCJobs |-> MCFeed[j]]
  /\ MCKind = [j \in MCJobs |-> MCKind[j]]
  /\ MCProcessOf = [j \in MCJobs |-> MCProcessOf[j]]
  /\ MCIdentity = [e \in DOMAIN MCIdentity |-> MCIdentity[e]]
  /\ MCSwapLogs = [t \in Txs |-> MCSwapLogs[t]]
  /\ MCTransferLogs = [t \in Txs |-> MCTransferLogs[t]]
  /\ MCEther = [t \in Txs |-> MCEther[t]]
=============================================================================
