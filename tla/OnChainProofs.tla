----------------------------- MODULE OnChainProofs -----------------------------
(***************************************************************************)
(* Proofs about the on-chain collector and the worker that runs it, for    *)
(* any chain, however the calls of the node fail and wherever the worker   *)
(* is restarted: a cycle tells a transaction once, loses none but to a     *)
(* small transfer of its own, and when no call failed misses nothing       *)
(* large; and the worker is soon back at a lost connection.                *)
(***************************************************************************)
EXTENDS OnChainCollector, OnChainWorker, FiniteSetTheorems, TLAPS

(* Places and what is found there.                                         *)

Place == Nat \X Nat \X Nat \X Nat
Current == top \in FirstHead..Len(Chain)

\* Places are in a total order.
LEMMA OrderIsTotal ==
  ASSUME NEW r \in Place, NEW s \in Place, r # s
  PROVE  Earlier(r, s) \/ Earlier(s, r)
<1>1. /\ r[1] \in Nat /\ r[2] \in Nat /\ r[3] \in Nat /\ r[4] \in Nat
      /\ s[1] \in Nat /\ s[2] \in Nat /\ s[3] \in Nat /\ s[4] \in Nat
  BY DEF Place
<1>2. r[1] # s[1] \/ r[2] # s[2] \/ r[3] # s[3] \/ r[4] # s[4]
  BY DEF Place
<1>3. \A a, b \in Place : \A i \in 1..4 :
        a[i] < b[i] /\ (\A j \in 1..(i - 1) : a[j] = b[j]) => Earlier(a, b)
  BY DEF Earlier
<1>4. \A i \in 1..4 : r[i] # s[i] /\ (\A j \in 1..(i - 1) : r[j] = s[j]) => Earlier(r, s) \/ Earlier(s, r)
  <2> TAKE i \in 1..4
  <2> HAVE r[i] # s[i] /\ (\A j \in 1..(i - 1) : r[j] = s[j])
  <2>1. r[i] \in Nat /\ s[i] \in Nat
    BY DEF Place
  <2>2. r[i] < s[i] \/ s[i] < r[i]
    BY <2>1
  <2>3. \A j \in 1..(i - 1) : s[j] = r[j]
    OBVIOUS
  <2> QED
    BY <2>2, <2>3, <1>3
<1>5. CASE r[1] # s[1]
  BY <1>4, <1>5
<1>6. CASE r[1] = s[1] /\ r[2] # s[2]
  BY <1>4, <1>6
<1>7. CASE r[1] = s[1] /\ r[2] = s[2] /\ r[3] # s[3]
  <2>1. \A j \in 1..(3 - 1) : r[j] = s[j]
    BY <1>7
  <2> QED
    BY <2>1, <1>4, <1>7
<1>8. CASE r[1] = s[1] /\ r[2] = s[2] /\ r[3] = s[3]
  <2>1. \A j \in 1..(4 - 1) : r[j] = s[j]
    BY <1>8
  <2> QED
    BY <2>1, <1>2, <1>4, <1>8
<1> QED
  BY <1>5, <1>6, <1>7, <1>8

\* The blocks that are looked at are on the chain and hold transactions.
LEMMA BlocksHoldTransactions ==
  ASSUME NEW b \in 1..Len(Chain)
  PROVE  /\ DOMAIN Chain[b] = 1..Len(Chain[b]) /\ Len(Chain[b]) \in Nat
         /\ \A i \in DOMAIN Chain[b] : Chain[b][i] \in Txs
  BY ChainAssumption

LEMMA WindowIsOnChain ==
  ASSUME Current
  PROVE  /\ Window \subseteq 1..Len(Chain)
         /\ \A spot \in Spots(Window) :
              /\ spot[1] \in Nat /\ spot[2] \in Nat /\ At(spot) \in Txs
              /\ spot = <<spot[1], spot[2]>>
<1>1. Window \subseteq 1..Len(Chain)
  BY ChainAssumption DEF Window, Current
<1>2. ASSUME NEW spot \in Spots(Window)
      PROVE  spot[1] \in Nat /\ spot[2] \in Nat /\ At(spot) \in Txs /\ spot = <<spot[1], spot[2]>>
  <2>0. PICK b \in Window : spot \in {<<b, i>> : i \in DOMAIN Chain[b]}
    BY DEF Spots
  <2>1. PICK i \in DOMAIN Chain[b] : spot = <<b, i>>
    BY <2>0
  <2> QED
    BY <1>1, <2>1, BlocksHoldTransactions DEF At
<1> QED
  BY <1>1, <1>2

\* The stories of each phase have a place, a transaction and, the swaps and the
\* transfers, a log.
LEMMA SwapStories ==
  ASSUME Current, NEW s \in SwapsSeen
  PROVE  s \in Place /\ TxOf(s) \in Txs /\ s[4] \in DOMAIN SwapLogs[TxOf(s)]
<1>1. PICK spot \in Spots(Window) : \E n \in DOMAIN SwapLogs[At(spot)] : s = <<0, spot[1], spot[2], n>>
  BY DEF SwapsSeen
<1>2. PICK n \in DOMAIN SwapLogs[At(spot)] : s = <<0, spot[1], spot[2], n>>
  BY <1>1
<1>3. TxOf(s) = At(spot) /\ At(spot) \in Txs /\ spot[1] \in Nat /\ spot[2] \in Nat
  BY <1>2, WindowIsOnChain DEF TxOf, At
<1>4. n \in Nat
  BY <1>2, <1>3, ChainAssumption
<1> QED
  BY <1>2, <1>3, <1>4 DEF Place

LEMMA TransferStories ==
  ASSUME Current, NEW s \in TransferWork
  PROVE  s \in Place /\ TxOf(s) \in Txs /\ s[4] \in DOMAIN TransferLogs[TxOf(s)]
<1>1. PICK c \in DOMAIN Stablecoins, spot \in Spots(Window) :
        \E n \in DOMAIN TransferLogs[At(spot)] : s = <<c, spot[1], spot[2], n>>
  BY DEF TransferWork
<1>2. PICK n \in DOMAIN TransferLogs[At(spot)] : s = <<c, spot[1], spot[2], n>>
  BY <1>1
<1>3. TxOf(s) = At(spot) /\ At(spot) \in Txs /\ spot[1] \in Nat /\ spot[2] \in Nat
  BY <1>2, WindowIsOnChain DEF TxOf, At
<1>4. n \in Nat
  BY <1>2, <1>3, ChainAssumption
<1>5. c \in Nat
  <2>1. Stablecoins \in Seq(Range(Stablecoins))
    BY ChainAssumption
  <2> QED
    BY <1>1, <2>1
<1> QED
  BY <1>2, <1>3, <1>4, <1>5 DEF Place

LEMMA ExchangeStories ==
  ASSUME Current, NEW s \in ExchangeWork
  PROVE  s \in Place /\ TxOf(s) \in Txs
<1>1. PICK spot \in Spots(Window) : \E x \in Ether[At(spot)].logs : s = <<x, spot[1], spot[2], 1>>
  BY DEF ExchangeWork
<1>2. PICK x \in Ether[At(spot)].logs : s = <<x, spot[1], spot[2], 1>>
  BY <1>1
<1>3. TxOf(s) = At(spot) /\ At(spot) \in Txs /\ spot[1] \in Nat /\ spot[2] \in Nat
  BY <1>2, WindowIsOnChain DEF TxOf, At
<1>4. x \in Nat
  BY <1>3, ChainAssumption
<1> QED
  BY <1>2, <1>3, <1>4 DEF Place

LEMMA ScanStories ==
  ASSUME Current, NEW s \in ScanWork
  PROVE  s \in Place /\ TxOf(s) \in Txs
<1>1. PICK o \in 1..(Depth + 1) : \E i \in DOMAIN Chain[top - o] : s = <<o, top - o, i, 1>>
  BY DEF ScanWork, Scanned
<1>2. PICK i \in DOMAIN Chain[top - o] : s = <<o, top - o, i, 1>>
  BY <1>1
<1>3. top - o \in 1..Len(Chain) /\ o \in Nat
  BY ChainAssumption DEF Current
<1>4. TxOf(s) \in Txs /\ i \in Nat
  BY <1>2, <1>3, BlocksHoldTransactions DEF TxOf
<1> QED
  BY <1>2, <1>3, <1>4 DEF Place

LEMMA StoriesOfWork ==
  ASSUME Current, NEW p \in Phases, NEW s \in Work(p)
  PROVE  s \in Place /\ TxOf(s) \in Txs
  BY SwapStories, TransferStories, ExchangeStories, ScanStories
  DEF Work, SwapWork, Phases

LEMMA ChainTypes ==
  /\ Depth \in Nat /\ MaxPools \in Nat /\ MaxPools > 0 /\ MaxCycles \in Nat /\ MaxRpcFaults \in Nat
  /\ FirstHead \in Nat /\ FirstHead <= Len(Chain) /\ Len(Chain) \in Nat
  /\ MinUsd \in Nat /\ MediumUsd \in Nat /\ HighUsd \in Nat /\ Prices \subseteq Nat
  BY ChainAssumption

\* What a phase has to look at does not change while top does not.
LEMMA WorkIsFixed ==
  ASSUME top' = top
  PROVE  \A p : Work(p)' = Work(p)
<1>1. Window' = Window
  BY DEF Window
<1>2. SwapsSeen' = SwapsSeen
  BY <1>1 DEF SwapsSeen
<1>3. SwapWork' = SwapWork
  BY <1>2 DEF SwapWork
<1>4. TransferWork' = TransferWork
  BY <1>1 DEF TransferWork
<1>5. ExchangeWork' = ExchangeWork
  BY <1>1 DEF ExchangeWork
<1>6. ScanWork' = ScanWork
  BY DEF ScanWork, Scanned
<1> QED
  BY <1>3, <1>4, <1>5, <1>6 DEF Work

LEMMA ElementOfSeq ==
  ASSUME NEW S, NEW q \in Seq(S), NEW i \in DOMAIN q
  PROVE  q[i] \in S
  OBVIOUS

LEMMA TransferIsTyped ==
  ASSUME Current, NEW s \in TransferWork
  PROVE  Transfer(s).usd \in Nat
<1>1. TxOf(s) \in Txs /\ s[4] \in DOMAIN TransferLogs[TxOf(s)]
  BY TransferStories
<1>2. TransferLogs[TxOf(s)] \in Seq([token : Range(Stablecoins), usd : Nat,
                                     ends : SUBSET (Pools \cup {"exchange"})])
  BY <1>1, ChainAssumption
<1>3. Transfer(s) \in [token : Range(Stablecoins), usd : Nat,
                       ends : SUBSET (Pools \cup {"exchange"})]
  BY <1>1, <1>2, ElementOfSeq DEF Transfer
<1> QED
  BY <1>3

-----------------------------------------------------------------------------
(* What log data and events are worth.                                     *)

\* However the words of a log are to be read, the amounts of a leg are positive.
LEMMA LegsArePositive ==
  ASSUME NEW log \in [pool : Pools, v3 : BOOLEAN, words : Seq(Nat)], NEW leg \in Legs(log)
  PROVE  leg.in \in Nat /\ leg.out \in Nat
<1>1. \A w \in Nat : Signed(w) \in Int
  BY ChainAssumption DEF Signed
<1> DEFINE w == log.words
           t == PoolTokens[log.pool]
           flow == IF log.v3
                   THEN IF Len(w) < 2 THEN <<0, 0, 0, 0>>
                        ELSE <<Signed(w[1]), Signed(w[2]), -Signed(w[1]), -Signed(w[2])>>
                   ELSE IF Len(w) < 4 THEN <<0, 0, 0, 0>> ELSE w
<1>2. flow[1] \in Int /\ flow[2] \in Int /\ flow[3] \in Int /\ flow[4] \in Int
  <2>0. w \in Seq(Nat)
    OBVIOUS
  <2>1. CASE log.v3 /\ Len(w) >= 2
    <3>1. w[1] \in Nat /\ w[2] \in Nat
      BY <2>0, <2>1
    <3>2. Signed(w[1]) \in Int /\ Signed(w[2]) \in Int
      BY <1>1, <3>1
    <3>3. ~(Len(w) < 2)
      BY <2>0, <2>1
    <3>4. flow = <<Signed(w[1]), Signed(w[2]), -Signed(w[1]), -Signed(w[2])>>
      BY <2>1, <3>3, Zenon
    <3> HIDE DEF flow
    <3> QED
      BY <3>2, <3>4
  <2>2. CASE ~log.v3 /\ Len(w) >= 4
    <3>1. flow = w
      BY <2>0, <2>2
    <3> HIDE DEF flow
    <3> QED
      BY <2>0, <2>2, <3>1
  <2>3. CASE (log.v3 /\ Len(w) < 2) \/ (~log.v3 /\ Len(w) < 4)
    <3>1. flow = <<0, 0, 0, 0>>
      BY <2>3, Zenon
    <3> HIDE DEF flow
    <3> QED
      BY <3>1
  <2> QED
    BY <2>0, <2>1, <2>2, <2>3
<1>3. \/ /\ flow[1] > 0 /\ flow[4] > 0
         /\ leg = [token_in |-> t[1], token_out |-> t[2], in |-> flow[1], out |-> flow[4]]
      \/ /\ flow[2] > 0 /\ flow[3] > 0
         /\ leg = [token_in |-> t[2], token_out |-> t[1], in |-> flow[2], out |-> flow[3]]
  <2>1. Legs(log) = CASE flow[1] > 0 /\ flow[4] > 0 ->
                           {[token_in |-> t[1], token_out |-> t[2], in |-> flow[1], out |-> flow[4]]}
                      [] ~(flow[1] > 0 /\ flow[4] > 0) /\ flow[2] > 0 /\ flow[3] > 0 ->
                           {[token_in |-> t[2], token_out |-> t[1], in |-> flow[2], out |-> flow[3]]}
                      [] OTHER -> {}
    BY Zenon DEF Legs
  <2> HIDE DEF flow
  <2> QED
    BY <2>1
<1> HIDE DEF flow
<1> QED
  BY <1>2, <1>3

\* What a swap is worth does not depend on the price of ether.
LEMMA SwapIsPricedByItsLegs ==
  ASSUME NEW leg
  PROVE  SwapUsd(leg) = CASE IsStablecoin(leg.token_in) -> leg.in
                          [] ~IsStablecoin(leg.token_in) /\ IsStablecoin(leg.token_out) -> leg.out
                          [] OTHER -> 0
  BY DEF SwapUsd, PriceViaWeth

\* So repricing ether in mid-cycle makes no swap worth telling or not.
LEMMA WorthIsFixed ==
  \A s : Worth(s)' = Worth(s)
<1>1. \A leg : SwapUsd(leg)' = SwapUsd(leg)
  BY DEF SwapUsd, PriceViaWeth
<1> QED
  BY <1>1 DEF Worth

LEMMA SwapsAreWorthTheMinimum ==
  ASSUME Current, NEW s \in SwapsSeen, NEW leg \in Worth(s)
  PROVE  SwapUsd(leg) \in Nat /\ SwapUsd(leg) >= MinUsd
<1>1. SwapLog(s) \in [pool : Pools, v3 : BOOLEAN, words : Seq(Nat)]
  <2>1. TxOf(s) \in Txs /\ s[4] \in DOMAIN SwapLogs[TxOf(s)]
    BY SwapStories
  <2>2. SwapLogs[TxOf(s)] \in Seq([pool : Pools, v3 : BOOLEAN, words : Seq(Nat)])
    BY <2>1, ChainAssumption
  <2> QED
    BY <2>1, <2>2, ElementOfSeq DEF SwapLog
<1>2. leg \in Legs(SwapLog(s)) /\ SwapUsd(leg) >= MinUsd
  BY DEF Worth
<1>3. leg.in \in Nat /\ leg.out \in Nat
  BY <1>1, <1>2, LegsArePositive
<1> QED
  BY <1>2, <1>3, SwapIsPricedByItsLegs

\* Whoever is worth the minimum has the lowest priority only if there is room below
\* the threshold of the next.
LEMMA PriorityOfTheLarge ==
  ASSUME NEW usd \in Nat, usd >= MinUsd, NEW exchange, NEW token
  PROVE  /\ Priority(usd, exchange, token) \in {"HIGH", "MEDIUM", "LOW"}
         /\ Priority(usd, exchange, token) = "LOW" => MinUsd < MediumUsd
<1> DEFINE scale == (IF exchange THEN 2 ELSE 1) * (IF token \in Boosted THEN 2 ELSE 1)
<1>1. scale \in {1, 2, 4}
  OBVIOUS
<1>2. usd * scale \in Nat /\ usd * scale >= usd
  <2> HIDE DEF scale
  <2>1. CASE scale = 1
    BY <2>1
  <2>2. CASE scale = 2
    BY <2>2
  <2>3. CASE scale = 4
    BY <2>3
  <2> QED
    BY <1>1, <2>1, <2>2, <2>3
<1>3. Priority(usd, exchange, token) =
        IF usd * scale >= HighUsd THEN "HIGH"
        ELSE IF usd * scale >= MediumUsd THEN "MEDIUM" ELSE "LOW"
  BY DEF Priority
<1> HIDE DEF scale
<1> QED
  BY <1>2, <1>3, ChainTypes

-----------------------------------------------------------------------------
(* Publishing.                                                             *)

\* What publish_event leaves behind for a story of t, with published its result.
EventOf(t, e) ==
  /\ e.tx = t /\ e.cycle = cycle
  /\ e.priority \in {"HIGH", "MEDIUM", "LOW"} /\ (e.priority = "LOW" => MinUsd < MediumUsd)
  /\ IdOfEvent(e).tx = t
Telling(t, published) ==
  /\ rpcFaults' \in rpcFaults..MaxRpcFaults
  /\ clean' \in BOOLEAN /\ (clean' => clean)
  /\ \/ /\ events' = events /\ dedup' = dedup /\ ~published
        /\ clean' => \E d \in dedup : d.tx = t
     \/ \E e : /\ EventOf(t, e) /\ events' = events \cup {e}
               /\ dedup' \in {dedup, dedup \cup {IdOfEvent(e)}}
               /\ ~published => rpcFaults' >= rpcFaults + 1

\* publish_event adds at most one event, and one it does not report only at the
\* price of a failed call; if no call failed, a story it does not add is one the
\* deduplication has seen.
LEMMA PublishOutcome ==
  ASSUME NEW kind, NEW t, NEW n, NEW stamp0, NEW p, NEW priority,
         priority \in {"HIGH", "MEDIUM", "LOW"}, priority = "LOW" => MinUsd < MediumUsd,
         NEW published \in BOOLEAN, rpcFaults \in 0..MaxRpcFaults,
         PublishChainEvent([kind |-> kind, tx |-> t, n |-> n, stamp |-> stamp0,
                            price |-> p, priority |-> priority, cycle |-> cycle], published)
  PROVE  Telling(t, published)
<1> DEFINE ev == [kind |-> kind, tx |-> t, n |-> n, stamp |-> stamp0,
                  price |-> p, priority |-> priority, cycle |-> cycle]
           e(stamp) == [ev EXCEPT !.stamp = stamp]
           cost(stamp, fails) == (IF stamp = "clock" THEN 1 ELSE 0) + (IF fails THEN 1 ELSE 0)
           dup(stamp) == stamp = "block" /\ IdOfEvent(e(stamp)) \in dedup
<1>1. PICK stamp \in Stamps, fails \in BOOLEAN :
        /\ rpcFaults' = rpcFaults + cost(stamp, fails) /\ rpcFaults' <= MaxRpcFaults
        /\ clean' = (clean /\ cost(stamp, fails) = 0)
        /\ published = (~dup(stamp) /\ ~fails)
        /\ dedup' = IF published THEN dedup \cup {IdOfEvent(e(stamp))} ELSE dedup
        /\ \/ events' = events \cup {e(stamp)} /\ ~dup(stamp)
           \/ events' = events /\ ~published
  BY DEF PublishChainEvent
<1>2. EventOf(t, e(stamp))
  BY DEF EventOf, IdOfEvent
<1>3. /\ cost(stamp, fails) \in Nat /\ (fails => cost(stamp, fails) >= 1)
      /\ (stamp # "block" \/ fails => cost(stamp, fails) # 0)
  BY <1>1 DEF Stamps
<1>4. rpcFaults' \in rpcFaults..MaxRpcFaults /\ (fails => rpcFaults' >= rpcFaults + 1)
  BY <1>1, <1>3, ChainTypes
<1>5. clean' \in BOOLEAN /\ (clean' => clean)
  BY <1>1, Zenon
<1>6. dedup' \in {dedup, dedup \cup {IdOfEvent(e(stamp))}} /\ (~published => dedup' = dedup)
  BY <1>1, Zenon
<1>7. CASE events' = events /\ ~published
  <2>1. clean' => dup(stamp)
    <3>1. clean' => ~fails
      BY <1>1, <1>3, Zenon
    <3> QED
      BY <1>1, <1>7, <3>1, Zenon
  <2>2. dup(stamp) => \E d \in dedup : d.tx = t
    BY <1>2 DEF EventOf
  <2> QED
    BY <1>4, <1>5, <1>6, <1>7, <2>1, <2>2, Zenon DEF Telling
<1>8. CASE events' = events \cup {e(stamp)} /\ ~dup(stamp)
  <2>1. ~published => fails
    BY <1>1, <1>8, Zenon
  <2> HIDE DEF e, cost, dup
  <2> QED
    BY <1>2, <1>4, <1>5, <1>6, <1>8, <2>1, Zenon DEF Telling
<1> QED
  BY <1>1, <1>7, <1>8, Zenon

-----------------------------------------------------------------------------
(* The types.                                                              *)

\* What the deduplication has seen was published.
DedupTold == \A d \in dedup : \E e \in events : e.tx = d.tx
ChainInv ==
  /\ ChainTypeOK /\ DedupTold
  /\ phase # "idle" => cycle >= 1

LEMMA TypesOfChain ==
  ASSUME ChainInv
  PROVE  /\ head \in FirstHead..Len(Chain) /\ top \in FirstHead..head /\ Current
         /\ phase \in Phases /\ todo \subseteq Work(phase)
         /\ marked \subseteq Txs /\ swapped \subseteq marked
         /\ price \in Nat /\ cycle \in Nat /\ (phase # "idle" => cycle >= 1)
         /\ rpcFaults \in 0..MaxRpcFaults
         /\ \A s \in todo : TxOf(s) \in Txs /\ s \in Place
<1>1. /\ head \in FirstHead..Len(Chain) /\ top \in FirstHead..head
      /\ phase \in Phases /\ todo \subseteq Work(phase)
      /\ marked \subseteq Txs /\ swapped \subseteq marked
      /\ price \in Prices /\ cycle \in 0..MaxCycles /\ (phase # "idle" => cycle >= 1)
      /\ rpcFaults \in 0..MaxRpcFaults
  BY DEF ChainInv, ChainTypeOK
<1>2. Current
  BY <1>1, ChainTypes DEF Current
<1>3. \A s \in todo : TxOf(s) \in Txs /\ s \in Place
  BY <1>1, <1>2, StoriesOfWork
<1> QED
  BY <1>1, <1>2, <1>3, ChainTypes

Handler(s) == \/ DropSwap(s) \/ TellSwap(s) \/ DropTransfer(s) \/ TellTransfer(s)
              \/ DropEther(s) \/ TellEther(s)

\* A handler takes one story of the phase and moves nothing else along.
LEMMA HandlersTakeOne ==
  ASSUME NEW s \in todo, Handler(s)
  PROVE  /\ Taken("swaps", s) \/ Taken("transfers", s) \/ Taken("exchanges", s) \/ Taken("scan", s)
         /\ phase # "idle" /\ todo' = todo \ {s}
         /\ head' = head /\ top' = top /\ phase' = phase /\ price' = price /\ cycle' = cycle
<1>1. Taken("swaps", s) \/ Taken("transfers", s) \/ Taken("exchanges", s) \/ Taken("scan", s)
  BY Zenon DEF Handler, DropSwap, TellSwap, DropTransfer, TellTransfer, DropEther, TellEther
<1> QED
  BY <1>1 DEF Taken

LEMMA TellSwapTells ==
  ASSUME ChainInv, NEW s \in todo, TellSwap(s)
  PROVE  /\ Taken("swaps", s) /\ TxOf(s) \notin marked /\ Found(SwapLog(s).pool)
         /\ \E published \in BOOLEAN :
              /\ Telling(TxOf(s), published)
              /\ marked' = IF published THEN marked \cup {TxOf(s)} ELSE marked
              /\ swapped' = IF published THEN swapped \cup {TxOf(s)} ELSE swapped
<1>1. PICK leg \in Worth(s), published \in BOOLEAN :
        /\ PublishChainEvent(SwapEvent(s, leg), published)
        /\ marked' = IF published THEN marked \cup {TxOf(s)} ELSE marked
        /\ swapped' = IF published THEN swapped \cup {TxOf(s)} ELSE swapped
  BY Zenon DEF TellSwap
<1>2. Taken("swaps", s) /\ TxOf(s) \notin marked /\ Found(SwapLog(s).pool)
  BY Zenon DEF TellSwap
<1>3. Current /\ s \in SwapsSeen /\ rpcFaults \in 0..MaxRpcFaults
  BY <1>2, TypesOfChain DEF Taken, Work, SwapWork
<1>4. SwapUsd(leg) \in Nat /\ SwapUsd(leg) >= MinUsd
  BY <1>1, <1>3, SwapsAreWorthTheMinimum
<1>5. /\ Priority(SwapUsd(leg), FALSE, leg.token_in) \in {"HIGH", "MEDIUM", "LOW"}
      /\ Priority(SwapUsd(leg), FALSE, leg.token_in) = "LOW" => MinUsd < MediumUsd
  BY <1>4, PriorityOfTheLarge
<1>6. Telling(TxOf(s), published)
  BY <1>1, <1>3, <1>5, PublishOutcome, Zenon DEF SwapEvent
<1> QED
  BY <1>1, <1>2, <1>6, Zenon

LEMMA TellTransferTells ==
  ASSUME ChainInv, NEW s \in todo, TellTransfer(s)
  PROVE  /\ Taken("transfers", s) /\ TxOf(s) \notin marked
         /\ \E published \in BOOLEAN : Telling(TxOf(s), published)
         /\ marked' = marked \cup {TxOf(s)} /\ UNCHANGED <<swapped, pools, cooling>>
<1>1. /\ Taken("transfers", s) /\ TxOf(s) \notin marked /\ Transfer(s).usd >= MinUsd
      /\ marked' = marked \cup {TxOf(s)} /\ UNCHANGED <<swapped, pools, cooling>>
  BY DEF TellTransfer, PassTransfer
<1>2. Current /\ s \in TransferWork /\ rpcFaults \in 0..MaxRpcFaults
  BY <1>1, TypesOfChain DEF Taken, Work
<1>3. Transfer(s).usd \in Nat
  BY <1>2, TransferIsTyped
<1> DEFINE exchange == "exchange" \in Transfer(s).ends
<1>4. PICK published \in BOOLEAN :
        PublishChainEvent(TransferEvent(s, Transfer(s).usd, exchange, Transfer(s).token), published)
  BY Zenon DEF TellTransfer
<1>5. /\ Priority(Transfer(s).usd, exchange, Transfer(s).token) \in {"HIGH", "MEDIUM", "LOW"}
      /\ Priority(Transfer(s).usd, exchange, Transfer(s).token) = "LOW" => MinUsd < MediumUsd
  BY <1>1, <1>3, PriorityOfTheLarge
<1>6. Telling(TxOf(s), published)
  BY <1>2, <1>4, <1>5, PublishOutcome, Zenon DEF TransferEvent
<1> QED
  BY <1>1, <1>6, Zenon

LEMMA TellEtherTells ==
  ASSUME ChainInv, NEW s \in todo, TellEther(s)
  PROVE  /\ Taken("exchanges", s) \/ Taken("scan", s)
         /\ TxOf(s) \notin marked
         /\ \E published \in BOOLEAN :
              /\ Telling(TxOf(s), published)
              /\ marked' = IF published THEN marked \cup {TxOf(s)} ELSE marked
         /\ UNCHANGED <<swapped, pools, cooling>>
<1>1. /\ Taken("exchanges", s) \/ Taken("scan", s)
      /\ TxOf(s) \notin marked /\ EtherUsd(TxOf(s)) >= MinUsd
      /\ UNCHANGED <<swapped, pools, cooling>>
  BY DEF TellEther, EtherCounts
<1>2. TxOf(s) \in Txs /\ price \in Nat /\ rpcFaults \in 0..MaxRpcFaults
  BY TypesOfChain
<1>3. EtherUsd(TxOf(s)) \in Nat
  <2>1. Ether[TxOf(s)].eth \in Nat
    BY <1>2, ChainAssumption
  <2> QED
    BY <1>2, <2>1 DEF EtherUsd
<1> DEFINE usd == EtherUsd(TxOf(s))
           exchange == Ether[TxOf(s)].exchange
<1>4. PICK published \in BOOLEAN :
        /\ PublishChainEvent(TransferEvent(s, usd, exchange, "ETH"), published)
        /\ marked' = IF published THEN marked \cup {TxOf(s)} ELSE marked
  BY Zenon DEF TellEther
<1>5. /\ Priority(usd, exchange, "ETH") \in {"HIGH", "MEDIUM", "LOW"}
      /\ Priority(usd, exchange, "ETH") = "LOW" => MinUsd < MediumUsd
  BY <1>1, <1>3, PriorityOfTheLarge
<1>6. Telling(TxOf(s), published)
  BY <1>2, <1>4, <1>5, PublishOutcome, Zenon DEF TransferEvent
<1> QED
  BY <1>1, <1>4, <1>6, Zenon

\* pool_tokens_cache holds no pool twice and none that is cooling, or a lookup
\* could grow it over its limit.
PoolsOK ==
  /\ pools \in Seq(Pools) /\ Len(pools) <= MaxPools /\ IsInjective(pools)
  /\ cooling \subseteq Pools \ Range(pools)

LEMMA FoundKeepsPools ==
  ASSUME PoolsOK, NEW p \in Pools, Found(p)  PROVE  PoolsOK'
<1>1. /\ pools \in Seq(Pools) /\ Len(pools) <= MaxPools
      /\ \A i, j \in 1..Len(pools) : pools[i] = pools[j] => i = j
      /\ cooling \subseteq Pools \ Range(pools)
  BY DEF PoolsOK, IsInjective
<1>2. \A q : q \in Range(pools) <=> \E i \in 1..Len(pools) : pools[i] = q
  BY <1>1 DEF Range
<1>3. Len(pools) \in Nat /\ cooling' = cooling /\ (Known(p) \/ p \notin cooling)
  <2>1. Len(pools) \in Nat
    BY <1>1
  <2>2. cooling' = cooling /\ (Known(p) \/ p \notin cooling)
    BY Zenon DEF Found
  <2> QED
    BY <2>1, <2>2
<1>4. CASE Known(p)
  BY <1>4 DEF Found, PoolsOK
<1>5. CASE ~Known(p)
  <2> DEFINE more == Append(pools, p)
  <2>1. /\ more \in Seq(Pools) /\ Len(more) = Len(pools) + 1
        /\ \A i \in 1..Len(more) : more[i] = IF i <= Len(pools) THEN pools[i] ELSE p
    BY <1>1
  <2>2. \A i, j \in 1..Len(more) : more[i] = more[j] => i = j
    <3> HIDE DEF more
    <3> QED
      BY <1>1, <1>2, <1>3, <1>5, <2>1 DEF Known
  <2>3. \A i \in 1..Len(more) : more[i] \notin cooling
    <3> HIDE DEF more
    <3> QED
      BY <1>1, <1>2, <1>3, <1>5, <2>1
  <2>4. CASE Len(pools) < MaxPools
    <3>1. pools' = more
      BY <1>5, <2>4, Zenon DEF Found
    <3> HIDE DEF more
    <3>2. Len(more) <= MaxPools
      BY <1>3, <2>1, <2>4, ChainTypes
    <3>3. IsInjective(more)
      BY <2>1, <2>2 DEF IsInjective
    <3>4. cooling \subseteq Pools \ Range(more)
      BY <1>1, <2>1, <2>3 DEF Range
    <3> QED
      BY <1>3, <2>1, <3>1, <3>2, <3>3, <3>4 DEF PoolsOK
  <2>5. CASE ~(Len(pools) < MaxPools)
    <3>1. pools' = Tail(more)
      BY <1>5, <2>5, Zenon DEF Found
    <3> DEFINE rest == Tail(more)
    <3>2. /\ rest \in Seq(Pools) /\ Len(rest) = Len(pools)
          /\ \A i \in 1..Len(rest) : rest[i] = more[i + 1]
      <4> HIDE DEF more
      <4> QED
        BY <1>3, <2>1
    <3> HIDE DEF more, rest
    <3>3. \A i \in 1..Len(rest) : i + 1 \in 1..Len(more)
      BY <1>3, <2>1, <3>2
    <3>4. IsInjective(rest)
      <4>1. \A i, j \in 1..Len(rest) : rest[i] = rest[j] => i = j
        BY <1>3, <2>2, <3>2, <3>3
      <4> QED
        BY <3>2, <4>1 DEF IsInjective
    <3>5. cooling \subseteq Pools \ Range(rest)
      <4>1. \A i \in 1..Len(rest) : rest[i] \notin cooling
        BY <2>3, <3>2, <3>3
      <4> QED
        BY <1>1, <3>2, <4>1 DEF Range
    <3>6. pools' = rest /\ Len(rest) <= MaxPools
      BY <1>1, <3>1, <3>2 DEF rest
    <3> QED
      BY <1>3, <3>2, <3>4, <3>5, <3>6 DEF PoolsOK
  <2> QED
    BY <2>4, <2>5
<1> QED
  BY <1>4, <1>5

LEMMA NotFoundKeepsPools ==
  ASSUME PoolsOK, NEW p \in Pools, NotFound(p)  PROVE  PoolsOK'
<1>1. p \notin Range(pools) /\ pools' = pools /\ cooling' = cooling \cup {p}
  BY DEF NotFound, Known
<1> QED
  BY <1>1 DEF PoolsOK

LEMMA SwapsNameAPool ==
  ASSUME ChainInv, NEW s \in todo, phase = "swaps"
  PROVE  SwapLog(s).pool \in Pools
<1>1. TxOf(s) \in Txs /\ s[4] \in DOMAIN SwapLogs[TxOf(s)]
  BY TypesOfChain, SwapStories DEF Work, SwapWork
<1>2. SwapLogs[TxOf(s)] \in Seq([pool : Pools, v3 : BOOLEAN, words : Seq(Nat)])
  BY <1>1, ChainAssumption
<1>3. SwapLog(s) \in [pool : Pools, v3 : BOOLEAN, words : Seq(Nat)]
  BY <1>1, <1>2, ElementOfSeq DEF SwapLog
<1> QED
  BY <1>3

LEMMA StepsKeepPools ==
  ASSUME ChainInv, [ChainNext]_chainVars  PROVE  PoolsOK'
<1>0. PoolsOK
  BY DEF ChainInv, ChainTypeOK, PoolsOK
<1>1. CASE UNCHANGED <<pools, cooling>>
  BY <1>0, <1>1 DEF PoolsOK
<1>2. CASE \E p \in Pools : CoolDown(p)
  BY <1>0, <1>2 DEF PoolsOK, CoolDown
<1>3. CASE Crash
  <2>1. pools' = <<>> /\ cooling' = {}
    BY <1>3 DEF Crash
  <2>2. <<>> \in Seq(Pools) /\ Len(<<>>) = 0 /\ IsInjective(<<>>)
    BY DEF IsInjective
  <2> QED
    BY <2>1, <2>2, ChainTypes DEF PoolsOK
<1>4. ASSUME NEW s \in todo, DropSwap(s) \/ TellSwap(s)  PROVE PoolsOK'
  <2>1. NotFound(SwapLog(s).pool) \/ Found(SwapLog(s).pool)
    BY <1>4, Zenon DEF DropSwap, TellSwap
  <2>2. phase = "swaps"
    BY <1>4 DEF DropSwap, TellSwap, Taken
  <2> QED
    BY <1>0, <2>1, <2>2, SwapsNameAPool, FoundKeepsPools, NotFoundKeepsPools
<1>5. ASSUME NEW s \in todo, DropTransfer(s) \/ TellTransfer(s) \/ DropEther(s) \/ TellEther(s)
      PROVE  UNCHANGED <<pools, cooling>>
  BY <1>5 DEF DropTransfer, TellTransfer, DropEther, TellEther
<1>6. Mine \/ Begin \/ NextPhase \/ Reprice \/ UNCHANGED chainVars => UNCHANGED <<pools, cooling>>
  BY DEF Mine, Begin, NextPhase, Reprice, chainVars
<1> QED
  BY <1>1, <1>2, <1>3, <1>4, <1>5, <1>6 DEF ChainNext

\* Everything a handler may do to the events, the marks and the count of faults.
HandlerOutcome(s) ==
  /\ marked \subseteq marked' /\ marked' \subseteq marked \cup {TxOf(s)}
  /\ swapped' \subseteq marked'
  /\ rpcFaults' \in rpcFaults..MaxRpcFaults
  /\ clean' \in BOOLEAN /\ (clean' => clean)
  /\ \/ events' = events /\ dedup' = dedup
     \/ TxOf(s) \notin marked /\ \E published \in BOOLEAN :
          Telling(TxOf(s), published) /\ (published => TxOf(s) \in marked')

LEMMA FaultsCount ==
  ASSUME ChainInv, RpcFault \/ NoFault \/ (clean' = FALSE /\ rpcFaults' = rpcFaults)
  PROVE  rpcFaults' \in rpcFaults..MaxRpcFaults /\ clean' \in BOOLEAN /\ (clean' => clean)
<1>1. rpcFaults \in 0..MaxRpcFaults
  BY TypesOfChain
<1>2. clean \in BOOLEAN
  BY DEF ChainInv, ChainTypeOK
<1>3. NoFault => rpcFaults' = rpcFaults /\ clean' = clean
  BY DEF NoFault
<1>4. RpcFault => rpcFaults < MaxRpcFaults /\ rpcFaults' = rpcFaults + 1 /\ clean' = FALSE
  BY DEF RpcFault
<1>5. rpcFaults' = rpcFaults \/ (rpcFaults < MaxRpcFaults /\ rpcFaults' = rpcFaults + 1)
  BY <1>3, <1>4, Zenon
<1>6. rpcFaults' \in rpcFaults..MaxRpcFaults
  BY <1>1, <1>5, ChainTypes
<1>7. clean' \in BOOLEAN /\ (clean' => clean)
  <2>1. CASE clean' = clean
    BY <1>2, <2>1, SMT
  <2>2. CASE clean' = FALSE
    BY <2>2, Zenon
  <2> QED
    BY <1>3, <1>4, <2>1, <2>2, Zenon
<1> QED
  BY <1>6, <1>7

LEMMA TellingOutcome ==
  ASSUME NEW t, NEW published \in BOOLEAN, Telling(t, published)
  PROVE  rpcFaults' \in rpcFaults..MaxRpcFaults /\ clean' \in BOOLEAN /\ (clean' => clean)
  BY Zenon DEF Telling

LEMMA HandlersHaveOutcome ==
  ASSUME ChainInv, NEW s \in todo, Handler(s)
  PROVE  HandlerOutcome(s)
<1>0. swapped \subseteq marked
  BY TypesOfChain
<1>1. CASE DropSwap(s)
  <2>1. events' = events /\ dedup' = dedup /\ marked' = marked /\ swapped' = swapped
    BY <1>1 DEF DropSwap, NotPublished
  <2>2. RpcFault \/ NoFault \/ (clean' = FALSE /\ rpcFaults' = rpcFaults)
    BY <1>1 DEF DropSwap, NotFound
  <2>3. rpcFaults' \in rpcFaults..MaxRpcFaults /\ clean' \in BOOLEAN /\ (clean' => clean)
    BY <2>2, FaultsCount, Zenon
  <2> QED
    BY <1>0, <2>1, <2>3, Zenon DEF HandlerOutcome
<1>2. CASE TellSwap(s)
  <2>1. PICK published \in BOOLEAN :
          /\ Telling(TxOf(s), published)
          /\ marked' = IF published THEN marked \cup {TxOf(s)} ELSE marked
          /\ swapped' = IF published THEN swapped \cup {TxOf(s)} ELSE swapped
    BY <1>2, TellSwapTells, Zenon
  <2>2. /\ marked \subseteq marked' /\ marked' \subseteq marked \cup {TxOf(s)}
        /\ swapped' \subseteq marked' /\ (published => TxOf(s) \in marked')
    BY <1>0, <2>1
  <2>3. TxOf(s) \notin marked
    BY <1>2, TellSwapTells, Zenon
  <2> QED
    BY <2>1, <2>2, <2>3, TellingOutcome, Zenon DEF HandlerOutcome
<1>3. CASE DropTransfer(s)
  <2>1. /\ events' = events /\ dedup' = dedup /\ swapped' = swapped
        /\ marked \subseteq marked' /\ marked' \subseteq marked \cup {TxOf(s)}
    BY <1>3 DEF DropTransfer, NotPublished
  <2>2. NoFault
    BY <1>3, Zenon DEF DropTransfer
  <2>3. swapped' \subseteq marked'
    BY <1>0, <2>1
  <2> QED
    BY <2>1, <2>2, <2>3, FaultsCount, Zenon DEF HandlerOutcome
<1>4. CASE TellTransfer(s)
  <2>1. /\ \E published \in BOOLEAN : Telling(TxOf(s), published)
        /\ TxOf(s) \notin marked
        /\ marked' = marked \cup {TxOf(s)} /\ swapped' = swapped
    BY <1>4, TellTransferTells, Zenon
  <2>2. /\ marked \subseteq marked' /\ marked' \subseteq marked \cup {TxOf(s)}
        /\ swapped' \subseteq marked' /\ TxOf(s) \in marked'
    BY <1>0, <2>1
  <2> QED
    BY <2>1, <2>2, TellingOutcome, Zenon DEF HandlerOutcome
<1>5. CASE DropEther(s)
  <2>1. events' = events /\ dedup' = dedup /\ marked' = marked /\ swapped' = swapped
    BY <1>5 DEF DropEther, NotPublished
  <2>2. RpcFault \/ NoFault
    BY <1>5, Zenon DEF DropEther
  <2> QED
    BY <1>0, <2>1, <2>2, FaultsCount, Zenon DEF HandlerOutcome
<1>6. CASE TellEther(s)
  <2>1. PICK published \in BOOLEAN :
          /\ Telling(TxOf(s), published)
          /\ marked' = IF published THEN marked \cup {TxOf(s)} ELSE marked
    BY <1>6, TellEtherTells, Zenon
  <2>2. swapped' = swapped /\ TxOf(s) \notin marked
    BY <1>6, TellEtherTells, Zenon
  <2>3. /\ marked \subseteq marked' /\ marked' \subseteq marked \cup {TxOf(s)}
        /\ swapped' \subseteq marked' /\ (published => TxOf(s) \in marked')
    BY <1>0, <2>1, <2>2
  <2> QED
    BY <2>1, <2>2, <2>3, TellingOutcome, Zenon DEF HandlerOutcome
<1> QED
  BY <1>1, <1>2, <1>3, <1>4, <1>5, <1>6, Zenon DEF Handler

EventsOK ==
  /\ \A e \in events : /\ e.tx \in Txs /\ e.cycle \in 1..cycle
                       /\ e.priority \in {"HIGH", "MEDIUM", "LOW"}
                       /\ e.priority = "LOW" => MinUsd < MediumUsd
  /\ dedup \subseteq {IdOfEvent(e) : e \in events}
  /\ DedupTold
  /\ cycle \in 0..MaxCycles /\ (phase # "idle" => cycle >= 1)

LEMMA StepsKeepEvents ==
  ASSUME ChainInv, [ChainNext]_chainVars  PROVE  EventsOK'
<1>0. EventsOK
  BY DEF ChainInv, ChainTypeOK, EventsOK
<1>1. CASE UNCHANGED <<events, dedup, cycle>> /\ (phase' # "idle" => phase # "idle")
  BY <1>0, <1>1 DEF EventsOK, DedupTold
<1>2. CASE Begin
  <2>1. events' = events /\ dedup' = dedup /\ cycle' = cycle + 1 /\ cycle < MaxCycles
    BY <1>2 DEF Begin
  <2> QED
    BY <1>0, <2>1, ChainTypes DEF EventsOK, DedupTold
<1>3. ASSUME NEW s \in todo, Handler(s)  PROVE EventsOK'
  <2>1. phase' = phase /\ cycle' = cycle /\ cycle >= 1 /\ TxOf(s) \in Txs
    BY <1>3, HandlersTakeOne, TypesOfChain
  <2>2. CASE events' = events /\ dedup' = dedup
    BY <1>0, <2>1, <2>2 DEF EventsOK, DedupTold
  <2>3. ASSUME NEW e, EventOf(TxOf(s), e), events' = events \cup {e},
               dedup' \in {dedup, dedup \cup {IdOfEvent(e)}}
        PROVE  EventsOK'
    <3>1. \A d \in events' : /\ d.tx \in Txs /\ d.cycle \in 1..cycle
                             /\ d.priority \in {"HIGH", "MEDIUM", "LOW"}
                             /\ d.priority = "LOW" => MinUsd < MediumUsd
      <4>1. cycle \in 1..cycle
        BY <1>0, <2>1 DEF EventsOK
      <4> QED
        BY <1>0, <2>1, <2>3, <4>1 DEF EventsOK, EventOf
    <3>2. dedup' \subseteq {IdOfEvent(d) : d \in events'}
      BY <1>0, <2>3 DEF EventsOK
    <3>3. DedupTold'
      BY <1>0, <2>3 DEF EventsOK, DedupTold, EventOf
    <3> QED
      BY <1>0, <2>1, <3>1, <3>2, <3>3 DEF EventsOK
  <2>4. \/ events' = events /\ dedup' = dedup
        \/ \E e : /\ EventOf(TxOf(s), e) /\ events' = events \cup {e}
                  /\ dedup' \in {dedup, dedup \cup {IdOfEvent(e)}}
    BY <1>3, HandlersHaveOutcome, Zenon DEF HandlerOutcome, Telling
  <2> QED
    BY <2>2, <2>3, <2>4, Zenon
<1>4. Mine \/ NextPhase \/ Reprice \/ Crash \/ (\E p \in Pools : CoolDown(p)) \/ UNCHANGED chainVars =>
        UNCHANGED <<events, dedup, cycle>> /\ (phase' # "idle" => phase # "idle")
  BY DEF Mine, NextPhase, Reprice, Crash, CoolDown, chainVars
<1> QED
  BY <1>1, <1>2, <1>3, <1>4, Zenon DEF ChainNext, Handler

RestOK ==
  /\ head \in FirstHead..Len(Chain) /\ top \in FirstHead..head
  /\ marked \subseteq Txs /\ swapped \subseteq marked
  /\ price \in Prices /\ clean \in BOOLEAN /\ rpcFaults \in 0..MaxRpcFaults

LEMMA StepsKeepRest ==
  ASSUME ChainInv, [ChainNext]_chainVars  PROVE  RestOK'
<1>0. RestOK
  BY DEF ChainInv, ChainTypeOK, RestOK
<1>1. head' \in FirstHead..Len(Chain) /\ top' \in FirstHead..head'
  <2>1. ASSUME NEW s \in todo, Handler(s)  PROVE UNCHANGED <<head, top>>
    BY <2>1, HandlersTakeOne
  <2>2. \/ UNCHANGED <<head, top>>
        \/ head' = head /\ top' = head
        \/ head < Len(Chain) /\ head' = head + 1 /\ top' = top
    BY <2>1 DEF ChainNext, Handler, Mine, CoolDown, Begin, NextPhase, Reprice, Crash, chainVars
  <2> QED
    BY <1>0, <2>2, ChainTypes DEF RestOK
<1>2. marked' \subseteq Txs /\ swapped' \subseteq marked'
  <2>1. ASSUME NEW s \in todo, Handler(s)  PROVE marked' \subseteq Txs /\ swapped' \subseteq marked'
    BY <1>0, <2>1, HandlersHaveOutcome, TypesOfChain DEF HandlerOutcome, RestOK
  <2>2. \/ UNCHANGED <<marked, swapped>>
        \/ marked' = {} /\ swapped' = {}
        \/ marked' \subseteq Txs /\ swapped' \subseteq marked'
    BY <2>1 DEF ChainNext, Handler, Mine, CoolDown, Begin, NextPhase, Reprice, Crash, chainVars
  <2> QED
    BY <1>0, <2>2 DEF RestOK
<1>3. price' \in Prices
  <2>1. ASSUME NEW s \in todo, Handler(s)  PROVE price' = price
    BY <2>1, HandlersTakeOne
  <2>2. price' = price \/ price' \in Prices
    BY <2>1 DEF ChainNext, Handler, Mine, CoolDown, Begin, NextPhase, Reprice, Crash, chainVars
  <2> QED
    BY <1>0, <2>2 DEF RestOK
<1>4. clean' \in BOOLEAN /\ rpcFaults' \in 0..MaxRpcFaults
  <2>1. ASSUME NEW s \in todo, Handler(s)
        PROVE  clean' \in BOOLEAN /\ rpcFaults' \in rpcFaults..MaxRpcFaults
    BY <2>1, HandlersHaveOutcome, Zenon DEF HandlerOutcome
  <2>2. Mine \/ (\E p \in Pools : CoolDown(p)) \/ Reprice \/ UNCHANGED chainVars => NoFault
    BY DEF Mine, CoolDown, Reprice, chainVars, NoFault
  <2>3. Begin => RpcFault \/ (clean' = TRUE /\ rpcFaults' = rpcFaults)
    BY DEF Begin
  <2>4. NextPhase \/ Crash => RpcFault \/ NoFault
    BY Zenon DEF NextPhase, Crash
  <2>5. RpcFault \/ NoFault => clean' \in BOOLEAN /\ rpcFaults' \in rpcFaults..MaxRpcFaults
    BY FaultsCount, Zenon
  <2>6. clean' = TRUE /\ rpcFaults' = rpcFaults =>
          clean' \in BOOLEAN /\ rpcFaults' \in rpcFaults..MaxRpcFaults
    <3>1. rpcFaults \in rpcFaults..MaxRpcFaults
      BY <1>0, ChainTypes DEF RestOK
    <3> QED
      BY <3>1, Zenon
  <2>7. clean' \in BOOLEAN /\ rpcFaults' \in rpcFaults..MaxRpcFaults
    BY <2>1, <2>2, <2>3, <2>4, <2>5, <2>6, Zenon DEF ChainNext, Handler
  <2>8. rpcFaults' \in rpcFaults..MaxRpcFaults => rpcFaults' \in 0..MaxRpcFaults
    BY <1>0, ChainTypes DEF RestOK
  <2> QED
    BY <2>7, <2>8, Zenon
<1> QED
  BY <1>1, <1>2, <1>3, <1>4, Zenon DEF RestOK

\* What is left to do is part of the work of the phase.
StoriesOK == phase \in Phases /\ todo \subseteq Work(phase)

LEMMA StepsKeepStories ==
  ASSUME ChainInv, [ChainNext]_chainVars  PROVE  StoriesOK'
<1>0. phase \in Phases /\ todo \subseteq Work(phase)
  BY TypesOfChain
<1>1. Following \in [Phases \ {"idle"} -> Phases]
  BY DEF Following, Phases
<1>2. \A p : p = "idle" => Work(p) = {} /\ Work(p)' = {}
  BY DEF Work
<1>3. CASE Begin
  <2>1. phase' \in Phases
    BY <1>3 DEF Begin, Phases
  <2>2. todo' = {} \/ (phase' = "swaps" /\ todo' = SwapWork')
    BY <1>3 DEF Begin
  <2>3. (phase = "swaps" => Work(phase) = SwapWork)'
    BY DEF Work
  <2> QED
    BY <2>1, <2>2, <2>3 DEF StoriesOK
<1>4. CASE NextPhase
  <2>1. phase' = Following[phase] /\ phase # "idle" /\ top' = top
    BY <1>4 DEF NextPhase
  <2>2. phase' \in Phases
    BY <1>0, <1>1, <2>1
  <2>3. todo' \subseteq Work(phase')
    BY <1>4 DEF NextPhase
  <2>4. Work(phase)' = Work(phase')
    BY <2>1, WorkIsFixed
  <2> QED
    BY <2>2, <2>3, <2>4 DEF StoriesOK
<1>5. CASE Crash
  BY <1>5 DEF Crash, StoriesOK, Phases
<1>6. CASE top' = top /\ phase' = phase /\ todo' \subseteq todo
  <2>1. Work(phase)' = Work(phase)
    BY <1>6, WorkIsFixed
  <2> QED
    BY <1>0, <1>6, <2>1 DEF StoriesOK
<1>7. ASSUME NEW s \in todo, Handler(s)  PROVE top' = top /\ phase' = phase /\ todo' \subseteq todo
  BY <1>7, HandlersTakeOne
<1>8. Mine \/ (\E p \in Pools : CoolDown(p)) \/ Reprice \/ UNCHANGED chainVars =>
        top' = top /\ phase' = phase /\ todo' \subseteq todo
  BY DEF Mine, CoolDown, Reprice, chainVars
<1> QED
  BY <1>3, <1>4, <1>5, <1>6, <1>7, <1>8, Zenon DEF ChainNext, Handler

LEMMA ChainInvIsKept ==
  ASSUME ChainInv, [ChainNext]_chainVars  PROVE  ChainInv'
<1>1. PoolsOK' /\ EventsOK' /\ RestOK' /\ StoriesOK'
  BY StepsKeepPools, StepsKeepEvents, StepsKeepRest, StepsKeepStories
<1> QED
  BY <1>1, Zenon DEF ChainInv, ChainTypeOK, PoolsOK, EventsOK, RestOK, StoriesOK

LEMMA ChainInvInitially ==
  ASSUME ChainInit  PROVE  ChainInv
<1>1. /\ head \in FirstHead..Len(Chain) /\ top \in FirstHead..head /\ cycle \in 0..MaxCycles
      /\ rpcFaults \in 0..MaxRpcFaults
  BY ChainTypes DEF ChainInit
<1>2. /\ pools \in Seq(Pools) /\ Len(pools) <= MaxPools /\ IsInjective(pools)
      /\ cooling \subseteq Pools \ Range(pools)
  BY ChainTypes DEF ChainInit, IsInjective
<1>3. /\ phase \in Phases /\ todo \subseteq Work(phase) /\ price \in Prices
      /\ marked \subseteq Txs /\ swapped \subseteq marked /\ events = {} /\ dedup = {}
      /\ phase = "idle"
  BY DEF ChainInit, Phases
<1>4. clean \in BOOLEAN
  BY DEF ChainInit
<1>5. DedupTold /\ dedup \subseteq {IdOfEvent(e) : e \in events}
  BY <1>3 DEF DedupTold
<1> QED
  BY <1>1, <1>2, <1>3, <1>4, <1>5 DEF ChainInv, ChainTypeOK

\* Types, and what the deduplication says of the events, are kept by every step.
THEOREM ChainInvHolds == ChainSpec => []ChainInv
  BY ChainInvInitially, ChainInvIsKept, PTL DEF ChainSpec

\* ChainTypeOK: the types of a cycle's state; the cache of pools within its limit
\* and without a pool twice, no cached pool cooling, a LOW event only where the
\* configured minimum is below the threshold of MEDIUM.
THEOREM ChainTypesHold == ChainSpec => []ChainTypeOK
<1>1. ChainInv => ChainTypeOK
  BY DEF ChainInv
<1> QED
  BY <1>1, ChainInvHolds, PTL

-----------------------------------------------------------------------------
(* One event in a cycle.                                                   *)

Of(t, c) == {e \in events : e.tx = t /\ e.cycle = c}

\* OneEventPerCycle alone is not kept by a step: what allows a handler to tell
\* a transaction is that it is not marked, so an unmarked transaction must have
\* no event in this cycle but those that failed publications left behind.
CountInv ==
  /\ IsFiniteSet(events) /\ rpcFaults \in Nat /\ cycle \in Nat
  /\ \A e \in events : e.cycle \in 1..cycle
  /\ phase # "idle" => cycle >= 1
  /\ \A t \in Txs, c \in Nat : Cardinality(Of(t, c)) <= 1 + rpcFaults
  /\ \A t \in Txs : t \notin marked => Cardinality(Of(t, cycle)) <= rpcFaults

\* A handler that tells an unmarked transaction, and marks it if it reports the
\* event as published, keeps the count.
LEMMA TellingKeepsCount ==
  ASSUME CountInv, NEW t, t \notin marked, NEW published \in BOOLEAN, cycle >= 1,
         marked \subseteq marked', published => t \in marked', cycle' = cycle,
         phase' = phase,
         rpcFaults' \in Nat, rpcFaults' >= rpcFaults,
         \/ events' = events
         \/ \E e : /\ e.tx = t /\ e.cycle = cycle
                   /\ events' = events \cup {e}
                   /\ ~published => rpcFaults' >= rpcFaults + 1
  PROVE  CountInv'
<1>0. \A u \in Txs, c \in Nat : IsFiniteSet(Of(u, c)) /\ Cardinality(Of(u, c)) \in Nat
  <2> TAKE u \in Txs, c \in Nat
  <2>1. Of(u, c) \subseteq events
    BY DEF Of
  <2> QED
    BY <2>1, FS_Subset, FS_CardinalityType DEF CountInv
<1>1. CASE events' = events
  <2>1. \A u, c : Of(u, c)' = Of(u, c)
    BY <1>1 DEF Of
  <2>2. \A u \in Txs, c \in Nat : Cardinality(Of(u, c)') <= 1 + rpcFaults'
    BY <1>0, <2>1 DEF CountInv
  <2>3. \A u \in Txs : u \notin marked' => Cardinality(Of(u, cycle)') <= rpcFaults'
    BY <1>0, <2>1 DEF CountInv
  <2> QED
    BY <1>1, <2>1, <2>2, <2>3 DEF CountInv
<1>2. CASE \E e : /\ e.tx = t /\ e.cycle = cycle
                  /\ events' = events \cup {e}
                  /\ ~published => rpcFaults' >= rpcFaults + 1
  <2>1. PICK e : /\ e.tx = t /\ e.cycle = cycle
                 /\ events' = events \cup {e}
                 /\ ~published => rpcFaults' >= rpcFaults + 1
    BY <1>2
  <2>2. IsFiniteSet(events')
    BY <2>1, FS_AddElement DEF CountInv
  <2>3. \A u, c : u # t \/ c # cycle => Of(u, c)' = Of(u, c)
    BY <2>1 DEF Of
  <2>4. Of(t, cycle)' = Of(t, cycle) \cup {e}
    BY <2>1 DEF Of
  <2>5. t \in Txs => Cardinality(Of(t, cycle)') <= Cardinality(Of(t, cycle)) + 1
    <3> HAVE t \in Txs
    <3> DEFINE S == Of(t, cycle)
    <3>1. IsFiniteSet(S) /\ Cardinality(S) \in Nat
      BY <1>0 DEF CountInv
    <3>2. Cardinality(S \cup {e}) = IF e \in S THEN Cardinality(S) ELSE Cardinality(S) + 1
      <4> HIDE DEF S
      <4> QED
        BY <3>1, FS_AddElement
    <3>3. Cardinality(S \cup {e}) <= Cardinality(S) + 1
      <4> HIDE DEF S
      <4> QED
        BY <3>1, <3>2
    <3> QED
      BY <2>4, <3>3
  <2>6. t \in Txs => Cardinality(Of(t, cycle)) <= rpcFaults
    BY DEF CountInv
  <2>6a. t \in Txs => Cardinality(Of(t, cycle)) \in Nat /\ Cardinality(Of(t, cycle)') \in Nat
    <3>1. Of(t, cycle)' \subseteq events'
      BY DEF Of
    <3> QED
      BY <1>0, <2>2, <3>1, FS_Subset, FS_CardinalityType DEF CountInv
  <2>7. \A u \in Txs, c \in Nat : Cardinality(Of(u, c)') <= 1 + rpcFaults'
    <3> TAKE u \in Txs, c \in Nat
    <3>1. CASE u = t /\ c = cycle
      BY <2>5, <2>6, <2>6a, <3>1 DEF CountInv
    <3>2. CASE u # t \/ c # cycle
      BY <1>0, <2>3, <3>2 DEF CountInv
    <3> QED
      BY <3>1, <3>2
  <2>8. \A u \in Txs : u \notin marked' => Cardinality(Of(u, cycle)') <= rpcFaults'
    <3> SUFFICES ASSUME NEW u \in Txs, u \notin marked'
                 PROVE  Cardinality(Of(u, cycle)') <= rpcFaults'
      OBVIOUS
    <3>1. CASE u = t
      <4>1. rpcFaults' >= rpcFaults + 1
        BY <2>1, <3>1
      <4> QED
        BY <2>5, <2>6, <2>6a, <3>1, <4>1 DEF CountInv
    <3>2. CASE u # t
      BY <1>0, <2>3, <3>2 DEF CountInv
    <3> QED
      BY <3>1, <3>2
  <2>9. \A d \in events' : d.cycle \in 1..cycle
    BY <2>1 DEF CountInv
  <2> QED
    BY <2>2, <2>7, <2>8, <2>9 DEF CountInv
<1> QED
  BY <1>1, <1>2

\* A step that publishes nothing and unmarks nothing.
LEMMA QuietKeepsCount ==
  ASSUME CountInv, events' = events, cycle' = cycle, rpcFaults' \in Nat,
         rpcFaults' >= rpcFaults, marked \subseteq marked',
         phase' # "idle" => phase # "idle"
  PROVE  CountInv'
<1>0. \A u \in Txs, c \in Nat : Cardinality(Of(u, c)) \in Nat
  <2> TAKE u \in Txs, c \in Nat
  <2>1. Of(u, c) \subseteq events
    BY DEF Of
  <2> QED
    BY <2>1, FS_Subset, FS_CardinalityType DEF CountInv
<1>1. \A u, c : Of(u, c)' = Of(u, c)
  BY DEF Of
<1>2. \A u \in Txs, c \in Nat : Cardinality(Of(u, c)') <= 1 + rpcFaults'
  BY <1>0, <1>1 DEF CountInv
<1>3. \A u \in Txs : u \notin marked' => Cardinality(Of(u, cycle)') <= rpcFaults'
  BY <1>0, <1>1 DEF CountInv
<1> QED
  BY <1>1, <1>2, <1>3 DEF CountInv

\* A cycle that begins has no events yet.
LEMMA BeginKeepsCount ==
  ASSUME CountInv, Begin  PROVE  CountInv'
<1>1. rpcFaults' \in Nat /\ rpcFaults' >= rpcFaults
  BY DEF CountInv, Begin, RpcFault
<1>2. cycle' = cycle + 1 /\ events' = events
  BY DEF Begin
<1>3. \A u \in Txs, c \in Nat : Cardinality(Of(u, c)) \in Nat
  <2> TAKE u \in Txs, c \in Nat
  <2>1. Of(u, c) \subseteq events
    BY DEF Of
  <2> QED
    BY <2>1, FS_Subset, FS_CardinalityType DEF CountInv
<1>4. \A u, c : Of(u, c)' = Of(u, c)
  BY <1>2 DEF Of
<1>5. \A u \in Txs, c \in Nat : Cardinality(Of(u, c)') <= 1 + rpcFaults'
  BY <1>1, <1>3, <1>4 DEF CountInv
<1>6. \A u \in Txs : Cardinality(Of(u, cycle)') <= rpcFaults'
  <2> TAKE u \in Txs
  <2>1. Of(u, cycle)' = {}
    BY <1>2 DEF Of, CountInv
  <2> QED
    BY <1>1, <2>1, FS_EmptySet
<1>7. \A e \in events' : e.cycle \in 1..cycle'
  BY <1>2 DEF CountInv
<1> QED
  BY <1>1, <1>2, <1>5, <1>6, <1>7 DEF CountInv

\* A restart forgets what was marked, and is itself a fault.
LEMMA CrashKeepsCount ==
  ASSUME CountInv, Crash  PROVE  CountInv'
<1>1. rpcFaults' = rpcFaults + 1 /\ cycle' = cycle /\ events' = events /\ phase' = "idle"
  BY DEF Crash, RpcFault
<1>2. \A u \in Txs, c \in Nat : Cardinality(Of(u, c)) \in Nat
  <2> TAKE u \in Txs, c \in Nat
  <2>1. Of(u, c) \subseteq events
    BY DEF Of
  <2> QED
    BY <2>1, FS_Subset, FS_CardinalityType DEF CountInv
<1>3. \A u, c : Of(u, c)' = Of(u, c)
  BY <1>1 DEF Of
<1>4. \A u \in Txs, c \in Nat : Cardinality(Of(u, c)') <= rpcFaults'
  BY <1>1, <1>2, <1>3 DEF CountInv
<1>5. \A u \in Txs, c \in Nat : Cardinality(Of(u, c)') <= 1 + rpcFaults'
  BY <1>1, <1>2, <1>3 DEF CountInv
<1> QED
  BY <1>1, <1>4, <1>5 DEF CountInv

LEMMA HandlersKeepCount ==
  ASSUME ChainInv, CountInv, NEW s \in todo, Handler(s)  PROVE  CountInv'
<1>1. /\ cycle' = cycle /\ phase' = phase /\ cycle >= 1
      /\ marked \subseteq marked' /\ rpcFaults' \in Nat /\ rpcFaults' >= rpcFaults
  <2>1. cycle' = cycle /\ phase' = phase /\ cycle >= 1
    BY HandlersTakeOne, TypesOfChain
  <2>2. marked \subseteq marked' /\ rpcFaults' \in rpcFaults..MaxRpcFaults
    BY HandlersHaveOutcome, Zenon DEF HandlerOutcome
  <2> QED
    BY <2>1, <2>2, ChainTypes DEF CountInv
<1>2. CASE events' = events
  BY <1>1, <1>2, QuietKeepsCount
<1>3. ASSUME TxOf(s) \notin marked, NEW published \in BOOLEAN, Telling(TxOf(s), published),
             published => TxOf(s) \in marked'
      PROVE  CountInv'
  <2>1. \/ events' = events
        \/ \E e : /\ e.tx = TxOf(s) /\ e.cycle = cycle
                  /\ events' = events \cup {e}
                  /\ ~published => rpcFaults' >= rpcFaults + 1
    BY <1>3, Zenon DEF Telling, EventOf
  <2> QED
    BY <1>1, <1>3, <2>1, TellingKeepsCount
<1> QED
  BY <1>2, <1>3, HandlersHaveOutcome, Zenon DEF HandlerOutcome

\* OneEventPerCycle: the strategies of a cycle overlap, a publication may fail after
\* delivering and the worker may be restarted anywhere: a transaction still has one
\* event in a cycle and at most one more for each fault.
THEOREM OneEventPerCycleHolds == ChainSpec => []OneEventPerCycle
<1>1. ChainInit => CountInv
  <2> SUFFICES ASSUME ChainInit  PROVE CountInv
    OBVIOUS
  <2>1. events = {} /\ rpcFaults = 0 /\ cycle = 0 /\ phase = "idle"
    BY DEF ChainInit
  <2>2. \A t, c : Of(t, c) = {}
    BY <2>1 DEF Of
  <2>3. IsFiniteSet({}) /\ Cardinality({}) = 0
    BY FS_EmptySet
  <2>4. \A t, c : Cardinality(Of(t, c)) = 0
    BY <2>2, <2>3
  <2> HIDE DEF Of
  <2> QED
    BY <2>1, <2>3, <2>4 DEF CountInv
<1>2. ChainInv /\ CountInv /\ [ChainNext]_chainVars => CountInv'
  <2> SUFFICES ASSUME ChainInv, CountInv, [ChainNext]_chainVars  PROVE CountInv'
    OBVIOUS
  <2>0. rpcFaults \in Nat
    BY DEF CountInv
  <2>1. CASE Mine \/ (\E p \in Pools : CoolDown(p)) \/ Reprice \/ UNCHANGED chainVars
    BY <2>0, <2>1, QuietKeepsCount DEF Mine, CoolDown, Reprice, chainVars
  <2>2. CASE Begin
    BY <2>2, BeginKeepsCount
  <2>3. CASE NextPhase
    <3>1. rpcFaults' \in Nat /\ rpcFaults' >= rpcFaults
      <4>1. NoFault \/ RpcFault
        BY <2>3, Zenon DEF NextPhase
      <4> QED
        BY <2>0, <4>1 DEF RpcFault, NoFault
    <3>2. events' = events /\ cycle' = cycle /\ marked' = marked /\ phase # "idle"
      BY <2>3 DEF NextPhase
    <3> QED
      BY <3>1, <3>2, QuietKeepsCount
  <2>4. CASE Crash
    BY <2>4, CrashKeepsCount
  <2>5. ASSUME NEW s \in todo, Handler(s)  PROVE CountInv'
    BY <2>5, HandlersKeepCount
  <2> QED
    BY <2>1, <2>2, <2>3, <2>4, <2>5, Zenon DEF ChainNext, Handler
<1>3. CountInv => OneEventPerCycle
  <2> SUFFICES ASSUME CountInv, NEW t \in Txs, NEW c \in 1..cycle
               PROVE  Cardinality({e \in events : e.tx = t /\ e.cycle = c}) <= 1 + rpcFaults
    BY DEF OneEventPerCycle
  <2>1. c \in Nat
    BY DEF CountInv
  <2> QED
    BY <2>1 DEF CountInv, Of
<1> QED
  BY <1>1, <1>2, <1>3, ChainInvHolds, PTL DEF ChainSpec

-----------------------------------------------------------------------------
(* Why a transaction is marked.                                            *)

\* When no call fails, publishing a story leaves its transaction told.
LEMMA CleanTellingTells ==
  ASSUME DedupTold, NEW t, NEW published \in BOOLEAN, Telling(t, published), clean'
  PROVE  Told(t)'
<1>1. CASE events' = events /\ \E d \in dedup : d.tx = t
  BY <1>1 DEF DedupTold, Told
<1>2. CASE \E e : EventOf(t, e) /\ events' = events \cup {e}
  BY <1>2 DEF EventOf, Told
<1> QED
  BY <1>1, <1>2, Zenon DEF Telling

\* What was told stays told.
LEMMA EventsStay ==
  ASSUME [ChainNext]_chainVars, ChainInv  PROVE events \subseteq events'
<1>1. ASSUME NEW s \in todo, Handler(s)  PROVE events \subseteq events'
  <2>1. \/ events' = events
        \/ \E e : events' = events \cup {e}
    BY <1>1, HandlersHaveOutcome, Zenon DEF HandlerOutcome, Telling
  <2> QED
    BY <2>1
<1>2. (\E s \in todo : Handler(s)) \/ events' = events
  BY DEF ChainNext, Handler, Mine, CoolDown, Begin, NextPhase, Reprice, Crash, chainVars
<1> QED
  BY <1>1, <1>2

LEMMA ToldStays ==
  ASSUME events \subseteq events', NEW t, Told(t)  PROVE Told(t)'
  BY DEF Told

\* In a cycle without a failing call, a handler marks a transaction that is told,
\* or one of which it has just read a transfer below the minimum.
LEMMA MarkingHasAReason ==
  ASSUME ChainInv, NEW s \in todo, Handler(s), clean', TxOf(s) \notin marked, TxOf(s) \in marked'
  PROVE  \/ Told(TxOf(s))'
         \/ /\ Taken("transfers", s) /\ ~OfPool(s) /\ Transfer(s).usd < MinUsd
            /\ s[4] \in DOMAIN TransferLogs[TxOf(s)] /\ events' = events /\ pools' = pools
<1>0. DedupTold
  BY DEF ChainInv
<1>1. CASE TellSwap(s) \/ TellTransfer(s) \/ TellEther(s)
  <2>1. PICK published \in BOOLEAN : Telling(TxOf(s), published)
    BY <1>1, TellSwapTells, TellTransferTells, TellEtherTells, Zenon
  <2> QED
    BY <1>0, <2>1, CleanTellingTells
<1>2. CASE DropSwap(s) \/ DropEther(s)
  BY <1>2 DEF DropSwap, DropEther
<1>3. CASE DropTransfer(s)
  <2>1. /\ Taken("transfers", s) /\ ~PassTransfer(s) /\ Transfer(s).usd < MinUsd
        /\ events' = events /\ pools' = pools
    BY <1>3 DEF DropTransfer, NotPublished
  <2>2. Current /\ s \in TransferWork
    BY <2>1, TypesOfChain DEF Taken, Work
  <2> QED
    BY <2>1, <2>2, TransferStories DEF PassTransfer
<1> QED
  BY <1>1, <1>2, <1>3, Zenon DEF Handler

LEMMA MarksKeepTheirReason ==
  ASSUME ChainInv, MarkedForAReason, [ChainNext]_chainVars  PROVE MarkedForAReason'
<1> SUFFICES ASSUME clean', NEW t \in marked'  PROVE (Told(t) \/ HasSmallTransfer(t))'
  BY Zenon DEF MarkedForAReason
<1>1. ASSUME Told(t) \/ HasSmallTransfer(t)  PROVE (Told(t) \/ HasSmallTransfer(t))'
  <2>1. Told(t) => Told(t)'
    BY EventsStay, ToldStays
  <2>2. HasSmallTransfer(t) => HasSmallTransfer(t)'
    BY DEF HasSmallTransfer
  <2> QED
    BY <1>1, <2>1, <2>2, Zenon
<1>2. CASE clean /\ t \in marked
  BY <1>1, <1>2, Zenon DEF MarkedForAReason
<1>3. ASSUME NEW s \in todo, Handler(s)  PROVE (Told(t) \/ HasSmallTransfer(t))'
  <2>1. clean /\ (t \in marked \/ t = TxOf(s))
    <3>1. clean
      BY <1>3, HandlersHaveOutcome, Zenon DEF HandlerOutcome
    <3>2. t \in marked \/ t = TxOf(s)
      <4>1. marked' \subseteq marked \cup {TxOf(s)}
        BY <1>3, HandlersHaveOutcome, Zenon DEF HandlerOutcome
      <4> QED
        BY <4>1
    <3> QED
      BY <3>1, <3>2, Zenon
  <2>2. CASE t \notin marked /\ t = TxOf(s)
    <3>1. Told(t)' \/ HasSmallTransfer(t)
      BY <1>3, <2>2, MarkingHasAReason DEF HasSmallTransfer, Transfer
    <3>2. HasSmallTransfer(t) => HasSmallTransfer(t)'
      BY DEF HasSmallTransfer
    <3> QED
      BY <3>1, <3>2, Zenon
  <2> QED
    BY <1>2, <2>1, <2>2, Zenon
<1>4. CASE Begin \/ Crash
  <2>1. marked' = {}
    BY <1>4 DEF Begin, Crash
  <2> QED
    BY <2>1
<1>5. CASE Mine \/ (\E p \in Pools : CoolDown(p)) \/ Reprice \/ UNCHANGED chainVars
  <2>1. clean' = clean /\ marked' = marked
    BY <1>5 DEF Mine, CoolDown, Reprice, chainVars
  <2> QED
    BY <1>2, <2>1, Zenon
<1>6. CASE NextPhase
  <2>1. marked' = marked
    BY <1>6 DEF NextPhase
  <2>2. clean
    <3>1. NoFault \/ RpcFault
      BY <1>6, Zenon DEF NextPhase
    <3>2. NoFault => clean' = clean
      BY DEF NoFault
    <3>3. ~RpcFault
      BY DEF RpcFault
    <3> QED
      BY <3>1, <3>2, <3>3, Zenon
  <2> QED
    BY <1>2, <2>1, <2>2, Zenon
<1> QED
  BY <1>3, <1>4, <1>5, <1>6, Zenon DEF ChainNext, Handler

\* MarkedForAReason: a cycle in which no call failed has told every transaction it
\* marked in published_tx_hashes, but those a transfer below the minimum marked.
THEOREM MarkedForAReasonHolds == ChainSpec => []MarkedForAReason
<1>1. ChainInit => MarkedForAReason
  BY DEF ChainInit, MarkedForAReason
<1> QED
  BY <1>1, ChainInvHolds, MarksKeepTheirReason, PTL DEF ChainSpec

-----------------------------------------------------------------------------
(* Nothing large is missed.                                                *)

\* The stories of a phase that are behind the cycle.
Done(p) == IF phase = p THEN Work(p) \ todo ELSE Work(p)

\* While no call fails: a swap worth telling that is behind the cycle was told.
SwapsTold == \A s \in Done("swaps") : Worth(s) # {} => Told(TxOf(s))
\* Only told transactions are marked while swaps are read.
SwapsMarkTold == phase = "swaps" => \A t \in marked : Told(t)
\* Transfers are taken in the order of their places.
InOrder ==
  phase = "transfers" => \A r \in Done("transfers"), s \in todo : ~Earlier(s, r)
\* What else may have marked a transaction is a small transfer that came first.
SmallTransferOf(t, s) == TxOf(s) = t /\ ~OfPool(s) /\ Transfer(s).usd < MinUsd
TransfersMarkFirst ==
  phase = "transfers" =>
    \A t \in marked : Told(t) \/ \E r \in Done("transfers") : SmallTransferOf(t, r)
\* A large transfer that is the first free one of its transaction was told.
Leading(s) ==
  /\ ~OfPool(s) /\ Transfer(s).usd >= MinUsd
  /\ \A r \in FreeTransfers(TxOf(s)) : ~Earlier(r, s)
TransfersTold ==
  phase \in {"transfers", "exchanges", "scan", "idle"} =>
    \A s \in Done("transfers") : Leading(s) => Told(TxOf(s))
\* So was ether of the minimum to or from an exchange in a block scanned.
LargeEther(t) ==
  Ether[t].exchange /\ EtherUsd(t) > 0 /\ EtherUsd(t) >= MinUsd /\ ~HasSmallTransfer(t)
EtherTold ==
  phase \in {"scan", "idle"} => \A s \in Done("scan") : LargeEther(TxOf(s)) => Told(TxOf(s))

\* What NothingLargeMissed says of a finished cycle holds, at each moment of a
\* cycle, of the stories behind it.
Progress == /\ SwapsTold /\ SwapsMarkTold /\ InOrder /\ TransfersMarkFirst
            /\ TransfersTold /\ EtherTold
ProgressInv == clean /\ (phase # "idle" \/ cycle > 0) => Progress

\* What these say changes only with what a step changes.
LEMMA DoneIsFixed ==
  ASSUME top' = top
  PROVE  \A p : Done(p)' = IF phase' = p THEN Work(p) \ todo' ELSE Work(p)
  BY WorkIsFixed DEF Done

LEMMA LeadingIsFixed ==
  ASSUME top' = top, pools' = pools
  PROVE  \A s : /\ OfPool(s)' <=> OfPool(s)
                /\ Leading(s)' <=> Leading(s)
<1>1. \A s : OfPool(s)' <=> OfPool(s)
  BY DEF OfPool, Known
<1>2. TransferWork' = TransferWork
  <2>1. Work("transfers")' = Work("transfers")
    BY WorkIsFixed
  <2> QED
    BY <2>1 DEF Work
<1>3. \A t : FreeTransfers(t)' = FreeTransfers(t)
  BY <1>1, <1>2 DEF FreeTransfers
<1> QED
  BY <1>1, <1>3 DEF Leading

LEMMA LargeEtherIsFixed ==
  ASSUME price' = price
  PROVE  \A t : LargeEther(t)' <=> LargeEther(t)
  BY DEF LargeEther, EtherUsd, HasSmallTransfer

LEMMA QuietKeepsProgress ==
  ASSUME ProgressInv, UNCHANGED <<top, phase, todo, marked, pools, events, cycle, clean>>,
         price' = price \/ phase = "exchanges"
  PROVE  ProgressInv'
<1> SUFFICES ASSUME clean /\ (phase # "idle" \/ cycle > 0)  PROVE Progress'
  BY DEF ProgressInv
<1>1. Progress
  BY Zenon DEF ProgressInv
<1>2. \A p : Done(p)' = Done(p)
  BY DoneIsFixed DEF Done
<1>3. \A t : Told(t)' <=> Told(t)
  BY DEF Told
<1>4. SwapsTold'
  BY <1>1, <1>2, <1>3, WorthIsFixed DEF Progress, SwapsTold
<1>5. SwapsMarkTold'
  BY <1>1, <1>3 DEF Progress, SwapsMarkTold
<1>6. InOrder'
  BY <1>1, <1>2 DEF Progress, InOrder
<1>7. TransfersMarkFirst'
  <2>1. \A t, s : SmallTransferOf(t, s)' <=> SmallTransferOf(t, s)
    BY LeadingIsFixed DEF SmallTransferOf
  <2> QED
    BY <1>1, <1>2, <1>3, <2>1 DEF Progress, TransfersMarkFirst
<1>8. TransfersTold'
  BY <1>1, <1>2, <1>3, LeadingIsFixed DEF Progress, TransfersTold
<1>9. EtherTold'
  BY <1>1, <1>2, <1>3, LargeEtherIsFixed DEF Progress, EtherTold
<1> QED
  BY <1>4, <1>5, <1>6, <1>7, <1>8, <1>9 DEF Progress

LEMMA BeginKeepsProgress ==
  ASSUME Begin  PROVE  ProgressInv'
<1> SUFFICES ASSUME clean'  PROVE Progress'
  BY DEF ProgressInv
<1>1. phase' = "swaps" /\ todo' = SwapWork' /\ marked' = {}
  <2>1. ~RpcFault
    BY DEF RpcFault
  <2> QED
    BY <2>1, Zenon DEF Begin
<1>2. Done("swaps")' = {}
  BY <1>1 DEF Done, Work
<1> QED
  BY <1>1, <1>2 DEF Progress, SwapsTold, SwapsMarkTold, InOrder, TransfersMarkFirst,
                    TransfersTold, EtherTold

LEMMA NextPhaseKeepsProgress ==
  ASSUME ChainInv, ProgressInv, NextPhase  PROVE  ProgressInv'
<1> SUFFICES ASSUME clean'  PROVE Progress'
  BY DEF ProgressInv
<1>1. todo' = Work(phase') /\ clean /\ phase # "idle"
  <2>1. ~RpcFault
    BY DEF RpcFault
  <2>2. todo' = Work(phase') /\ NoFault
    BY <2>1, Zenon DEF NextPhase
  <2> QED
    BY <2>2 DEF NextPhase, NoFault
<1>2. Progress
  BY <1>1, Zenon DEF ProgressInv
<1>3. UNCHANGED <<top, marked, pools, price, events>> /\ todo = {} /\ phase' = Following[phase]
  BY DEF NextPhase
<1>4. \/ phase = "swaps" /\ phase' = "transfers"
      \/ phase = "transfers" /\ phase' = "exchanges"
      \/ phase = "exchanges" /\ phase' = "scan"
      \/ phase = "scan" /\ phase' = "idle"
  BY <1>1, <1>3, TypesOfChain DEF Phases, Following
<1>5. \A p : Done(p) = Work(p)
  BY <1>3 DEF Done
<1>6. \A p : Done(p)' = IF phase' = p THEN {} ELSE Work(p)
  BY <1>1, <1>3, DoneIsFixed
<1>7. \A t : Told(t)' <=> Told(t)
  BY <1>3 DEF Told
<1>8. SwapsTold'
  BY <1>2, <1>5, <1>6, <1>7, WorthIsFixed DEF Progress, SwapsTold
<1>9. SwapsMarkTold' /\ InOrder'
  BY <1>4, <1>6 DEF SwapsMarkTold, InOrder
<1>10. TransfersMarkFirst'
  <2>1. phase' = "transfers" => \A t \in marked' : Told(t)'
    BY <1>2, <1>3, <1>4, <1>7 DEF Progress, SwapsMarkTold
  <2> QED
    BY <2>1 DEF TransfersMarkFirst
<1>11. TransfersTold'
  <2>1. \A s : Leading(s)' <=> Leading(s)
    BY <1>3, LeadingIsFixed
  <2>2. CASE phase' = "transfers"
    BY <1>6, <2>2 DEF TransfersTold
  <2>3. CASE phase \in {"transfers", "exchanges", "scan"}
    BY <1>2, <1>5, <1>6, <1>7, <2>1, <2>3 DEF Progress, TransfersTold
  <2> QED
    BY <1>4, <2>2, <2>3
<1>12. EtherTold'
  <2>1. \A t : LargeEther(t)' <=> LargeEther(t)
    BY <1>3, LargeEtherIsFixed
  <2>2. CASE phase' # "idle"
    BY <1>6, <2>2 DEF EtherTold
  <2>3. CASE phase' = "idle"
    <3>1. phase = "scan"
      BY <1>4, <2>3
    <3> QED
      BY <1>2, <1>5, <1>6, <1>7, <2>1, <2>3, <3>1 DEF Progress, EtherTold
  <2> QED
    BY <2>2, <2>3
<1> QED
  BY <1>8, <1>9, <1>10, <1>11, <1>12 DEF Progress

LEMMA ASwapMakesProgress ==
  ASSUME ChainInv, ProgressInv, NEW s \in todo, DropSwap(s) \/ TellSwap(s)
  PROVE  ProgressInv'
<1> SUFFICES ASSUME clean'  PROVE Progress'
  BY DEF ProgressInv
<1>0. Handler(s)
  BY Zenon DEF Handler
<1>1. Taken("swaps", s)
  BY Zenon DEF DropSwap, TellSwap
<1>2. phase = "swaps" /\ phase' = "swaps" /\ top' = top /\ todo' = todo \ {s}
  BY <1>1 DEF Taken
<1>3. clean /\ marked' \subseteq marked \cup {TxOf(s)} /\ Progress
  <2>1. clean /\ marked' \subseteq marked \cup {TxOf(s)}
    BY <1>0, HandlersHaveOutcome, Zenon DEF HandlerOutcome
  <2>2. phase # "idle"
    BY <1>2
  <2> QED
    BY <2>1, <2>2, Zenon DEF ProgressInv
<1>4. \A t : Told(t) => Told(t)'
  <2>1. [ChainNext]_chainVars
    BY Zenon DEF ChainNext
  <2> QED
    BY <2>1, EventsStay, ToldStays
<1>5. \A t \in marked : Told(t)
  BY <1>2, <1>3 DEF Progress, SwapsMarkTold
<1>6. Worth(s) # {} => Told(TxOf(s))'
  <2>1. CASE TellSwap(s)
    <3>1. PICK published \in BOOLEAN : Telling(TxOf(s), published)
      BY <2>1, TellSwapTells, Zenon
    <3>2. DedupTold
      BY DEF ChainInv
    <3> QED
      BY <3>1, <3>2, CleanTellingTells
  <2>2. CASE DropSwap(s)
    <3>1. ~NotFound(SwapLog(s).pool) /\ ~RpcFault
      BY DEF NotFound, RpcFault
    <3>2. TxOf(s) \in marked \/ Worth(s) = {}
      BY <2>2, <3>1, Zenon DEF DropSwap
    <3> QED
      BY <1>4, <1>5, <3>2, Zenon
  <2> QED
    BY <2>1, <2>2
<1>7. SwapsTold'
  <2>1. \A r \in Done("swaps")' : r \in Done("swaps") \/ r = s
    BY <1>2, DoneIsFixed DEF Done
  <2> QED
    BY <1>3, <1>4, <1>6, <2>1, WorthIsFixed DEF Progress, SwapsTold
<1>8. SwapsMarkTold'
  <2>1. ASSUME TxOf(s) \in marked', TxOf(s) \notin marked  PROVE Told(TxOf(s))'
    BY <1>0, <1>1, <2>1, MarkingHasAReason DEF Taken
  <2> QED
    BY <1>3, <1>4, <1>5, <2>1 DEF SwapsMarkTold
<1> QED
  BY <1>2, <1>7, <1>8 DEF Progress, InOrder, TransfersMarkFirst, TransfersTold, EtherTold

LEMMA ATransferMakesProgress ==
  ASSUME ChainInv, ProgressInv, NEW s \in todo, DropTransfer(s) \/ TellTransfer(s)
  PROVE  ProgressInv'
<1> SUFFICES ASSUME clean'  PROVE Progress'
  BY DEF ProgressInv
<1>0. Handler(s)
  BY Zenon DEF Handler
<1>1. Taken("transfers", s)
  BY Zenon DEF DropTransfer, TellTransfer
<1>2. /\ phase = "transfers" /\ phase' = "transfers" /\ top' = top /\ todo' = todo \ {s}
      /\ \A r \in todo : ~Earlier(r, s)
  BY <1>1 DEF Taken
<1>3. clean /\ marked' \subseteq marked \cup {TxOf(s)} /\ Progress
  <2>1. clean /\ marked' \subseteq marked \cup {TxOf(s)}
    BY <1>0, HandlersHaveOutcome, Zenon DEF HandlerOutcome
  <2>2. phase # "idle"
    BY <1>2
  <2> QED
    BY <2>1, <2>2, Zenon DEF ProgressInv
<1>4. \A t : Told(t) => Told(t)'
  <2>1. [ChainNext]_chainVars
    BY Zenon DEF ChainNext
  <2> QED
    BY <2>1, EventsStay, ToldStays
<1>5. pools' = pools
  BY DEF DropTransfer, TellTransfer
<1>6. /\ \A r : OfPool(r)' <=> OfPool(r)
      /\ \A r : Leading(r)' <=> Leading(r)
  BY <1>2, <1>5, LeadingIsFixed
<1>7. /\ todo \subseteq TransferWork /\ Done("transfers") = TransferWork \ todo
      /\ Done("transfers")' = Done("transfers") \cup {s}
      /\ \A r \in TransferWork : r \in Place
  <2>1. Current /\ todo \subseteq TransferWork /\ Work("transfers") = TransferWork
    BY <1>2, TypesOfChain DEF Work
  <2> QED
    BY <1>2, <2>1, DoneIsFixed, TransferStories DEF Done
<1>8. SwapsTold'
  <2>1. Done("swaps")' = Done("swaps")
    BY <1>2, DoneIsFixed DEF Done
  <2> QED
    BY <1>3, <1>4, <2>1, WorthIsFixed DEF Progress, SwapsTold
<1>9. InOrder'
  <2>1. \A r \in Done("transfers"), q \in todo : ~Earlier(q, r)
    BY <1>2, <1>3 DEF Progress, InOrder
  <2> QED
    BY <1>2, <1>7, <2>1 DEF InOrder
<1>10. \A t \in marked : Told(t) \/ \E r \in Done("transfers") : SmallTransferOf(t, r)
  BY <1>2, <1>3 DEF Progress, TransfersMarkFirst
<1>11. TransfersMarkFirst'
  <2>1. \A t, r : SmallTransferOf(t, r)' <=> SmallTransferOf(t, r)
    BY <1>6 DEF SmallTransferOf
  <2>2. ASSUME TxOf(s) \in marked', TxOf(s) \notin marked
        PROVE  Told(TxOf(s))' \/ SmallTransferOf(TxOf(s), s)
    BY <1>0, <2>2, MarkingHasAReason DEF SmallTransferOf
  <2>3. \A t \in marked' : Told(t)' \/ \E r \in Done("transfers")' : SmallTransferOf(t, r)
    BY <1>3, <1>4, <1>7, <1>10, <2>2
  <2> QED
    BY <2>1, <2>3 DEF TransfersMarkFirst
<1>12. Leading(s) => Told(TxOf(s))'
  <2> SUFFICES ASSUME Leading(s)  PROVE Told(TxOf(s))'
    OBVIOUS
  <2>1. CASE TellTransfer(s)
    <3>1. PICK published \in BOOLEAN : Telling(TxOf(s), published)
      BY <2>1, TellTransferTells, Zenon
    <3>2. DedupTold
      BY DEF ChainInv
    <3> QED
      BY <3>1, <3>2, CleanTellingTells
  <2>2. CASE DropTransfer(s)
    <3>1. TxOf(s) \in marked
      <4>1. PassTransfer(s) \/ Transfer(s).usd < MinUsd
        BY <2>2, Zenon DEF DropTransfer
      <4>2. ~OfPool(s) /\ ~(Transfer(s).usd < MinUsd)
        <5>1. Transfer(s).usd \in Nat
          BY <1>7, TransferIsTyped, TypesOfChain
        <5> QED
          BY <5>1, ChainTypes DEF Leading
      <4> QED
        BY <4>1, <4>2, TypesOfChain DEF PassTransfer
    <3>2. ASSUME NEW r \in Done("transfers"), SmallTransferOf(TxOf(s), r)  PROVE FALSE
      <4>1. r \in FreeTransfers(TxOf(s)) /\ r # s
        BY <1>7, <3>2 DEF FreeTransfers, SmallTransferOf
      <4>2. ~Earlier(r, s)
        BY <4>1 DEF Leading
      <4>3. ~Earlier(s, r)
        BY <1>2, <1>3 DEF Progress, InOrder
      <4> QED
        BY <1>7, <4>1, <4>2, <4>3, OrderIsTotal
    <3> QED
      BY <1>4, <1>10, <3>1, <3>2
  <2> QED
    BY <2>1, <2>2
<1>13. TransfersTold'
  <2>1. \A r \in Done("transfers") : Leading(r) => Told(TxOf(r))
    BY <1>2, <1>3 DEF Progress, TransfersTold
  <2> QED
    BY <1>4, <1>6, <1>7, <1>12, <2>1 DEF TransfersTold
<1> QED
  BY <1>2, <1>8, <1>9, <1>11, <1>13 DEF Progress, SwapsMarkTold, EtherTold

LEMMA EtherMakesProgress ==
  ASSUME ChainInv, ProgressInv, MarkedForAReason, NEW s \in todo, DropEther(s) \/ TellEther(s)
  PROVE  ProgressInv'
<1> SUFFICES ASSUME clean'  PROVE Progress'
  BY DEF ProgressInv
<1>0. Handler(s)
  BY Zenon DEF Handler
<1>1. Taken("exchanges", s) \/ Taken("scan", s)
  BY Zenon DEF DropEther, TellEther
<1>2. /\ phase \in {"exchanges", "scan"} /\ phase' = phase /\ top' = top /\ price' = price
      /\ todo' = todo \ {s}
  BY <1>1 DEF Taken
<1>3. clean /\ Progress
  <2>1. clean
    BY <1>0, HandlersHaveOutcome, Zenon DEF HandlerOutcome
  <2>2. phase # "idle"
    BY <1>2
  <2> QED
    BY <2>1, <2>2, Zenon DEF ProgressInv
<1>4. \A t : Told(t) => Told(t)'
  <2>1. [ChainNext]_chainVars
    BY Zenon DEF ChainNext
  <2> QED
    BY <2>1, EventsStay, ToldStays
<1>5. pools' = pools
  BY DEF DropEther, TellEther
<1>6. SwapsTold'
  <2>1. Done("swaps")' = Done("swaps")
    BY <1>2, DoneIsFixed DEF Done
  <2> QED
    BY <1>3, <1>4, <2>1, WorthIsFixed DEF Progress, SwapsTold
<1>7. TransfersTold'
  <2>1. Done("transfers")' = Done("transfers")
    BY <1>2, DoneIsFixed DEF Done
  <2> QED
    BY <1>2, <1>3, <1>4, <1>5, <2>1, LeadingIsFixed DEF Progress, TransfersTold
<1>8. phase = "scan" /\ LargeEther(TxOf(s)) => Told(TxOf(s))'
  <2> SUFFICES ASSUME phase = "scan", LargeEther(TxOf(s))  PROVE Told(TxOf(s))'
    OBVIOUS
  <2>1. CASE TellEther(s)
    <3>1. PICK published \in BOOLEAN : Telling(TxOf(s), published)
      BY <2>1, TellEtherTells, Zenon
    <3>2. DedupTold
      BY DEF ChainInv
    <3> QED
      BY <3>1, <3>2, CleanTellingTells
  <2>2. CASE DropEther(s)
    <3>1. ~RpcFault
      BY DEF RpcFault
    <3>2. ~EtherCounts(TxOf(s))
      BY <2>2, <3>1, Zenon DEF DropEther
    <3>3. TxOf(s) \in marked /\ ~HasSmallTransfer(TxOf(s))
      BY <3>2, Zenon DEF EtherCounts, LargeEther
    <3>4. Told(TxOf(s))
      BY <1>3, <3>3, Zenon DEF MarkedForAReason
    <3> QED
      BY <1>4, <3>4
  <2> QED
    BY <2>1, <2>2
<1>9. EtherTold'
  <2>1. CASE phase = "scan"
    <3>1. \A r \in Done("scan")' : r \in Done("scan") \/ r = s
      BY <1>2, <2>1, DoneIsFixed DEF Done
    <3> QED
      BY <1>2, <1>3, <1>4, <1>8, <2>1, <3>1, LargeEtherIsFixed DEF Progress, EtherTold
  <2> QED
    BY <1>2, <2>1 DEF EtherTold
<1> QED
  BY <1>2, <1>6, <1>7, <1>9 DEF Progress, SwapsMarkTold, InOrder, TransfersMarkFirst

LEMMA ProgressIsKept ==
  ASSUME ChainInv, MarkedForAReason, ProgressInv, [ChainNext]_chainVars  PROVE ProgressInv'
<1>1. CASE Mine \/ (\E p \in Pools : CoolDown(p)) \/ UNCHANGED chainVars
  BY <1>1, QuietKeepsProgress DEF Mine, CoolDown, chainVars
<1>2. CASE Reprice
  BY <1>2, QuietKeepsProgress DEF Reprice
<1>3. CASE Crash
  BY <1>3 DEF Crash, RpcFault, ProgressInv
<1> QED
  BY <1>1, <1>2, <1>3, BeginKeepsProgress, NextPhaseKeepsProgress, ASwapMakesProgress,
     ATransferMakesProgress, EtherMakesProgress, Zenon DEF ChainNext

LEMMA ProgressMissesNothing ==
  ASSUME ChainInv, ProgressInv  PROVE NothingLargeMissed
<1> SUFFICES ASSUME phase = "idle", cycle > 0, clean, NEW t \in Txs,
                    SeenSwap(t) \/ SeenTransfer(t) \/ SeenEther(t)
             PROVE  Told(t)
  BY Zenon DEF NothingLargeMissed
<1>1. Progress
  BY Zenon DEF ProgressInv
<1>2. Done("swaps") = SwapWork /\ Done("transfers") = TransferWork /\ Done("scan") = ScanWork
  BY DEF Done, Work
<1>3. CASE SeenSwap(t)
  BY <1>1, <1>2, <1>3 DEF SeenSwap, Progress, SwapsTold
<1>4. CASE SeenTransfer(t)
  <2>1. PICK s \in FreeTransfers(t) :
          Transfer(s).usd >= MinUsd /\ \A r \in FreeTransfers(t) : ~Earlier(r, s)
    BY <1>4 DEF SeenTransfer
  <2>2. s \in TransferWork /\ TxOf(s) = t /\ Leading(s)
    BY <2>1 DEF FreeTransfers, Leading
  <2> QED
    BY <1>1, <1>2, <2>2 DEF Progress, TransfersTold
<1>5. CASE SeenEther(t)
  <2>1. PICK b \in (top - Depth - 1)..(top - 1), i \in 1..PerBlock :
          i <= Len(Chain[b]) /\ Chain[b][i] = t
    BY <1>5 DEF SeenEther
  <2>2. LargeEther(t)
    BY <1>5 DEF SeenEther, LargeEther
  <2> DEFINE o == top - b
             s == <<o, top - o, i, 1>>
  <2>3. Current
    BY TypesOfChain
  <2>4. o \in 1..(Depth + 1) /\ top - o = b /\ b \in 1..Len(Chain)
    BY <2>1, <2>3, ChainAssumption DEF Current
  <2>5. i \in {k \in DOMAIN Chain[top - o] : k <= PerBlock}
    BY <2>1, <2>4, BlocksHoldTransactions, ChainAssumption
  <2>6. s \in ScanWork
    BY <2>4, <2>5 DEF ScanWork, Scanned
  <2>7. TxOf(s) = t
    BY <2>1, <2>4 DEF TxOf
  <2> QED
    BY <1>1, <1>2, <2>2, <2>6, <2>7 DEF Progress, EtherTold
<1> QED
  BY <1>3, <1>4, <1>5

\* NothingLargeMissed: after a cycle in which no call failed every priced swap, every
\* large transfer that leads its transaction and all ether of the minimum to or
\* from an exchange, as far as the cycle could see them, have been told, whatever
\* was told or passed over in between.
THEOREM NothingLargeMissedHolds == ChainSpec => []NothingLargeMissed
<1>1. ChainInit => ProgressInv
  BY DEF ChainInit, ProgressInv
<1> QED
  BY <1>1, ChainInvHolds, MarkedForAReasonHolds, ProgressIsKept, ProgressMissesNothing, PTL
  DEF ChainSpec

-----------------------------------------------------------------------------
(* The worker.                                                             *)

\* The types of WorkerTypeOK, but for the two flags.
WaitTypes ==
  /\ stage \in {"ready", "init", "price", "monitor", "closing", "sleep",
                "stopped", "exited"}
  /\ wait \in 0..(CycleInterval + FailureRetryInterval)
  /\ errors \in 0..MaxErrors /\ streak \in 0..MaxErrors
  /\ cooldown \in 0..MaxBackoff /\ unasked \in Nat
Flags == connected \in BOOLEAN /\ signalled \in BOOLEAN

\* What is left of the two waits, at each step.  While a cooldown runs, it and
\* the time passed make up at most the longest one.
CoolingDown == cooldown > 0 /\ unasked + cooldown <= MaxBackoff
Waits ==
  /\ connected \/ stage \in {"price", "monitor", "closing"} => cooldown = 0 /\ unasked = 0
  /\ stage = "sleep" =>
       \/ cooldown = 0 /\ unasked = 0 /\ wait \in {CycleInterval, FailureRetryInterval}
       \/ CoolingDown /\ wait = FailureRetryInterval
  /\ cooldown > 0 => CoolingDown
  /\ TriesAgainSoon

WaitsInv == WaitTypes /\ Flags /\ Waits

LEMMA WorkerConstants ==
  /\ CycleInterval \in Nat \ {0} /\ FailureRetryInterval \in Nat \ {0}
  /\ CooldownSeconds \in Nat \ {0} /\ MaxBackoff \in Nat /\ MaxRateLimitSleep \in Nat
  /\ MaxErrors \in Nat \ {0}
  BY WorkerAssumption

LEMMA LongestCooldown ==
  OverZero(MaxBackoff - 1) \in Nat /\ (MaxBackoff > 0 => OverZero(MaxBackoff - 1) = MaxBackoff - 1)
  BY WorkerConstants DEF OverZero

LEMMA BackoffIsBounded ==
  ASSUME NEW n \in 1..MaxErrors, NEW base \in Nat
  PROVE  Backoff(n, base) \in 0..MaxBackoff
<1>1. 2 ^ (n - 1) \in Nat
  BY WorkerAssumption
<1>2. \A a, b \in Nat : a * b \in Nat
  OBVIOUS
<1>3. base * 2 ^ (n - 1) \in Nat
  BY <1>1, <1>2
<1> QED
  BY <1>3, WorkerAssumption DEF Backoff, UpTo

\* The flags stay flags.
LEMMA FlagsStep == Flags /\ [WorkerNext]_workerVars => Flags'
<1> SUFFICES ASSUME Flags, [WorkerNext]_workerVars  PROVE Flags'
  OBVIOUS
<1>1. connected' \in {TRUE, FALSE, connected}
  BY Zenon DEF WorkerNext, Working, StartCycle, InitConnects, InitSkips, InitFails, PriceFetched,
     Monitored, CycleOk, CycleFails, CycleRaises, Wake, Signal, Shutdown, workerVars
<1>2. signalled' \in {TRUE, signalled}
  BY Zenon DEF WorkerNext, Working, StartCycle, InitConnects, InitSkips, InitFails, PriceFetched,
     Monitored, CycleOk, CycleFails, CycleRaises, Wake, Signal, Shutdown, workerVars
<1> QED
  BY <1>1, <1>2, Zenon DEF Flags

\* initialize_web3 fails: a new cooldown within its bound, from now on.
LEMMA InitFailsCoolsDown ==
  ASSUME WaitTypes, InitFails
  PROVE  /\ cooldown' \in 0..MaxBackoff /\ streak' \in 0..MaxErrors
         /\ unasked' = 0 /\ stage' = "sleep" /\ wait' = FailureRetryInterval
         /\ errors' = UpTo(errors + 1, MaxErrors)
<1> DEFINE n == IF streak + 1 > MaxErrors THEN MaxErrors ELSE streak + 1
           base == IF CooldownSeconds \div 2 > 0 THEN CooldownSeconds \div 2 ELSE 1
           full == Backoff(n, CooldownSeconds)
           half == Backoff(n, base)
<1>1. n \in 1..MaxErrors /\ base \in Nat
  BY WorkerConstants DEF WaitTypes
<1>2. full \in 0..MaxBackoff /\ half \in 0..MaxBackoff
  <2> HIDE DEF n, base
  <2> QED
    BY <1>1, WorkerConstants, BackoffIsBounded
<1>3. streak' = n /\ cooldown' \in {full, full - UpTo(full, MaxRateLimitSleep), half}
  BY DEF InitFails, UpTo
<1>4. cooldown' \in 0..MaxBackoff
  <2> HIDE DEF full, half
  <2> QED
    BY <1>2, <1>3, WorkerConstants DEF UpTo
<1>5. streak' \in 0..MaxErrors
  BY <1>1, <1>3, WorkerConstants
<1> QED
  BY <1>4, <1>5 DEF InitFails, CycleFailed, Sleep

LEMMA WaitsStep == WaitsInv /\ [WorkerNext]_workerVars => WaitTypes' /\ Waits'
<1> SUFFICES ASSUME WaitTypes, Waits, [WorkerNext]_workerVars  PROVE WaitTypes' /\ Waits'
  BY DEF WaitsInv
<1> USE WorkerConstants, LongestCooldown
        DEF WaitTypes, Waits, CoolingDown, TriesAgainSoon, CycleFailed, Sleep, UpTo
<1>1. CASE StartCycle
  BY <1>1 DEF StartCycle
<1>2. CASE InitConnects
  BY <1>2 DEF InitConnects
<1>3. CASE InitSkips
  BY <1>3 DEF InitSkips
<1>4. CASE InitFails
  <2>1. connected' = connected /\ ~connected
    BY <1>4, Zenon DEF InitFails
  <2> QED
    BY <1>4, <2>1, InitFailsCoolsDown
<1>5. CASE PriceFetched
  BY <1>5 DEF PriceFetched
<1>6. CASE Monitored
  BY <1>6 DEF Monitored
<1>7. CASE CycleOk
  BY <1>7 DEF CycleOk
<1>8. CASE CycleFails
  BY <1>8 DEF CycleFails
<1>9. CASE CycleRaises
  BY <1>9 DEF CycleRaises
<1>10. CASE Wake
  <2>1. cooldown' \in 0..cooldown /\ cooldown' \in {0, cooldown - wait}
    BY <1>10 DEF Wake, OverZero
  <2>2. /\ stage = "sleep" /\ stage' = "ready" /\ wait' = 0
        /\ UNCHANGED <<errors, streak>>
    BY <1>10 DEF Wake
  <2>3. connected' => connected
    BY <1>10, Zenon DEF Wake
  <2>4. connected => unasked' = 0
    BY <1>10 DEF Wake
  <2>5. ~connected => unasked' = unasked + wait
    BY <1>10 DEF Wake
  <2>6. CASE cooldown = 0 /\ unasked = 0 /\ wait \in {CycleInterval, FailureRetryInterval}
    <3>1. cooldown' = 0 /\ unasked' \in {0, wait}
      BY <2>1, <2>4, <2>5, <2>6
    <3> QED
      BY <2>2, <2>3, <2>4, <2>6, <3>1
  <2>7. CASE CoolingDown /\ wait = FailureRetryInterval
    <3>1. ~connected
      BY <2>7
    <3>2. unasked' = unasked + wait
      BY <3>1, <2>5
    <3>3. TriesAgainSoon' /\ unasked' \in Nat
      BY <3>2, <2>7
    <3>4. cooldown' = 0 \/ cooldown' = cooldown - wait
      BY <2>1
    <3>5. cooldown' > 0 => CoolingDown'
      <4>1. cooldown \in Nat /\ wait \in Nat /\ unasked \in Nat
        OBVIOUS
      <4>2. unasked + cooldown <= MaxBackoff
        BY <2>7
      <4> HIDE DEF WaitTypes, Waits
      <4> QED
        BY <3>2, <3>4, <4>1, <4>2
    <3>6. cooldown' \in 0..MaxBackoff /\ ~connected'
      BY <2>1, <2>3, <3>1
    <3> QED
      <4>1. WaitTypes'
        BY <2>2, <3>3, <3>6
      <4>2. Waits'
        <5> HIDE DEF TriesAgainSoon, CoolingDown, WaitTypes
        <5> QED
          BY <2>2, <3>3, <3>5, <3>6
      <4> QED
        BY <4>1, <4>2
  <2> QED
    BY <2>2, <2>6, <2>7
<1>11. CASE Signal
  BY <1>11 DEF Signal
<1>12. CASE Shutdown
  BY <1>12 DEF Shutdown
<1>13. CASE UNCHANGED workerVars
  BY <1>13 DEF workerVars
<1> QED
  BY <1>1, <1>2, <1>3, <1>4, <1>5, <1>6, <1>7, <1>8, <1>9, <1>10, <1>11, <1>12,
     <1>13 DEF WorkerNext, Working

\* The waits of the worker and of the connection are in one of these states.
THEOREM WaitsInvHolds == WorkerSpec => []WaitsInv
<1>1. WorkerInit => WaitTypes /\ Waits
  BY WorkerConstants, LongestCooldown
  DEF WorkerInit, WaitTypes, Waits, TriesAgainSoon
<1>2. WorkerInit => Flags
  BY DEF WorkerInit, Flags
<1>3. WaitsInv /\ [WorkerNext]_workerVars => WaitsInv'
  BY FlagsStep, WaitsStep DEF WaitsInv
<1> QED
  BY <1>1, <1>2, <1>3, PTL DEF WorkerSpec, WaitsInv

\* WorkerTypeOK: the types of the worker's state, for any intervals.
THEOREM WorkerTypes == WorkerSpec => []WorkerTypeOK
<1>1. WaitsInv => WorkerTypeOK
  BY DEF WaitsInv, WaitTypes, Flags, WorkerTypeOK
<1> QED
  BY <1>1, WaitsInvHolds, PTL

\* TriesAgainSoon: however the attempts fail, the worker's waits and the
\* collector's cooldowns never add up to more than one of them and a retry.
THEOREM TriesAgainSoonHolds == WorkerSpec => []TriesAgainSoon
<1>1. WaitsInv => TriesAgainSoon
  BY DEF WaitsInv, Waits
<1> QED
  BY <1>1, WaitsInvHolds, PTL
=============================================================================
