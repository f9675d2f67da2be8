--------------------------- MODULE OnChainCollector ---------------------------
(***************************************************************************)
(* A cycle of app/modules/ingestion/application/onchain_collector.py:      *)
(* monitor_large_transfers reads the swap logs, the stablecoin transfers   *)
(* and the logs of the exchanges in the last blocks, then the blocks       *)
(* themselves, and publishes what is worth enough.                         *)
(*                                                                         *)
(* Whatever a cycle reads of one transaction is one of its stories: its    *)
(* n-th swap, its n-th transfer, its ether.  A story is the place where    *)
(* the cycle comes to it, <<query, block, index, n>>, and stories are      *)
(* taken in the order of their places.  published_tx_hashes (here marked)  *)
(* keeps a cycle from telling two stories of a transaction; only the pool  *)
(* caches and the deduplication outlive a cycle.                           *)
(*                                                                         *)
(* WETH_MAINNET has 39 hexadecimal digits, so no address equals it and     *)
(* to_checksum_address refuses it: only a stablecoin leg prices a swap.    *)
(***************************************************************************)
EXTENDS Integers, Sequences, FiniteSets, Functions

CONSTANTS
  Txs, Pools,
  Chain,         \* Chain[b]: the transactions of block b, in order
  SwapLogs,      \* SwapLogs[t]: [pool, v3, words], in order
  TransferLogs,  \* TransferLogs[t]: [token, ends, usd]; ends holds the pools it
                 \* touches, and "exchange"
  Ether,         \* Ether[t]: [eth, exchange, logs]; logs holds the exchanges,
                 \* by number, whose addresses emitted a log in t
  PoolTokens,    \* PoolTokens[p]: token0 and token1
  Stablecoins,   \* the tracked stablecoins, in the order of the dictionary
  Boosted,       \* those that lower the thresholds of priority
  Depth,         \* block_range: blocks before the current one (9)
  PerBlock,      \* transactions looked at in a scanned block (10)
  MaxSwapLogs,   \* MAX_SWAP_LOGS_PER_CYCLE (500)
  MaxPools,      \* MAX_POOL_TOKENS_CACHE
  MinUsd, MediumUsd, HighUsd,
  WordBits,      \* width of a word of log data (256)
  Prices,        \* what CoinGecko may say of ether
  FirstHead,     \* the current block of the first cycle
  MaxCycles,     \* bound: cycles
  MaxRpcFaults   \* bound: failing calls of the node, the broker, or crashes

ASSUME ChainAssumption ==
  /\ Depth \in Nat /\ PerBlock \in Nat /\ MaxSwapLogs \in Nat
  /\ MaxPools \in Nat \ {0} /\ MaxCycles \in Nat /\ MaxRpcFaults \in Nat
  /\ FirstHead \in Nat /\ FirstHead - Depth > 1 /\ FirstHead <= Len(Chain)
  /\ Chain \in Seq(Seq(Txs)) /\ Stablecoins \in Seq(Range(Stablecoins))
  /\ \A t \in Txs :
       /\ SwapLogs[t] \in Seq([pool : Pools, v3 : BOOLEAN, words : Seq(Nat)])
       /\ TransferLogs[t] \in Seq([token : Range(Stablecoins), usd : Nat,
                                   ends : SUBSET (Pools \cup {"exchange"})])
       /\ Ether[t] \in [eth : Nat, exchange : BOOLEAN, logs : SUBSET Nat]
  /\ MinUsd \in Nat /\ MediumUsd \in Nat /\ HighUsd \in Nat /\ Prices \subseteq Nat
  /\ 2 ^ WordBits \in Nat /\ 2 ^ (WordBits - 1) \in Nat

VARIABLES
  head,     \* the current block of the chain
  top,      \* current_block, as the cycle read it
  phase,    \* "idle", "swaps", "transfers", "exchanges" or "scan"
  todo,     \* the stories the phase has left
  marked,   \* published_tx_hashes
  swapped,  \* swap_tx_hashes
  pools,    \* pool_tokens_cache, oldest first
  cooling,  \* pools in pool_lookup_failure_cache, not yet expired
  price,    \* eth_price_cache
  dedup,    \* stories is_duplicate knows
  events,   \* published events
  cycle,    \* cycles begun
  clean,    \* no call failed in this cycle, nor was one put off as cooling
  rpcFaults

chainVars == <<head, top, phase, todo, marked, swapped, pools, cooling, price,
               dedup, events, cycle, clean, rpcFaults>>

Following == [swaps |-> "transfers", transfers |-> "exchanges",
              exchanges |-> "scan", scan |-> "idle"]
Phases == {"idle", "swaps", "transfers", "exchanges", "scan"}

-----------------------------------------------------------------------------
(* What the log data says.                                                 *)

Signed(word) ==
  IF word >= 2 ^ (WordBits - 1) THEN word - 2 ^ WordBits ELSE word

\* Which token goes in and how much of each: V2 has four unsigned words, V3 two
\* signed ones.  Without one positive flow in and one out there is no swap.
Legs(log) ==
  LET w    == log.words
      flow == IF log.v3
              THEN IF Len(w) < 2 THEN <<0, 0, 0, 0>>
                   ELSE <<Signed(w[1]), Signed(w[2]), -Signed(w[1]), -Signed(w[2])>>
              ELSE IF Len(w) < 4 THEN <<0, 0, 0, 0>> ELSE w
      t    == PoolTokens[log.pool]
  IN  CASE flow[1] > 0 /\ flow[4] > 0 ->
             {[token_in |-> t[1], token_out |-> t[2], in |-> flow[1], out |-> flow[4]]}
        [] ~(flow[1] > 0 /\ flow[4] > 0) /\ flow[2] > 0 /\ flow[3] > 0 ->
             {[token_in |-> t[2], token_out |-> t[1], in |-> flow[2], out |-> flow[3]]}
        [] OTHER -> {}

IsStablecoin(token) == \E i \in DOMAIN Stablecoins : Stablecoins[i] = token

\* _get_token_price_via_weth: to_checksum_address(WETH_MAINNET) raises before a
\* pool is asked for, the handler caches 0.0, and no token is priced.
PriceViaWeth(token) == 0

\* The stablecoin leg is the value, that of token_in if both are; else a leg
\* priced through WETH.
SwapUsd(leg) ==
  CASE IsStablecoin(leg.token_in) -> leg.in
    [] ~IsStablecoin(leg.token_in) /\ IsStablecoin(leg.token_out) -> leg.out
    [] OTHER -> IF PriceViaWeth(leg.token_in) > 0
                THEN leg.in * PriceViaWeth(leg.token_in) * price
                ELSE IF PriceViaWeth(leg.token_out) > 0
                THEN leg.out * PriceViaWeth(leg.token_out) * price
                ELSE 0

\* determine_priority_by_threshold: each boost halves both thresholds.
Priority(usd, exchange, token) ==
  LET scale == (IF exchange THEN 2 ELSE 1) * (IF token \in Boosted THEN 2 ELSE 1)
  IN  IF usd * scale >= HighUsd THEN "HIGH"
      ELSE IF usd * scale >= MediumUsd THEN "MEDIUM" ELSE "LOW"

-----------------------------------------------------------------------------
(* What the node answers.                                                  *)

TxOf(s) == Chain[s[2]][s[3]]
Earlier(r, s) == \E i \in 1..4 : r[i] < s[i] /\ \A j \in 1..(i - 1) : r[j] = s[j]

\* The transactions of the blocks asked for, and where they are.
Window == (top - Depth)..top
Spots(blocks) == UNION {{<<b, i>> : i \in DOMAIN Chain[b]} : b \in blocks}
At(spot) == Chain[spot[1]][spot[2]]

\* eth_getLogs for both swap topics, oldest first, cut off at the cap.
SwapsSeen ==
  UNION {{<<0, spot[1], spot[2], n>> : n \in DOMAIN SwapLogs[At(spot)]} : spot \in Spots(Window)}
SwapWork ==
  {s \in SwapsSeen : Cardinality({r \in SwapsSeen : Earlier(r, s)}) < MaxSwapLogs}

\* One query for each stablecoin.
TransferWork ==
  UNION {{<<c, spot[1], spot[2], n>> : n \in {m \in DOMAIN TransferLogs[At(spot)] :
                                              TransferLogs[At(spot)][m].token = Stablecoins[c]}} :
           c \in DOMAIN Stablecoins, spot \in Spots(Window)}

\* One query for each exchange: the transactions in which it emitted a log.
ExchangeWork ==
  UNION {{<<x, spot[1], spot[2], 1>> : x \in Ether[At(spot)].logs} : spot \in Spots(Window)}

\* The first transactions of the blocks at these distances from the current one.
Scanned(offsets) ==
  UNION {{<<o, top - o, i, 1>> : i \in {k \in DOMAIN Chain[top - o] : k <= PerBlock}} :
           o \in offsets}
\* Mutant: the loop over the blocks ends one too early.
ScanWorkShort == Scanned(1..Depth)
\* Depth + 1 blocks before the current one, which the scan does not look at,
\* newest first.
ScanWork == Scanned(1..(Depth + 1))

Work(p) ==
  CASE p = "swaps" -> SwapWork
    [] p = "transfers" -> TransferWork
    [] p = "exchanges" -> ExchangeWork
    [] p = "scan" -> ScanWork
    [] p = "idle" -> {}

-----------------------------------------------------------------------------
\* An event's id covers its content and time, so the price of ether is part of
\* an ether story, and a time that is not the block's makes every id a new one.
Stamps == {"block", "clock"}
IdOfEvent(e) == [e EXCEPT !.cycle = 0]

\* normalize_dex_swap_event and normalize_transfer_event, without their time.
\* Both refuse what is below the minimum, which no caller hands to them.
SwapEvent(s, leg) ==
  [kind |-> "swap", tx |-> TxOf(s), n |-> s[4], stamp |-> "block", price |-> 0,
   priority |-> Priority(SwapUsd(leg), FALSE, leg.token_in), cycle |-> cycle]
TransferEvent(s, usd, exchange, token) ==
  [kind |-> IF token = "ETH" THEN "ether" ELSE "transfer", tx |-> TxOf(s), n |-> s[4],
   stamp |-> "block", price |-> IF token = "ETH" THEN price ELSE 0,
   priority |-> Priority(usd, exchange, token), cycle |-> cycle]

ChainTypeOK ==
  /\ head \in FirstHead..Len(Chain) /\ top \in FirstHead..head
  /\ phase \in Phases /\ todo \subseteq Work(phase)
  /\ marked \subseteq Txs /\ swapped \subseteq marked
  /\ pools \in Seq(Pools) /\ Len(pools) <= MaxPools /\ IsInjective(pools)
  /\ cooling \subseteq Pools \ Range(pools)
  /\ price \in Prices
  /\ \A e \in events : /\ e.tx \in Txs /\ e.cycle \in 1..cycle
                       /\ e.priority \in {"HIGH", "MEDIUM", "LOW"}
                       /\ e.priority = "LOW" => MinUsd < MediumUsd
  /\ dedup \subseteq {IdOfEvent(e) : e \in events}
  /\ cycle \in 0..MaxCycles /\ clean \in BOOLEAN /\ rpcFaults \in 0..MaxRpcFaults

ChainInit ==
  /\ head = FirstHead /\ top = FirstHead
  /\ phase = "idle" /\ todo = {}
  /\ marked = {} /\ swapped = {}
  /\ pools = <<>> /\ cooling = {}
  /\ price \in Prices
  /\ dedup = {} /\ events = {}
  /\ cycle = 0 /\ clean = TRUE /\ rpcFaults = 0

RpcFault == rpcFaults < MaxRpcFaults /\ rpcFaults' = rpcFaults + 1 /\ clean' = FALSE
NoFault  == UNCHANGED <<rpcFaults, clean>>

\* The environment: a block is mined; a lookup's cooldown of seconds is over.
Mine ==
  /\ head < Len(Chain)
  /\ head' = head + 1
  /\ UNCHANGED <<top, phase, todo, marked, swapped, pools, cooling, price, dedup,
                 events, cycle, clean, rpcFaults>>
CoolDown(p) ==
  /\ p \in cooling
  /\ cooling' = cooling \ {p}
  /\ UNCHANGED <<head, top, phase, todo, marked, swapped, pools, price, dedup,
                 events, cycle, clean, rpcFaults>>

\* run_collector_async up to the first query; the price is kept if the request
\* for it fails.  Without an answer to eth_blockNumber the cycle is over, without
\* one to the query for swaps there are none to look at.
Begin ==
  /\ phase = "idle" /\ cycle < MaxCycles
  /\ cycle' = cycle + 1
  /\ top' = head
  /\ price' \in Prices
  /\ marked' = {} /\ swapped' = {}
  /\ \/ phase' = "swaps" /\ todo' = SwapWork' /\ clean' = TRUE /\ UNCHANGED rpcFaults
     \/ phase' \in {"swaps", "idle"} /\ todo' = {} /\ RpcFault
  /\ UNCHANGED <<head, pools, cooling, dedup, events>>

\* The next phase.  The queries that fail lose what they asked for, no more.
NextPhase ==
  /\ phase # "idle" /\ todo = {}
  /\ phase' = Following[phase]
  /\ \/ todo' = Work(phase') /\ NoFault
     \/ /\ RpcFault
        /\ \E lost \in SUBSET {s[1] : s \in Work(phase')} :
             todo' = {s \in Work(phase') : s[1] \notin lost}
  /\ UNCHANGED <<head, top, marked, swapped, pools, cooling, price, dedup, events, cycle>>

\* get_eth_price_sync asks again when the cached price is five minutes old.
Reprice ==
  /\ phase = "exchanges"
  /\ price' \in Prices \ {price}
  /\ UNCHANGED <<head, top, phase, todo, marked, swapped, pools, cooling, dedup,
                 events, cycle, clean, rpcFaults>>

\* publish_event of an event, dated with its block or, when that cannot be
\* read, with the clock: FALSE for a duplicate and for a publication that
\* failed, which may have reached the queue all the same.
PublishChainEvent(event, published) ==
  \E stamp \in Stamps, fails \in BOOLEAN :
    LET e    == [event EXCEPT !.stamp = stamp]
        dup  == stamp = "block" /\ IdOfEvent(e) \in dedup
        cost == (IF stamp = "clock" THEN 1 ELSE 0) + (IF fails THEN 1 ELSE 0)
    IN  /\ rpcFaults' = rpcFaults + cost /\ rpcFaults' <= MaxRpcFaults
        /\ clean' = (clean /\ cost = 0)
        /\ fails => ~dup
        /\ published = (~dup /\ ~fails)
        /\ dedup' = IF published THEN dedup \cup {IdOfEvent(e)} ELSE dedup
        /\ \/ events' = events \cup {e} /\ ~dup
           \/ events' = events /\ ~published

NotPublished == UNCHANGED <<dedup, events>>

-----------------------------------------------------------------------------
(* The handlers of one story.                                              *)

\* The next story.  What an exchange's query finds goes through a Python set, so
\* its order is not determined.
Taken(p, s) ==
  /\ phase = p /\ s \in todo
  /\ \A r \in todo : IF p = "exchanges" THEN r[1] >= s[1] ELSE ~Earlier(r, s)
  /\ todo' = todo \ {s}
  /\ UNCHANGED <<head, top, phase, price, cycle>>

Known(p) == p \in Range(pools)
\* Mutant: a pool is remembered without a limit.
FoundUntrimmed(p) ==
  /\ Known(p) \/ p \notin cooling
  /\ pools' = IF Known(p) THEN pools ELSE Append(pools, p)
  /\ UNCHANGED cooling

\* _get_pool_tokens: a known pool is not asked for again, and a cooling one not
\* yet; the oldest of the cache makes room.
Found(p) ==
  /\ Known(p) \/ p \notin cooling
  /\ pools' = IF Known(p) THEN pools
              ELSE IF Len(pools) < MaxPools THEN Append(pools, p)
              ELSE Tail(Append(pools, p))
  /\ UNCHANGED cooling

\* Three failing attempts start the cooldown.
NotFound(p) ==
  /\ ~Known(p)
  /\ \/ p \in cooling /\ clean' = FALSE /\ UNCHANGED rpcFaults
     \/ p \notin cooling /\ RpcFault
  /\ cooling' = cooling \cup {p}
  /\ UNCHANGED pools

\* The legs of a swap that is decoded, priced and not below the minimum.
SwapLog(s) == SwapLogs[TxOf(s)][s[4]]
Worth(s) == {leg \in Legs(SwapLog(s)) : SwapUsd(leg) > 0 /\ SwapUsd(leg) >= MinUsd}

\* Mutant: a swap that is not told marks its transaction too.
DropSwapMarks(s) ==
  /\ Taken("swaps", s)
  /\ \/ NotFound(SwapLog(s).pool)
     \/ Found(SwapLog(s).pool) /\ (TxOf(s) \in marked \/ Worth(s) = {}) /\ NoFault
  /\ marked' = marked \cup {TxOf(s)}
  /\ NotPublished /\ UNCHANGED swapped

\* process_dex_swap_log_event where it returns before publishing: no tokens, a
\* transaction already told, nothing worth telling, get_transaction failing.
DropSwap(s) ==
  /\ Taken("swaps", s)
  /\ \/ NotFound(SwapLog(s).pool)
     \/ /\ Found(SwapLog(s).pool)
        /\ \/ (TxOf(s) \in marked \/ Worth(s) = {}) /\ NoFault
           \/ TxOf(s) \notin marked /\ Worth(s) # {} /\ RpcFault
  /\ NotPublished /\ UNCHANGED <<marked, swapped>>

\* Mutant: a published swap is not entered in the sets of the cycle.
TellSwapUnmarked(s) ==
  /\ Taken("swaps", s)
  /\ Found(SwapLog(s).pool)
  /\ TxOf(s) \notin marked
  /\ \E leg \in Worth(s), published \in BOOLEAN :
       PublishChainEvent(SwapEvent(s, leg), published)
  /\ UNCHANGED <<marked, swapped>>

\* The rest of process_dex_swap_log_event: both sets only if it was published.
TellSwap(s) ==
  /\ Taken("swaps", s)
  /\ Found(SwapLog(s).pool)
  /\ TxOf(s) \notin marked
  /\ \E leg \in Worth(s), published \in BOOLEAN :
       /\ PublishChainEvent(SwapEvent(s, leg), published)
       /\ marked' = IF published THEN marked \cup {TxOf(s)} ELSE marked
       /\ swapped' = IF published THEN swapped \cup {TxOf(s)} ELSE swapped

\* process_erc20_transfer_event: a transaction that was told, and a transfer
\* from or to a pool in the cache, is passed over.  Any other transfer marks
\* its transaction, be it too small, refused or not published.
Transfer(s) == TransferLogs[TxOf(s)][s[4]]
OfPool(s) == \E p \in Transfer(s).ends : Known(p)
PassTransfer(s) == TxOf(s) \in swapped \cup marked \/ OfPool(s)
DropTransfer(s) ==
  /\ Taken("transfers", s)
  /\ PassTransfer(s) \/ Transfer(s).usd < MinUsd
  /\ marked' = IF PassTransfer(s) THEN marked ELSE marked \cup {TxOf(s)}
  /\ NotPublished /\ NoFault /\ UNCHANGED <<swapped, pools, cooling>>
TellTransfer(s) ==
  /\ Taken("transfers", s)
  /\ ~PassTransfer(s) /\ Transfer(s).usd >= MinUsd
  /\ \E published \in BOOLEAN :
       PublishChainEvent(TransferEvent(s, Transfer(s).usd, "exchange" \in Transfer(s).ends,
                                       Transfer(s).token), published)
  /\ marked' = marked \cup {TxOf(s)}
  /\ UNCHANGED <<swapped, pools, cooling>>

\* process_exchange_transaction, and the block scan, which also asks for an
\* exchange at one end: zero or too little ether, or get_transaction failing.
EtherUsd(t) == Ether[t].eth * price
EtherCounts(t) ==
  /\ t \notin marked
  /\ EtherUsd(t) > 0 /\ EtherUsd(t) >= MinUsd
  /\ phase = "scan" => Ether[t].exchange
DropEther(s) ==
  /\ Taken("exchanges", s) \/ Taken("scan", s)
  /\ \/ ~EtherCounts(TxOf(s)) /\ NoFault
     \/ TxOf(s) \notin marked /\ RpcFault
  /\ NotPublished /\ UNCHANGED <<marked, swapped, pools, cooling>>
TellEther(s) ==
  /\ Taken("exchanges", s) \/ Taken("scan", s)
  /\ EtherCounts(TxOf(s))
  /\ \E published \in BOOLEAN :
       /\ PublishChainEvent(TransferEvent(s, EtherUsd(TxOf(s)), Ether[TxOf(s)].exchange, "ETH"),
                            published)
       /\ marked' = IF published THEN marked \cup {TxOf(s)} ELSE marked
  /\ UNCHANGED <<swapped, pools, cooling>>

\* The worker is restarted in the middle of a cycle.
Crash ==
  /\ phase # "idle" /\ RpcFault
  /\ phase' = "idle" /\ todo' = {}
  /\ marked' = {} /\ swapped' = {} /\ pools' = <<>> /\ cooling' = {}
  /\ UNCHANGED <<head, top, price, dedup, events, cycle>>

ChainNext ==
  \/ Mine \/ \E p \in Pools : CoolDown(p)
  \/ Begin \/ NextPhase \/ Reprice \/ Crash
  \/ \E s \in todo : \/ DropSwap(s) \/ TellSwap(s) \/ DropTransfer(s) \/ TellTransfer(s)
                     \/ DropEther(s) \/ TellEther(s)

ChainSpec == ChainInit /\ [][ChainNext]_chainVars

-----------------------------------------------------------------------------
(* What must hold.                                                         *)

\* The strategies of one cycle overlap, yet a transaction is told once in a
\* cycle, and again only for a publication that failed after delivering.
OneEventPerCycle ==
  \A t \in Txs, c \in 1..cycle :
    Cardinality({e \in events : e.tx = t /\ e.cycle = c}) <= 1 + rpcFaults

\* A transaction that is marked, and so lost for the rest of the cycle, has
\* been told, unless a transfer below the minimum or a failed call marked it.
Told(t) == \E e \in events : e.tx = t
HasSmallTransfer(t) == \E n \in DOMAIN TransferLogs[t] : TransferLogs[t][n].usd < MinUsd
MarkedForAReason ==
  clean => \A t \in marked : Told(t) \/ HasSmallTransfer(t)

\* After a cycle in which no call failed, everything large it could see has
\* been told: a priced swap, a transaction whose first free transfer is large,
\* and ether to or from an exchange that no small transfer hides.
SeenSwap(t) == \E s \in SwapWork : TxOf(s) = t /\ Worth(s) # {}
FreeTransfers(t) == {s \in TransferWork : TxOf(s) = t /\ ~OfPool(s)}
SeenTransfer(t) ==
  \E s \in FreeTransfers(t) :
    Transfer(s).usd >= MinUsd /\ \A r \in FreeTransfers(t) : ~Earlier(r, s)
SeenEther(t) ==
  /\ \E b \in (top - Depth - 1)..(top - 1) : \E i \in 1..PerBlock :
       i <= Len(Chain[b]) /\ Chain[b][i] = t
  /\ Ether[t].exchange /\ EtherUsd(t) > 0 /\ EtherUsd(t) >= MinUsd
  /\ ~HasSmallTransfer(t)
NothingLargeMissed ==
  phase = "idle" /\ cycle > 0 /\ clean =>
    \A t \in Txs : SeenSwap(t) \/ SeenTransfer(t) \/ SeenEther(t) => Told(t)

\* What the comment at line 1318 says: a swap that is rejected or has no value
\* does not suppress the transfers of its transaction.
RejectedSwapsSuppressNothing ==
  phase = "idle" /\ cycle > 0 /\ clean =>
    \A t \in Txs :
      (\E s \in TransferWork : TxOf(s) = t) /\ ~HasSmallTransfer(t) => Told(t)
=============================================================================
