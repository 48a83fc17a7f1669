------------------------------- MODULE Signals -------------------------------
(***************************************************************************)
(* fetch-altsignal: what is asked of DefiLlama, CoinGecko, Kalshi,         *)
(* Polymarket and pump.fun each night, the store it is appended to, and    *)
(* what a review says from it (oracle.altsignal*, review.altsignal).       *)
(*                                                                         *)
(* Names are numbers, ordered as their text is; a key is a sequence of     *)
(* names; what may be missing is a set of at most one.  `web` is what each *)
(* endpoint answers: {} of a payload is a failed request, or one that      *)
(* carries nothing where the code reads both alike.                        *)
(***************************************************************************)
EXTENDS Integers, Sequences, FiniteSets, SequencesExt, FiniteSetsExt

The(s) == CHOOSE x \in s : TRUE
Say(source, kind, key, value, at) ==
  IF value = {} THEN <<>>
  ELSE <<[source |-> source, kind |-> kind, key |-> key, value |-> The(value), at |-> at]>>
\* A set of numbers, in order.
ByName(names) == IF names = {} THEN <<>> ELSE SelectSeq([n \in 1 .. Max(names) |-> n], LAMBDA n : n \in names)
Each(seq, readings(_)) == FlattenSeq([i \in DOMAIN seq |-> readings(seq[i])])

(***************************************************************************)
(* The store (oracle.altsignal_store): one month's lines as written, each   *)
(* {reading} or {}.                                                        *)
(***************************************************************************)
\* A write killed halfway leaves a torn line, which is {}: it is stepped over
\* when read, and the next line written lands on its end and is lost with it.
AppendReadings(lines, readings) ==
  LET whole == [i \in DOMAIN readings |-> {readings[i]}]
  IN IF lines # <<>> /\ Last(lines) = {} /\ whole # <<>> THEN lines \o Tail(whole) ELSE lines \o whole

\* The first of two readings of one instant stands, and what is read is in the
\* order observed.
Earlier(r, s)  == r.at < s.at
SameInstant(r, s) == /\ r.source = s.source /\ r.kind = s.kind
                     /\ r.key = s.key /\ r.at = s.at
Heard(lines) ==
  LET whole == SelectSeq(lines, LAMBDA line : line # {})
      said  == [i \in DOMAIN whole |-> The(whole[i])]
      first == {i \in DOMAIN said : \A j \in 1 .. i - 1 : ~SameInstant(said[j], said[i])}
      kept  == ByName(first)
  IN SortSeq([i \in DOMAIN kept |-> said[kept[i]]], Earlier)

ReadStore(lines, sources, kinds, keys) ==
  SelectSeq(Heard(lines), LAMBDA r : /\ sources # {} => r.source \in sources
                                     /\ kinds # {} => r.kind \in kinds
                                     /\ keys # {} => r.key \in keys)
LatestRows(rows) ==
  LET last == ByName({i \in DOMAIN rows : \A j \in i + 1 .. Len(rows) : rows[j].key # rows[i].key})
  IN [i \in DOMAIN last |-> rows[last[i]]]
LatestByKey(rows) ==
  LET newest == LatestRows(rows)
  IN [k \in {newest[i].key : i \in DOMAIN newest} |-> newest[CHOOSE i \in DOMAIN newest : newest[i].key = k].value]

(***************************************************************************)
(* DefiLlama: chains and protocols (oracle.altsignal.defillama).           *)
(***************************************************************************)
\* One chain that cannot be reached costs the night every chain.
LatestPoint(series) == IF series = <<>> THEN {} ELSE Last(series)
FetchChains(chains, web, at) ==
  IF \E i \in DOMAIN chains : chains[i] \in web.down THEN {}
  ELSE {Each(chains, LAMBDA c :
          Say("defillama", "chain_tvl", <<c>>, LatestPoint(web.tvl[c]), at)
          \o Say("defillama", "stablecoin_supply", <<c>>, LatestPoint(web.stables[c]), at)
          \o Say("defillama", "dex_volume", <<c>>, web.dex[c], at))}

UnlockLookback  == 30
UnlockLookahead == 90
\* Each section counts what it had released by a day: its last point up to it.
UnlockedBy(sections, day) ==
  LET released(section) == LET past == SelectSeq(section, LAMBDA p : p.day <= day)
                           IN IF past = <<>> THEN 0 ELSE Last(past).unlocked
  IN FoldSeq(LAMBDA section, sum : released(section) + sum, 0, sections)
UnlockSchedule(payload, now) ==
  IF payload = {} \/ The(payload).sections = <<>> THEN {}
  ELSE LET sections == The(payload).sections
           told     == {sections[i] : i \in DOMAIN sections} \ {<<>>}
       IN {[today     |-> UnlockedBy(sections, now),
            past      |-> UnlockedBy(sections, now) - UnlockedBy(sections, now - UnlockLookback),
            scheduled |-> UnlockedBy(sections, now + UnlockLookahead) - UnlockedBy(sections, now),
            tbd       |-> The(payload).tbd,
            end       |-> IF told = {} THEN {} ELSE {Max({Last(s).day : s \in told})}]}

\* The category is that of the first open-interest slug that answered with one.
Category(entry, web) ==
  LET answers == SelectSeq(entry.oi, LAMBDA slug : web.oi[slug].category # {})
  IN IF answers = <<>> THEN {} ELSE web.oi[Head(answers)].category
FetchProtocols(entries, web, at) ==
  Each(entries, LAMBDA e :
    Say("defillama", "protocol_fees_30d", <<e.fees>>, web.fees[e.fees], at)
    \o Say("defillama", "protocol_revenue_30d", <<e.fees>>, web.revenue[e.fees], at)
    \o Say("defillama", "protocol_tvl", <<e.tvl>>, web.protocolTvl[e.tvl], at)
    \o Each(e.oi, LAMBDA slug : Say("defillama", "protocol_open_interest", <<slug>>, web.oi[slug].total, at))
    \o Say("defillama", "protocol_category", <<e.tvl>>, Category(e, web), at)
    \o Say("defillama", "unlock_schedule", <<e.fees>>, UnlockSchedule(web.emissions[e.fees], at), at))

(***************************************************************************)
(* DefiLlama: venues and wrappers, for the safety gate.                    *)
(* web.protocols and web.pools are {} or {the whole payload}: a set of     *)
(* [id, slug, audits, forked, hallmarks], and pool -> its facts.           *)
(***************************************************************************)
ParentsOf(payload, p) ==
  LET parents == [i \in DOMAIN p.forked |-> {q.slug : q \in {q \in payload : q.id = p.forked[i]}}]
      known   == SelectSeq(parents, LAMBDA s : s # {})
  IN [i \in DOMAIN known |-> The(known[i])]
MetadataOf(payload, p) ==
  [audited   |-> {a # 0 : a \in p.audits},
   parents   |-> ParentsOf(payload, p),
   incidents |-> p.hallmarks]

\* Every protocol asked for and, each parent being walked in turn, every
\* ancestor the payload carries; a parent it does not carry is left out.
RECURSIVE Walked(_, _)
Walked(payload, slugs) ==
  LET found   == {p \in payload : p.slug \in slugs}
      parents == UNION {ToSet(ParentsOf(payload, p)) : p \in found}
  IN IF parents \subseteq slugs THEN found ELSE Walked(payload, slugs \cup parents)
VenueMetadata(payload, slugs) ==
  LET walked == Walked(payload, slugs)
  IN [s \in {p.slug : p \in walked} |-> MetadataOf(payload, The({p \in walked : p.slug = s}))]

\* A protocol's age is the first day it held anything.
FirstTvl(history) ==
  LET held == SelectSeq(history, LAMBDA p : p.total # {} /\ p.total # {0} /\ p.day # {})
  IN IF held = <<>> THEN {} ELSE Head(held).day

\* An age is asked for once ever, and what was not answered is not recorded; the
\* three endpoints fail apart.
FetchVenues(entries, web, at, knownAges) ==
  LET facts  == IF web.protocols = {} THEN <<>>
                ELSE VenueMetadata(The(web.protocols), {entries[i].protocol : i \in DOMAIN entries})
      wanted == UNION {ToSet(entries[i].pools) : i \in DOMAIN entries}
      pools  == IF web.pools = {} THEN <<>> ELSE The(web.pools)
  IN Each(ByName(DOMAIN facts), LAMBDA s :
       Say("defillama", "venue_safety_facts", <<s>>, {facts[s]}, at)
       \o (IF <<s>> \in knownAges THEN <<>>
           ELSE Say("defillama", "venue_first_tvl", <<s>>, FirstTvl(web.history[s]), at)))
     \o Each(ByName(wanted \cap DOMAIN pools), LAMBDA p : Say("defillama", "venue_pool", <<p>>, {pools[p]}, at))

(***************************************************************************)
(* CoinGecko, and the markets (oracle.altsignal.{coingecko, kalshi,        *)
(* polymarket, pumpfun}).  {} is a failed request.                         *)
(***************************************************************************)
MarketFields == <<"market_cap", "fdv", "circulating_supply", "total_supply">>
\* Open interest and volume are quoted in bitcoin, whose price rides with the
\* coins; a failed second request costs the first's readings too.
FetchCoins(entries, web, at) ==
  LET coins   == The(web.coins)
      btc     == IF web.bitcoin = {} THEN {} ELSE The(web.bitcoin)
      inUsd(x) == {v * The(btc) : v \in x}
      perps   == The(web.exchanges)
  IN IF web.coins = {} \/ (btc # {} /\ web.exchanges = {}) THEN {}
     ELSE {Each(entries, LAMBDA e : IF e.coin \notin DOMAIN coins THEN <<>>
             ELSE Each(MarketFields, LAMBDA f : Say("coingecko", f, <<e.coin>>, coins[e.coin][f], at)))
           \o (IF btc = {} THEN <<>>
               ELSE Each(entries, LAMBDA e : Each(e.exchanges, LAMBDA x : IF x \notin DOMAIN perps THEN <<>>
                      ELSE Say("coingecko", "open_interest", <<x>>, inUsd(perps[x].oi), at)
                           \o Say("coingecko", "volume_24h", <<x>>, inUsd(perps[x].volume), at))))}

FetchKalshi(tickers, web, at) ==
  IF \E i \in DOMAIN tickers : tickers[i] \in web.down THEN {}
  ELSE {Each(tickers, LAMBDA t : Say("kalshi", "market", <<t>>, web.kalshi[t], at))}
\* An event is read as one market per strike, each named with its event.
FetchPolymarket(events, web, at) ==
  IF \E i \in DOMAIN events : events[i] \in web.down THEN {}
  ELSE {Each(events, LAMBDA e : Each(web.polymarket[e], LAMBDA s : Say("polymarket", "market", <<e, s.name>>, s.yes, at)))}
\* A token that has a pool graduated, on the day the pool was made.
FetchGraduated(web) ==
  IF web.graduated = {} THEN {}
  ELSE {Each(The(web.graduated), LAMBDA t : IF t.mint = {} \/ t.pools = <<>> \/ Head(t.pools) = {} THEN <<>>
          ELSE Say("pumpfun", "graduation", <<The(t.mint)>>, {t.mint}, The(Head(t.pools))))}

(***************************************************************************)
(* One night (oracle.altsignal_cli).                                       *)
(***************************************************************************)
KnownAges(lines) ==
  LET ages == ReadStore(lines, {}, {"venue_first_tvl"}, {}) IN {ages[i].key : i \in DOMAIN ages}
Markets(cfg, platform) ==
  LET its == SelectSeq(cfg.markets, LAMBDA m : m.platform = platform) IN [i \in DOMAIN its |-> its[i].key]
\* A source that cannot be reached costs its own readings and no other's.
SnapshotSignals(lines, cfg, web, at) ==
  LET got(answer) == IF answer = {} THEN <<>> ELSE The(answer)
  IN got(FetchChains([i \in DOMAIN cfg.chains |-> cfg.chains[i].chain], web, at))
     \o FetchProtocols(cfg.protocols, web, at)
     \o (IF cfg.protocols = <<>> THEN <<>> ELSE got(FetchCoins(cfg.protocols, web, at)))
     \o FetchVenues(cfg.venues \o cfg.wrappers, web, at, KnownAges(lines))
     \o got(FetchKalshi(Markets(cfg, "kalshi"), web, at))
     \o got(FetchPolymarket(Markets(cfg, "polymarket"), web, at))
     \o got(FetchGraduated(web))
FetchAltsignal(lines, cfg, web, at) ==
  LET readings == SnapshotSignals(lines, cfg, web, at)
  IN [code |-> IF readings = <<>> THEN 1 ELSE 0, lines |-> AppendReadings(lines, readings)]

(***************************************************************************)
(* In a review (review.altsignal).                                         *)
(***************************************************************************)
ChainKinds == {"chain_tvl", "stablecoin_supply", "dex_volume"}
\* A chain's three figures stand beside each holding named for it; what else is
\* stored under that name is a protocol's.
ChainLines(assets, cfg, lines) ==
  LET named(i)  == SelectSeq(cfg.chains, LAMBDA c : c.asset = assets[i])
      stored(i) == ReadStore(lines, {"defillama"}, {}, {<<Last(named(i)).chain>>})
  IN [i \in {i \in DOMAIN assets : named(i) # <<>> /\ stored(i) # <<>>} |->
        LET known == SelectSeq(stored(i), LAMBDA r : r.kind \in ChainKinds)
        IN {[kind  |-> k, value |-> Last(SelectSeq(known, LAMBDA r : r.kind = k)).value] :
              k \in {known[j].kind : j \in DOMAIN known}}]

MacroShown == 3
\* Of an event's strikes the least decided are shown, chances in percent, and
\* the rest are counted.
Undecided(p) == IF p > 50 THEN p - 50 ELSE 50 - p
MacroRow(market, lines) ==
  LET mine    == SelectSeq(ReadStore(lines, {market.platform}, {}, {}), LAMBDA r :
                   IF market.platform = "kalshi" THEN r.key = <<market.key>>
                   ELSE Len(r.key) = 2 /\ Head(r.key) = market.key)
      ranked  == SortSeq(LatestRows(mine), LAMBDA r, s : Undecided(r.value) < Undecided(s.value))
      shown   == SubSeq(ranked, 1, Min({MacroShown, Len(ranked)}))
  IN IF mine = <<>> THEN {}
     ELSE {[why |-> market.why, top |-> [i \in DOMAIN shown |-> <<shown[i].key, shown[i].value>>],
            others |-> Len(ranked) - Len(shown)]}
=============================================================================
