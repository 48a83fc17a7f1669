-------------------------------- MODULE Cards --------------------------------
(***************************************************************************)
(* One protocol beside another (compare.card, compare.cli), from the store *)
(* of Signals.  Pure operators.                                            *)
(***************************************************************************)
EXTENDS Signals

\* What each figure is read under: its source, its kind, and which of the
\* protocol's names is its key.
Figures ==
  [fees      |-> <<"defillama", "protocol_fees_30d", "fees">>,
   revenue   |-> <<"defillama", "protocol_revenue_30d", "fees">>,
   tvl       |-> <<"defillama", "protocol_tvl", "tvl">>,
   category  |-> <<"defillama", "protocol_category", "tvl">>,
   unlocks   |-> <<"defillama", "unlock_schedule", "fees">>,
   marketCap |-> <<"coingecko", "market_cap", "coin">>,
   fdv       |-> <<"coingecko", "fdv", "coin">>,
   floating  |-> <<"coingecko", "circulating_supply", "coin">>,
   supply    |-> <<"coingecko", "total_supply", "coin">>]
Summed == [oi |-> "open_interest", volume |-> "volume_24h"]

LatestOf(lines, source, kind, name) ==
  LET rows == ReadStore(lines, {source}, {kind}, {<<name>>})
  IN IF rows = <<>> THEN {} ELSE {[value |-> Last(rows).value, at |-> Last(rows).at]}

\* A protocol's exchanges are added up, those that were read.
LatestSummed(lines, kind, names) ==
  LET read == Each(names, LAMBDA n : LET o == LatestOf(lines, "coingecko", kind, n)
                                     IN IF o = {} THEN <<>> ELSE <<The(o)>>)
  IN [obs  |-> IF read = <<>> THEN {}
               ELSE {[value |-> FoldSeq(LAMBDA o, sum : o.value + sum, 0, read),
                      at    |-> Max({read[i].at : i \in DOMAIN read})]},
      rows |-> Len(read)]

GatherReadings(entry, lines) ==
  [f \in DOMAIN Figures \cup DOMAIN Summed |->
     IF f \in DOMAIN Summed THEN LatestSummed(lines, Summed[f], entry.exchanges).obs
     ELSE LatestOf(lines, Figures[f][1], Figures[f][2], entry[Figures[f][3]])]
SpanOfReadings(readings) ==
  LET times == UNION {{o.at : o \in readings[f]} : f \in DOMAIN readings}
  IN IF times = {} THEN {} ELSE {<<Max(times), Min(times)>>}

(***************************************************************************)
(* The rows.  A cell is [state, value, at]; a ratio is <<num, den>>.       *)
(***************************************************************************)
NotFetched == [state |-> "not_fetched", value |-> {}, at |-> 0]
Plain(obs) == IF obs = {} THEN NotFetched ELSE [state |-> "present", value |-> obs, at |-> The(obs).at]

\* Nothing is divided by what was not read, or by nothing.
Divide(num, den) ==
  IF num = {} \/ den = {} \/ The(den).value = 0 THEN {} ELSE {<<The(num).value, The(den).value>>}
Quotient(num, den) ==
  IF Divide(num, den) = {} THEN NotFetched
  ELSE [state |-> "present", value |-> Divide(num, den), at |-> Min({The(num).at, The(den).at})]

\* Collateral is not compared with lending liquidity.
TvlCells(left, right) ==
  LET differ == /\ left.category # {} /\ right.category # {}
                /\ The(left.category).value # The(right.category).value
      blank  == [state |-> "not_comparable", value |-> {}, at |-> 0]
  IN IF differ THEN <<blank, blank>> ELSE <<Plain(left.tvl), Plain(right.tvl)>>

PlainRows == {"revenue", "oi", "marketCap", "unlocks", "fees", "volume", "fdv"}
NoFreeSource == {"active users", "liquidations", "book depth"}
MetricRows(left, right) ==
  [row \in PlainRows \cup NoFreeSource \cup {"tvl", "turnover", "float share"} |->
     CASE row \in PlainRows     -> <<Plain(left[row]), Plain(right[row])>>
       [] row \in NoFreeSource  -> LET none == [state |-> "no_free_source", value |-> {}, at |-> 0] IN <<none, none>>
       [] row = "tvl"           -> TvlCells(left, right)
       [] row = "turnover"      -> <<Quotient(left.volume, left.oi), Quotient(right.volume, right.oi)>>
       [] row = "float share"   -> <<Quotient(left.floating, left.supply), Quotient(right.floating, right.supply)>>]

\* Denominators are positive here.
LessThan(a, b) == a[1] * b[2] < b[1] * a[2]
\* The protocol with less of it, or with more; two equal ratios name the
\* right-hand one.
Named(left, right, names, more) ==
  IF left = {} \/ right = {} THEN {}
  ELSE LET l == The(left)
           r == The(right)
       IN {IF (IF more THEN LessThan(r, l) ELSE LessThan(l, r)) THEN names[1] ELSE names[2]}
Ratio(left, right, names, more) ==
  [left |-> left, right |-> right, caption |-> Named(left, right, names, more)]
RatioLines(left, right, names) ==
  [realRisk   |-> Ratio(Divide(left.marketCap, left.oi), Divide(right.marketCap, right.oi), names, TRUE),
   perRevenue |-> Ratio(Divide(left.marketCap, left.revenue), Divide(right.marketCap, right.revenue), names, FALSE),
   dilutedPerRevenue |-> Ratio(Divide(left.fdv, left.revenue), Divide(right.fdv, right.revenue), names, FALSE)]

\* A name no configuration knows is refused; a card of which nothing was ever
\* read is not drawn.
CompareFor(left, right, protocols, lines) ==
  LET entry(asset) == Last(SelectSeq(protocols, LAMBDA e : e.asset = asset))
      known  == {protocols[i].asset : i \in DOMAIN protocols}
      l      == GatherReadings(entry(left), lines)
      r      == GatherReadings(entry(right), lines)
  IN IF ~({left, right} \subseteq known) THEN [code |-> 1, card |-> {}]
     ELSE IF SpanOfReadings(l) = {} /\ SpanOfReadings(r) = {} THEN [code |-> 1, card |-> {}]
     ELSE [code |-> 0,
           card |-> {[metrics |-> MetricRows(l, r), ratios |-> RatioLines(l, r, <<left, right>>),
                      spans |-> <<SpanOfReadings(l), SpanOfReadings(r)>>]}]
=============================================================================
