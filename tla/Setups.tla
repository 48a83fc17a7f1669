------------------------------- MODULE Setups -------------------------------
(***************************************************************************)
(* From one roster thesis and an asset's structure to a candidate trade     *)
(* (core.setups, core.exits, core.levels, oracle.assemble, oracle.queue).   *)
(* Prices are whole; scores are thousandths, kept for their order.          *)
(***************************************************************************)
EXTENDS PriceLevels

CONSTANTS
  HalfLife,   \* days for a view's worth to halve, by the timeframe it was said on
  Alias,      \* the label an asset's label is traded under
  HoldCost    \* what holding a long for CARRY_HOLD_DAYS costs, if it was measured

\* The directions and horizons the engine knows; a row may say anything else.
Families == [long |-> "bullish", short |-> "bearish"]
ZoneTimeframes == <<"weekly", "daily">>
Undated == 0

None(s) == s = {}
The(s) == CHOOSE x \in s : TRUE

-----------------------------------------------------------------------------
(* The author's target (core.levels.read_target) *)

Nearest(levels, price) ==
  {l \in levels : \A m \in levels : Distance(l, price) <= Distance(m, price)}

\* Levels on the profit side of the price when the call was made; at it is no
\* target.  reference is that price, if there was one.
ReadTarget(row, reference) ==
  LET beyond == {l \in row.levels :
                   \A price \in reference : Beyond(Families[row.direction], l, price)}
  IN CASE row.levels = {}           -> [target |-> {}, source |-> "no_levels"]
       [] row.levels # {} /\ reference = {} -> [target |-> {}, source |-> "no_reference_price"]
       [] OTHER ->
            CASE beyond = {} -> [target |-> {}, source |-> "no_level_beyond_entry"]
              [] Cardinality(beyond) = 1 -> [target |-> beyond, source |-> "stated"]
              [] OTHER -> [target |-> {The(Nearest(beyond, The(reference)))},
                           source |-> "nearest"]

-----------------------------------------------------------------------------
(* Exit levels (core.exits).  A rung is a price and why it is one. *)

Structural == {"opposing_zone", "range_bound", "structural_extreme", "liquidity_pool"}

Specificity(kind) ==
  CASE kind = "opposing_zone" -> 1 [] kind = "range_bound" -> 2
    [] kind = "structural_extreme" -> 3 [] kind = "liquidity_pool" -> 4 [] OTHER -> 5

\* How far beyond the range's near boundary the entry rests: on it is outside.
EntryBeyond(kind, entry, range) ==
  IF kind = "bullish" THEN range.low - entry ELSE entry - range.high

IsExternal(kind, entry, range) == EntryBeyond(kind, entry, range) >= 0

\* A sweep is at most a quarter of a range out.
IsSweep(kind, entry, range) ==
  4 * EntryBeyond(kind, entry, range) <= range.high - range.low

RangeBound(kind, range) == IF kind = "bullish" THEN range.high ELSE range.low

\* Opposing blocks at least one risk away, met at their near edge.
OpposingRungs(kind, entry, risk, zones) ==
  LET edge(z) == NearEdge(z.block)
  IN {[price |-> edge(z), kind |-> "opposing_zone"] :
        z \in {y \in zones : /\ y.block.kind = Opposite(kind)
                             /\ Beyond(kind, edge(y), entry)
                             /\ Distance(edge(y), entry) >= risk}}

\* Pools that no surviving rung, and no pool kept nearer the entry, already covers.
PoolRungs(kind, entry, risk, pools, surviving) ==
  LET far == {p \in pools : /\ p.kind = kind
                             /\ Beyond(kind, p.price, entry)
                             /\ Distance(p.price, entry) >= risk}
      rungs(S) == {[price |-> p.price, kind |-> "liquidity_pool"] : p \in S}
      nearer(r, p) == Distance(r.price, entry) < Distance(p.price, entry)
      uncovered(kept) == {p \in far : \A r \in surviving \cup {x \in kept : nearer(x, p)} :
                                        ~Within(Distance(p.price, r.price), p.total)}
  IN UNION {kept \in SUBSET rungs(far) : kept = rungs(uncovered(kept))}

\* Nothing past the range's boundary but the nearest pool.
TruncateAtRange(kind, found) ==
  LET bounds == {r.price : r \in {x \in found : x.kind = "range_bound"}}
      past == {r \in found : \E b \in bounds : Beyond(kind, r.price, b)}
      pools == {r \in past : r.kind = "liquidity_pool"}
  IN (found \ past) \cup {r \in pools : \A q \in pools : ~Beyond(kind, r.price, q.price)}

\* One rung to a price, with the most specific reason.
Dedupe(found) ==
  {r \in found : \A q \in found :
     q.price = r.price => Specificity(r.kind) <= Specificity(q.kind)}

ExitLevels(kind, entry, risk, zones, range, extreme, authored, source, pools) ==
  LET beyond(price, why) ==
        IF Beyond(kind, price, entry) THEN {[price |-> price, kind |-> why]} ELSE {}
      bound == beyond(RangeBound(kind, range), "range_bound")
      furthest == beyond(extreme, "structural_extreme")
      blocks == OpposingRungs(kind, entry, risk, zones) \cup bound \cup furthest
      surviving == {r \in blocks : \A b \in bound : ~Beyond(kind, r.price, b.price)}
      found == blocks \cup PoolRungs(kind, entry, risk, pools, surviving)
      named == {[price |-> a, kind |-> source] :
                  a \in {x \in authored : /\ Beyond(kind, x, entry)
                                          /\ \A r \in found : Distance(x, entry) < Distance(r.price, entry)}}
  IN Dedupe(TruncateAtRange(kind, found \cup named))

\* From outside the range the nearest rung; from inside, only its far boundary.
\* Mutation: the nearest rung for an inside entry too.
SelectTargetNearest(levels, entry, external) ==
  {r \in levels : \A q \in levels : Distance(r.price, entry) <= Distance(q.price, entry)}

SelectTarget(levels, entry, external) ==
  IF external THEN {r \in levels : \A q \in levels : Distance(r.price, entry) <= Distance(q.price, entry)}
  ELSE {r \in levels : r.kind = "range_bound"}

-----------------------------------------------------------------------------
(* An asset's structure as of a day (core.setups.build_context) *)

ZonesFrom(bars, timeframe, n) ==
  {[block |-> b, extreme |-> ExtremeSince(bars, b, n), timeframe |-> timeframe] :
     b \in LiveBlocks(bars, n)}

GapsFrom(bars, timeframe, n) ==
  {[gap |-> g, timeframe |-> timeframe] : g \in LiveGaps(bars, n)}

PoolsFrom(bars, n) ==
  UNION {{[kind |-> p.kind, price |-> p.price, total |-> total] :
            p \in Pools(bars, "bullish", total, n) \cup Pools(bars, "bearish", total, n)} :
           total \in AtrTotal(bars, n)}

\* Bars after the as-of day are not read; the cache may also stop short of it.
BuildContext(bars, today) ==
  LET n      == Min({today, Len(bars)})
      weekly == ToWeekly(bars)
      w      == WeekOf(weekly, n)
      price  == bars[n].close
  IN [as_of  |-> today, price |-> price,
      weekly |-> TrendState(weekly, w),
      daily  |-> TrendState(bars, n),
      range  |-> DealingRange(weekly, w, price),
      zones  |-> ZonesFrom(weekly, "weekly", w) \cup ZonesFrom(bars, "daily", n),
      gaps   |-> GapsFrom(weekly, "weekly", w) \cup GapsFrom(bars, "daily", n),
      pools  |-> PoolsFrom(weekly, w) \cup PoolsFrom(bars, n),
      atr    |-> {total \div AtrLookback : total \in AtrTotal(bars, n)}]

-----------------------------------------------------------------------------
(* The terms of a score *)

PerMille(x, y) == (1000 * x) \div y

\* The ramp: 625 at the near edge, 1000 at the far, half at a tenth of price.
ApproachTo(block, price) ==
  LET travelled == Distance(price, NearEdge(block))
  IN CASE TradedThrough(block, price) -> 0
       [] Inside(block, price) -> 625 + (375 * travelled) \div (block.top - block.bottom)
       [] OTHER -> IF price <= 0 THEN 0 ELSE (625 * price) \div (price + 10 * travelled)

FreshnessSignal(age, half) == PerMille(half, half + Max({age, 0}))

\* Reward to risk of three is worth half.
RewardRiskSignal(reward, risk) == PerMille(reward, reward + 3 * risk)

AgreementSignal(count) == PerMille(count, count + 3)

Score(approach, rewardRisk, agreement, freshness, aligned) ==
  (40 * approach + 20 * rewardRisk + 20 * agreement + 15 * freshness
     + 5 * (IF aligned THEN 1000 ELSE 0)) \div 100

-----------------------------------------------------------------------------
(* The gates (core.setups.cross_reference) *)

FamilyOf(trend) ==
  CASE trend \in {"uptrend", "failed_breakout"}   -> {"bullish"}
    [] trend \in {"downtrend", "failed_breakdown"} -> {"bearish"}
    [] OTHER -> {}

\* The newest live zone of a kind within one timeframe.
NewestZone(zones, kind, timeframe) ==
  LET matching == {z \in zones : z.timeframe = timeframe /\ z.block.kind = kind}
  IN {z \in matching : \A y \in matching :
        \/ y.block.confirmed < z.block.confirmed
        \/ y.block.confirmed = z.block.confirmed /\ y.block.at <= z.block.at}

\* The far edge and one average range more; the bare edge when none is known.
\* Mutation: the pad is taken off the wrong side of the far edge.
PaddedStopInward(block, atr) ==
  IF atr = {} THEN FarEdge(block)
  ELSE IF block.kind = "bullish" THEN FarEdge(block) + The(atr) ELSE FarEdge(block) - The(atr)

PaddedStop(block, atr) ==
  LET pad == IF atr = {} THEN 0 ELSE The(atr)
  IN IF block.kind = "bullish" THEN FarEdge(block) - pad ELSE FarEdge(block) + pad

\* Whether the author's level is still a level to believe.
Reasonable(target, kind, entry, risk, context) ==
  /\ Beyond(kind, target, entry)
  /\ Beyond(kind, target, context.price)
  /\ Distance(target, entry) >= risk
  /\ \A atr \in context.atr : atr = 0 \/ Distance(target, entry) <= 20 * atr

\* Reasons decided from the thesis and the asset: the same on every timeframe.
ThesisRefusal(row, context) ==
  LET family  == {Families[d] : d \in {row.direction} \cap DOMAIN Families}
      weekly  == FamilyOf(context.weekly)
      daily   == FamilyOf(context.daily)
  IN CASE row.published = Undated              -> "undated"
       [] row.timeframe \notin DOMAIN HalfLife -> "unknown_timeframe"
       [] family = {}                          -> "unknown_direction"
       [] weekly # {} /\ weekly # family       -> "weekly_disagrees"
       [] weekly # {} /\ daily # {} /\ daily # family -> "timeframe_conflict"
       [] context.range = {}                   -> "no_dealing_range"
       [] \E r \in context.range : ~Permits(r, row.direction, context.price)
                                               -> "wrong_side_of_range"
       [] OTHER                                -> "none"

Refuse(row, reason) == [thesis |-> row, reason |-> reason]

\* The trade a zone offers, once every level it could come off at is known.
SetupFor(row, context, zone, timeframe, levels, target) ==
  LET block == zone.block
      entry == NearEdge(block)
      risk  == Distance(entry, PaddedStop(block, context.atr))
      left  == Distance(target.price, context.price)
      weekly == FamilyOf(context.weekly)
  IN [thesis |-> row, reason |-> "setup", block |-> block, timeframe |-> timeframe,
      entry |-> entry, stop |-> PaddedStop(block, context.atr), target |-> target.price,
      source |-> target.kind, ladder |-> levels \ {target}, levels |-> levels,
      external |-> IsExternal(block.kind, entry, The(context.range)),
      price |-> context.price, aligned |-> weekly # {},
      approach |-> ApproachTo(block, context.price),
      rewardRisk |-> RewardRiskSignal(left, risk),
      freshness |-> FreshnessSignal(context.as_of - row.published, HalfLife[row.timeframe])]

\* Paying for the hold takes the whole reward, or collecting it the whole risk.
CarryDominates(kind, reward, risk) ==
  \E cost \in HoldCost :
    LET carry == IF kind = "bullish" THEN cost ELSE -cost
    IN reward - carry <= 0 \/ risk + carry <= 0

\* The zone's own gates, in the order the code tries them.
ZoneOutcome(row, context, zone, timeframe, published) ==
  LET block  == zone.block
      kind   == block.kind
      entry  == NearEdge(block)
      range  == The(context.range)
      risk   == Distance(entry, PaddedStop(block, context.atr))
      stated == ReadTarget(row, published)
      levels == ExitLevels(kind, entry, risk, context.zones, range, zone.extreme,
                  {t \in stated.target : Reasonable(t, kind, entry, risk, context)},
                  stated.source, context.pools)
      target == SelectTarget(levels, entry, IsExternal(kind, entry, range))
      reward == Distance(The(target).price, entry)
  IN CASE None(block.invalidation)                  -> Refuse(row, "no_invalidation")
       [] entry = FarEdge(block)                    -> Refuse(row, "degenerate_zone")
       [] TradedThrough(block, context.price)       -> Refuse(row, "price_past_stop")
       [] IsExternal(kind, entry, range) /\ ~IsSweep(kind, entry, range)
                                                    -> Refuse(row, "entry_outside_range")
       [] OTHER ->
            CASE None(levels) -> Refuse(row, "no_target")
              [] ~None(levels) /\ None(target) -> Refuse(row, "no_external_target")
              [] OTHER ->
                   CASE reward < 2 * risk -> Refuse(row, "reward_risk_too_low")
                     [] reward >= 2 * risk /\ CarryDominates(kind, reward, risk)
                          -> Refuse(row, "carry_dominates")
                     [] OTHER -> SetupFor(row, context, zone, timeframe, levels, The(target))

CrossReference(row, context, timeframe, published) ==
  LET refusal == ThesisRefusal(row, context)
      zone == NewestZone(context.zones, Families[row.direction], timeframe)
  IN IF refusal # "none" THEN Refuse(row, refusal)
     ELSE IF None(zone) THEN Refuse(row, "no_live_zone")
     ELSE ZoneOutcome(row, context, The(zone), timeframe, published)

ZoneLevelReasons ==
  {"no_live_zone", "no_invalidation", "degenerate_zone", "price_past_stop",
   "entry_outside_range", "no_target", "no_external_target", "reward_risk_too_low",
   "carry_dominates"}
=============================================================================
