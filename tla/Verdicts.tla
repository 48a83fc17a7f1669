------------------------------ MODULE Verdicts ------------------------------
(***************************************************************************)
(* What is made of the same bars afterwards: whether a bracket would have   *)
(* filled and paid (oracle.replay), how a call turned out (core.grade,      *)
(* core.score), what a holder is told (brain.retrieve, core.review) and     *)
(* the levels printed beside it (core.nearby).                              *)
(***************************************************************************)
EXTENDS Candidates

CONSTANTS
  Horizon,     \* days a call is judged over, by the timeframe it was said on
  FoldDays,    \* days within which a repeated call is the same call
  FillWithin,  \* bars a resting limit waits before it counts as never filled;
               \* no limit on them (None) is any number past the last bar
  StaleView    \* days after which a rising roster no longer outweighs the chart

ASSUME VerdictsAssumption == FillWithin \in Nat

-----------------------------------------------------------------------------
(* Replaying a bracket (oracle.replay.resolve) *)

TouchesAbove(bar, level) == bar.high >= level
TouchesBelow(bar, level) == bar.low <= level

HitsEntry(p, bar) == IF p.direction = "long" THEN TouchesBelow(bar, p.entry) ELSE TouchesAbove(bar, p.entry)
HitsStop(p, bar) == IF p.direction = "long" THEN TouchesBelow(bar, p.stop) ELSE TouchesAbove(bar, p.stop)
HitsTarget(p, bar) == IF p.direction = "long" THEN TouchesAbove(bar, p.target) ELSE TouchesBelow(bar, p.target)

\* The first day of a set, if it has one.
First(days) == {d \in days : \A e \in days : d <= e}

\* Only bars after the decision, and only the first few may fill it.
\* Mutation: a limit waits for as long as there are bars.
FilledOnAnyDay(p, bars) ==
  First({i \in (p.on + 1)..Len(bars) : HitsEntry(p, bars[i])})

FilledOn(p, bars) ==
  First({i \in (p.on + 1)..Min({Len(bars), p.on + FillWithin}) : HitsEntry(p, bars[i])})

ResolvedOn(p, bars) ==
  First({i \in UNION {f..Len(bars) : f \in FilledOn(p, bars)} :
           HitsStop(p, bars[i]) \/ HitsTarget(p, bars[i])})

\* One bar that reaches both says nothing of the order they were reached in.
\* tail_days only hands it fewer of the bars.
Resolve(p, bars) ==
  LET filled == FilledOn(p, bars)
      done   == ResolvedOn(p, bars)
      bar    == bars[The(done)]
      state  == CASE Len(bars) <= p.on -> "open"
                  [] Len(bars) > p.on /\ filled = {} -> "nofill"
                  [] filled # {} /\ done = {} -> "open"
                  [] OTHER -> CASE HitsStop(p, bar) /\ HitsTarget(p, bar) -> "ambiguous"
                                [] HitsTarget(p, bar) /\ ~HitsStop(p, bar) -> "target"
                                [] OTHER -> "stop"
  IN [state |-> state, filled |-> filled, resolved |-> done]

-----------------------------------------------------------------------------
(* Grading a call (core.grade) and folding its restatements (core.score) *)

SignedReturn(direction, move) ==
  CASE direction = "long" -> move [] direction = "short" -> -move [] OTHER -> 0

Ungradeable(reason) == [kind |-> "ungradeable", reason |-> reason]

\* A call still running is pending, never a gap in the data.
Grade(row, bars, today) ==
  LET exitDay == row.published + Horizon[row.timeframe]
      entry   == CloseOn(bars, row.published)
      exit    == CloseOn(bars, exitDay)
  IN CASE row.published = Undated -> Ungradeable("undated")
       [] row.published # Undated /\ row.timeframe \notin DOMAIN Horizon
            -> Ungradeable("unknown_timeframe")
       [] OTHER ->
            CASE exitDay > today -> [kind |-> "pending", resolves |-> exitDay]
              [] exitDay <= today /\ (entry = {} \/ entry = {0}) -> Ungradeable("no_entry_price")
              [] OTHER ->
                   IF exit = {} THEN Ungradeable("no_exit_price")
                   ELSE [kind |-> "grade", id |-> row.id, direction |-> row.direction, exitDay |-> exitDay,
                         move |-> (1000 * (The(exit) - The(entry))) \div The(entry)]

\* The earliest of each run of one call is the one that counts.
FoldRestatements(rows) ==
  LET dated == {r \in rows : r.published # Undated}
      same(r) == {q \in dated : /\ q.person = r.person /\ q.label = r.label
                                /\ q.direction = r.direction /\ q.timeframe = r.timeframe}
      earlier(q, r) == q.published < r.published \/ (q.published = r.published /\ q.id < r.id)
      anchors(r) == FoldLeft(LAMBDA kept, q :
                               IF \A a \in kept : q.published - a.published > FoldDays
                               THEN kept \cup {q} ELSE kept,
                             {}, SetToSortSeq(same(r), earlier))
  IN (rows \ dated) \cup UNION {anchors(r) : r \in dated}

\* What each grade earned, and what a robot that always says one thing earned.
Earned(grades) == MapThenSumSet(LAMBDA g : SignedReturn(g.direction, g.move), grades)
StaticBaseline(grades, direction) == MapThenSumSet(LAMBDA g : SignedReturn(direction, g.move), grades)
BestStatic(grades) == Max({StaticBaseline(grades, d) : d \in {"long", "short", "neutral"}})
SkillEdge(grades) == Earned(grades) - BestStatic(grades)

\* A robot with the person's own mix of directions, aimed blind; both sides
\* are scaled by the number of calls.
MixBaseline(grades) ==
  MapThenSumSet(LAMBDA g : MapThenSumSet(LAMBDA h : SignedReturn(h.direction, g.move), grades), grades)
SelectionEdge(grades) == Cardinality(grades) * Earned(grades) - MixBaseline(grades)

-----------------------------------------------------------------------------
(* What the roster says (brain.retrieve.fold_stances, core.review.roster_lean) *)

FoldKey(s) == <<s.person, s.horizon>>

\* The newest statement of each person and horizon; an undated one stands alone.
FoldStances(stances) ==
  {s \in stances :
     \/ s.published = Undated
     \/ \A t \in stances :
          (FoldKey(t) = FoldKey(s) /\ t.published # Undated)
             => \/ t.published < s.published
                \/ t.published = s.published /\ t.id <= s.id}

RosterLean(folded, today) ==
  LET people(lean) == {s.person : s \in {t \in folded : t.lean = lean}}
      bulls == people("bullish")
      bears == people("bearish")
      ahead(x, y) == Cardinality(x) > Cardinality(y)
      lean  == CASE ahead(bulls, bears) -> "bullish"
                 [] ahead(bears, bulls) -> "bearish"
                 [] ~ahead(bulls, bears) /\ ~ahead(bears, bulls) ->
                      IF bulls = {} THEN "silent" ELSE "mixed"
      dates == {s.published : s \in folded} \ {Undated}
  IN [lean |-> lean,
      age  |-> {today - d : d \in {x \in dates : \A y \in dates : y <= x}},
      thin |-> \/ lean = "bullish" /\ Cardinality(bulls) < 2
               \/ lean = "bearish" /\ Cardinality(bears) < 2]

-----------------------------------------------------------------------------
(* Where price is (core.review.locate) and what a holder is told *)

\* The weekly block price has come furthest into, the oldest of equals.
ReachedZones(context) ==
  LET reached == {z \in context.zones : /\ z.timeframe = "weekly"
                                        /\ ApproachTo(z.block, context.price) >= 625}
      deep(z) == ApproachTo(z.block, context.price)
  IN {z \in reached : \A y \in reached :
        \/ deep(y) < deep(z)
        \/ deep(y) = deep(z) /\ (y.block.bos > z.block.bos
                                   \/ (y.block.bos = z.block.bos
                                         /\ (y.block.kind = "bearish" => z.block.kind = "bearish")))}

Locate(context) ==
  LET zone  == ReachedZones(context)
      range == The(context.range)
      depth == 4 * (context.price - range.low)
      width == range.high - range.low
  IN CASE zone # {} -> IF The(zone).block.kind = "bullish" THEN "at_support" ELSE "at_resistance"
       [] zone = {} /\ context.range = {} -> "unreadable"
       [] OTHER -> CASE context.price > range.high -> "above_range"
                     [] context.price < range.low  -> "below_range"
                     [] OTHER -> CASE depth <= width     -> "at_support"
                                   [] depth >= 3 * width -> "at_resistance"
                                   [] OTHER -> "mid"

\* A falling weekly into resistance, unless a current roster is bullish.
ChartTrims(where, trend, roster) ==
  /\ where = "at_resistance" /\ trend = "downtrend"
  /\ roster.lean = "bullish" => \E age \in roster.age : age > StaleView

Grid(lean, where) ==
  CASE lean = "bullish" /\ where = "at_support" -> "add"
    [] lean = "bullish" /\ where \in {"mid", "at_resistance", "above_range"} -> "hold"
    [] lean = "bearish" /\ where = "at_support" -> "hold"
    [] lean = "bearish" /\ where \in {"at_resistance", "above_range"} -> "trim"
    [] OTHER -> "watch"

VerdictFor(roster, where, trend) ==
  CASE ChartTrims(where, trend, roster) -> "trim"
    [] ~ChartTrims(where, trend, roster) /\ roster.lean = "silent" -> "no_view"
    [] OTHER ->
         CASE where = "unreadable" -> "no_read"
           [] where # "unreadable" /\ roster.thin /\ Grid(roster.lean, where) \in {"add", "trim"}
                -> "watch"
           [] OTHER -> Grid(roster.lean, where)

\* Mutation: where price stands is advice whatever the weekly trend.
LevelsVerdictForAnyTrend(roster, where, trend) ==
  CASE where = "at_support" -> "buy_zone" [] where = "at_resistance" -> "sell_zone"
    [] where = "unreadable" -> "no_read" [] OTHER -> where

LevelsVerdictFor(roster, where, trend) ==
  CASE where = "unreadable" -> "no_read"
    [] where = "at_support" /\ trend = "uptrend" ->
         IF ~roster.thin /\ roster.lean = "bullish" THEN "add" ELSE "buy_zone"
    [] where = "at_resistance" /\ trend = "downtrend" ->
         IF ~roster.thin /\ roster.lean = "bearish" THEN "trim" ELSE "sell_zone"
    [] OTHER -> where

RosterDisagrees(verdict, lean) ==
  \/ verdict = "buy_zone" /\ lean = "bearish"
  \/ verdict = "sell_zone" /\ lean = "bullish"

Review(context, stances, today) ==
  LET roster == RosterLean(FoldStances(stances), today)
      where  == Locate(context)
  IN [where |-> where, roster |-> roster,
      sentiment |-> VerdictFor(roster, where, context.weekly),
      levels    |-> LevelsVerdictFor(roster, where, context.weekly)]

-----------------------------------------------------------------------------
(* Levels near price (core.nearby) *)

\* Support or resistance by where price is; inside, by what the level was built as.
\* Mutation: inside a level too, its middle says which side it is.
LevelOfMiddle(timeframe, top, bottom, own, price) ==
  [timeframe |-> timeframe, top |-> top, bottom |-> bottom,
   inside |-> bottom <= price /\ price <= top,
   side |-> IF 2 * price > top + bottom THEN "support" ELSE "resistance",
   gap |-> IF bottom <= price /\ price <= top THEN 0
           ELSE Min({Distance(price, top), Distance(price, bottom)})]

LevelOf(timeframe, top, bottom, own, price) ==
  LET inside == bottom <= price /\ price <= top
  IN [timeframe |-> timeframe, top |-> top, bottom |-> bottom, inside |-> inside,
      side |-> CASE inside      -> IF own = "bearish" THEN "resistance" ELSE "support"
                 [] price > top -> "support"
                 [] OTHER       -> "resistance",
      gap  |-> CASE inside -> 0 [] price > top -> price - top [] OTHER -> bottom - price]

\* Within a twentieth of price, or price is standing in it.
LevelsNear(context) ==
  LET zones == {LevelOf(z.timeframe, z.block.top, z.block.bottom, z.block.kind, context.price) :
                  z \in context.zones}
      gaps  == {LevelOf(g.timeframe, g.gap.top, g.gap.bottom, g.gap.kind, context.price) :
                  g \in context.gaps}
      edges == {LevelOf(r.source, e, e, "none", context.price) :
                  r \in context.range, e \in UNION {{r2.low, r2.high} : r2 \in context.range}}
  IN {l \in zones \cup gaps \cup edges : context.price > 0 /\ 20 * l.gap <= context.price}
=============================================================================
