------------------------------- MODULE Chart -------------------------------
(***************************************************************************)
(* One instrument over time: its cached bars, the newest of which is still  *)
(* forming, and the readings taken from them on each day.  A reading is a   *)
(* function of the cache, so the state is the cache, the day, and the       *)
(* bracket a sitting wrote down from what it was shown.                     *)
(***************************************************************************)
EXTENDS Verdicts

CONSTANTS
  Runs,          \* the series a run may start from, and the days it goes on for
  Moves,         \* what a day may do after a close: its change, its wicks, its volume
  Theses,        \* the roster's calls on the instrument
  Stances        \* and what the same people have said of it

Bars == [open : Nat, high : Nat, low : Nat, close : Nat, volume : Int]

\* No price is nothing, and the body lies between the wicks.
WellFormed(bar) ==
  /\ 0 < bar.low
  /\ bar.low <= bar.open /\ bar.open <= bar.high
  /\ bar.low <= bar.close /\ bar.close <= bar.high

ASSUME ChartAssumption ==
  /\ \A move \in Moves : /\ move.change \in Int /\ move.volume \in Int
                        /\ move.up \in Nat /\ move.down \in Nat
  /\ \A run \in Runs : /\ run.days \in Nat /\ run.bars \in Seq(Bars) /\ Len(run.bars) >= 2
                      /\ \A i \in DOMAIN run.bars : WellFormed(run.bars[i])
  /\ \A row \in Theses : row.levels \subseteq Nat /\ row.published \in Nat

VARIABLES
  bars,     \* the cached daily series
  today,    \* the calendar day; the cache may be one behind
  sitting,  \* what the sitting read off the cache, once it began: at most one
  picks,    \* the brackets decided so far: at most one
  lastDay   \* the day the run stops at

vars == <<bars, today, sitting, picks, lastDay>>

\* The corpus as it stands on a day.
Rows(day) == {r \in Theses : r.published <= day}
Said(day) == {s \in Stances : s.published <= day}

\* A bar that is still forming keeps its open and only widens.
Settles(bar, forming) ==
  /\ bar.open = forming.open
  /\ bar.high >= forming.high /\ bar.low <= forming.low
  /\ bar.volume >= forming.volume

\* The bar a move prints after a close; a price is never nothing or less.
BarAfter(last, move) ==
  LET close == last + move.change
  IN [open |-> last, close |-> close, volume |-> move.volume,
      high |-> Max({last, close}) + move.up, low |-> Min({last, close}) - move.down]

Printed(last) == {bar \in {BarAfter(last, move) : move \in Moves} : bar.low > 0}

Settled(s) == {bar \in Printed(s[Len(s) - 1].close) : Settles(bar, Last(s))}

-----------------------------------------------------------------------------
Init ==
  /\ \E run \in Runs : /\ bars = run.bars
                       /\ today = Len(run.bars)
                       /\ lastDay = today + run.days
  /\ sitting = {}
  /\ picks = {}

\* Midnight: a new bar has begun that the cache does not have.
DayPasses ==
  /\ today < lastDay /\ today = Len(bars)
  /\ today' = today + 1
  /\ UNCHANGED <<bars, sitting, picks, lastDay>>

\* A pull on the day itself rewrites the newest bar with what it has become.
Refetch ==
  /\ today = Len(bars) /\ today < lastDay
  /\ \E bar \in Settled(bars) : bars' = [bars EXCEPT ![today] = bar]
  /\ UNCHANGED <<today, sitting, picks, lastDay>>

\* A pull the day after: yesterday's bar as it closed, and today's so far.
Fetch ==
  /\ today = Len(bars) + 1
  /\ \E closed \in Settled(bars) : \E forming \in Printed(closed.close) :
       bars' = [bars EXCEPT ![Len(bars)] = closed] \o <<forming>>
  /\ UNCHANGED <<today, sitting, picks, lastDay>>

Reading ==
  LET context == BuildContext(bars, today)
      gated   == Outcomes(bars, context, Rows(today))
  IN [day |-> today, cached |-> Len(bars), context |-> context,
      closed |-> BuildContext(bars, Len(bars) - 1), gated |-> gated,
      queue  |-> OnePerAsset(Collapse(Passed(gated), Rows(today))),
      review |-> Review(context, Said(today), today),
      levels |-> LevelsNear(context)]

\* A sitting reads everything once, from the cache as it finds it, and the
\* pulls and the days that follow leave what it read alone.
Sit ==
  /\ sitting = {}
  /\ sitting' = {Reading}
  /\ UNCHANGED <<bars, today, picks, lastDay>>

\* It approves a row: the bracket it was shown goes on the record.
Approve ==
  /\ picks = {}
  /\ \E s \in sitting : \E c \in s.queue :
       picks' = {[on |-> today, direction |-> c.key.direction, entry |-> c.entry,
                  stop |-> c.stop, target |-> c.target]}
  /\ UNCHANGED <<bars, today, sitting, lastDay>>

Next == DayPasses \/ Refetch \/ Fetch \/ Sit \/ Approve

Spec == Init /\ [][Next]_vars

-----------------------------------------------------------------------------
(* Properties *)

\* What a sitting read of the closed days reads the same ever after: their
\* structure, range, zones and levels do not depend on what the newest bar
\* became or on what came next (core.structure's confirmed_at, and the as_of
\* every reader of bars takes).
NeverRepaints ==
  \A s \in sitting : BuildContext(bars, s.cached - 1) = s.closed

\* Every trade that passes the gates can be placed as it is drawn: the stop is
\* out past the zone, the target and every other exit are on the profit side of
\* the entry, it pays at least twice what it risks, and the two
\* sides of one zone are never offered at once (core.setups, core.exits).
TradeIsOrdered ==
  \A r \in sitting : \A s \in Passed(r.gated) :
    LET kind == s.block.kind IN
    /\ Beyond(kind, FarEdge(s.block), s.stop) \/ s.stop = FarEdge(s.block)
    /\ Beyond(kind, s.entry, s.stop)
    /\ \A rung \in s.levels : Beyond(kind, rung.price, s.entry)
    /\ Distance(s.target, s.entry) >= 2 * Distance(s.entry, s.stop)
    /\ ~\E o \in Passed(r.gated) : o.timeframe = s.timeframe /\ o.block.kind = Opposite(kind)

\* A trade entered inside the range still has its whole move ahead of price:
\* the target is beyond where the market already is, and no exit but one
\* untaken pool lies past the range's boundary (core.exits.select_target).
InternalTargetAhead ==
  \A r \in sitting : \A s \in Passed(r.gated) : ~s.external =>
    LET kind == s.block.kind
        past == {rung \in s.levels : Beyond(kind, rung.price, s.target)}
    IN /\ Beyond(kind, s.target, s.price)
       /\ Cardinality(past) <= 1
       /\ \A rung \in past : rung.kind = "liquidity_pool"

\* A bracket that resolved on a bar now closed resolved for good, and one whose
\* limit never filled in its time never fills (oracle.replay).
ReplayIsFinal ==
  [][\A p \in picks :
       LET was == Resolve(p, bars)
           is  == Resolve(p, bars')
           over == \/ \E d \in was.resolved : d < Len(bars)
                   \/ was.state = "nofill" /\ Len(bars) > p.on + FillWithin
       IN over => is = was]_bars

\* The queue and the review never give opposite advice on one instrument: no
\* row to buy what the chart-led review says to sell, and none to sell what it
\* says to buy (core.setups' weekly rule against core.review's zones).
NoCrossAdvice ==
  \A s \in sitting : \A c \in s.queue :
    s.review.levels \notin
      (IF c.key.direction = "long" THEN {"sell_zone", "trim"} ELSE {"buy_zone", "add"})

\* A pool is liquidity nobody has taken: price has not gone past it since its
\* last swing, its swings lie within the tolerance of one another, and every
\* confirmed swing price has not gone past is in exactly one pool
\* (core.liquidity, one forward pass against what a pool is).
PoolsAreUntaken ==
  \A kind \in Kinds, total \in AtrTotal(bars, Len(bars)) :
    LET n     == Len(bars)
        pools == Pools(bars, kind, total, n)
        found == ConfirmedBy(IF kind = "bullish" THEN SwingHighs(bars) ELSE SwingLows(bars), n)
        taken(price, at) == \E i \in (at + 1)..n : Beyond(kind, Reach(kind, bars[i]), price)
    IN /\ \A p \in pools :
            /\ ~taken(p.price, Max({s.at : s \in p.members}))
            /\ \A s, t \in p.members : Within(Distance(s.price, t.price), total)
       /\ \A s \in found : ~taken(s.price, s.at) =>
            Cardinality({p \in pools : s \in p.members}) = 1

\* A review and the levels printed under it agree about the zone price is
\* standing in (core.review.locate, core.nearby.levels_near).
LevelsAgreeWithReview ==
  \A s \in sitting : ReachedZones(s.context) # {} =>
    \E l \in s.levels :
      /\ l.inside /\ l.timeframe = "weekly"
      /\ l.side = IF s.review.where = "at_support" THEN "support" ELSE "resistance"

-----------------------------------------------------------------------------
(* What the code says of itself and does not do *)

\* Refusing an inside entry for want of external liquidity means there is none
\* beyond it (core.exits.select_target's docstring).
RefusalMeansNoLiquidity ==
  \A s \in sitting : \A o \in s.gated : o.result.reason = "no_external_target" =>
    LET zone == The(NewestZone(s.context.zones, Families[o.thesis.direction], o.timeframe))
        kind == zone.block.kind
    IN \A r \in s.context.range : ~Beyond(kind, RangeBound(kind, r), NearEdge(zone.block))

\* A trigger's stop is where its entry is proven wrong (core.trigger).
TriggerStopBehindEntry ==
  \A kind \in Kinds : \A p \in Detect(bars, kind, TRUE).plan : Beyond(kind, p.entry, p.stop)

\* No level a trade is aimed at has been reached already (core.setups._reasonable).
TargetAhead ==
  \A r \in sitting : \A s \in Passed(r.gated) : Beyond(s.block.kind, s.target, s.price)

\* A supporter who has since turned on the instrument is shown as turned
\* (core.setups.collapse's latest_by_person).
ReversalsShown ==
  \A s \in sitting : \A c \in s.queue : \A v \in c.views :
    (\E r \in Rows(s.day) :
       /\ r.person = v.person /\ r.published > v.published /\ Alias[r.label] = c.key.label
       /\ Families[r.direction] = Opposite(c.block.kind)
       /\ \A q \in Rows(s.day) : q.person = v.person => q.published <= r.published)
     => v.reversal # {}
=============================================================================
