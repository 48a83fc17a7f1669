---------------------------- MODULE PriceLevels ----------------------------
(***************************************************************************)
(* Levels read off the same bars: weekly bars, the dealing range, fair      *)
(* value gaps, liquidity pools and the trigger one timeframe below          *)
(* (oracle.resample, core.dealing_range, core.imbalance, core.liquidity,    *)
(* core.trigger).  None of the code is a set of at most one element.        *)
(***************************************************************************)
EXTENDS Structure, FiniteSetsExt, SequencesExt

CONSTANTS
  WeekLen,         \* daily bars in a week
  AtrLookback,     \* bars the average true range is taken over
  PartWindow       \* bars a displacement's volume is judged against

ASSUME LevelsAssumption ==
  WeekLen \in Nat \ {0} /\ AtrLookback \in Nat \ {0} /\ PartWindow \in Nat \ {0}

\* The price furthest in a kind's direction.
Furthest(kind, prices) == IF kind = "bullish" THEN Max(prices) ELSE Min(prices)

Reach(kind, bar) == IF kind = "bullish" THEN bar.high ELSE bar.low

-----------------------------------------------------------------------------
\* A bar whose source gives no volume.
Unreported == -1

(* Weekly bars.  A group is complete only when a later one has begun, so the *)
(* newest week is always left out.                                           *)

WeeksComplete(bars) == IF bars = <<>> THEN 0 ELSE (Len(bars) - 1) \div WeekLen

ToWeekly(bars) ==
  [w \in 1..WeeksComplete(bars) |->
     LET days == ((w - 1) * WeekLen + 1)..(w * WeekLen)
     IN [open   |-> bars[(w - 1) * WeekLen + 1].open,
         high   |-> Max({bars[i].high : i \in days}),
         low    |-> Min({bars[i].low : i \in days}),
         close  |-> bars[w * WeekLen].close,
         volume |-> Unreported]]

\* The newest weekly bar dated on or before day n.
WeekOf(weekly, n) == Min({n \div WeekLen, Len(weekly)})

-----------------------------------------------------------------------------
(* The dealing range *)

ConfirmedRange(bars, n) ==
  LET highs == ConfirmedBy(SwingHighs(bars), n)
      lows  == ConfirmedBy(SwingLows(bars), n)
  IN IF highs = {} \/ lows = {} THEN {}
     ELSE LET h == Newest(highs)
              l == Newest(lows)
          IN IF h.price <= l.price THEN {}
             ELSE {[low |-> l.price, high |-> h.price, source |-> "confirmed",
                    confirmed |-> Max({h.confirmed, l.confirmed})]}

\* The breaks that may redraw the range: through its own boundary, by level.
ResettingBreaks(bars, n, confirmed) ==
  {b \in Breaks(bars, n) :
     /\ b.origin # {}
     /\ \A r \in confirmed : IF b.kind = "bullish" THEN b.level >= r.high
                                                   ELSE b.level <= r.low}

ResetRange(bars, n, confirmed) ==
  LET found == ResettingBreaks(bars, n, confirmed)
  IN IF found = {} THEN {}
     ELSE LET last == CHOOSE b \in found : \A c \in found :
                        c.at < b.at \/ (c.at = b.at /\ (c.kind = "bullish" => b.kind = c.kind))
              edge == Furthest(last.kind, {Reach(last.kind, bars[i]) : i \in last.at..n})
              ends == {edge} \cup {s.price : s \in last.origin}
          IN IF Max(ends) <= Min(ends) THEN {}
             ELSE {[low |-> Min(ends), high |-> Max(ends), source |-> "reset",
                    confirmed |-> last.at]}

\* The confirmed range while it holds price; otherwise the reset, if there is one.
DealingRange(bars, n, price) ==
  LET confirmed == ConfirmedRange(bars, n)
  IN IF \E r \in confirmed : r.low <= price /\ price <= r.high
     THEN confirmed
     ELSE LET reset == ResetRange(bars, n, confirmed)
          IN IF reset # {} THEN reset ELSE confirmed

ZoneAt(r, price) ==
  CASE price < r.low \/ price > r.high -> "outside"
    [] 2 * price > r.low + r.high      -> "premium"
    [] 2 * price < r.low + r.high      -> "discount"
    [] OTHER                           -> "equilibrium"

Permits(r, direction, price) ==
  ZoneAt(r, price) = IF direction = "long" THEN "discount" ELSE "premium"

-----------------------------------------------------------------------------
(* True range, displacement, fair value gaps.  AtrTotal is AtrLookback times *)
(* the average, so that the ratios below stay whole.                         *)

Distance(x, y) == IF x > y THEN x - y ELSE y - x

TrueRange(bars, i) ==
  Max({bars[i].high - bars[i].low}
        \cup {Distance(x, bars[j].close) : x \in {bars[i].high, bars[i].low},
                                           j \in {i - 1} \ {0}})

AtrTotal(bars, i) ==
  LET window == (i - AtrLookback + 1)..i
  IN IF i < AtrLookback THEN {}
     ELSE {SumFunctionOnSet([k \in window |-> TrueRange(bars, k)], window)}

\* A body of one and a half average ranges, the candle itself not counted.
IsDisplacement(bars, i) ==
  \E total \in AtrTotal(bars, i - 1) :
    /\ total > 0
    /\ 2 * AtrLookback * Distance(bars[i].close, bars[i].open) >= 3 * total

FairValueGaps(bars) ==
  LET void(i) == CASE bars[i - 2].high < bars[i].low -> "bullish"
                   [] bars[i - 2].low > bars[i].high -> "bearish"
                   [] OTHER -> "none"
  IN {[kind |-> void(i), at |-> i,
       top    |-> IF void(i) = "bullish" THEN bars[i].low ELSE bars[i - 2].low,
       bottom |-> IF void(i) = "bullish" THEN bars[i - 2].high ELSE bars[i].high] :
        i \in {k \in 3..Len(bars) : void(k) # "none" /\ IsDisplacement(bars, k - 1)}}

\* Trading back into a gap leaves it; going out the far side spends it.
Spent(bars, gap) ==
  \E i \in (gap.at + 1)..Len(bars) :
    IF gap.kind = "bullish" THEN bars[i].low < gap.bottom ELSE bars[i].high > gap.top

LiveGaps(bars, n) ==
  LET known == SubSeq(bars, 1, n)
  IN {g \in FairValueGaps(known) : ~Spent(known, g)}

-----------------------------------------------------------------------------
(* Liquidity pools: swings whose extremes lie within a tolerance, until price *)
(* trades through.  total stands for the tolerance: a quarter of the ATR.     *)

Within(span, total) == 4 * AtrLookback * span <= total

PoolPrice(kind, pool) == Furthest(kind, {s.price : s \in pool})

\* Pools are told apart, and ordered, by their oldest swing.
Formed(pool) == Min({s.at : s \in pool})

\* The pool a swing joins: least span, then newest.
PoolToJoin(alive, swing, total) ==
  LET span(p) == LET prices == {s.price : s \in p \cup {swing}}
                 IN Max(prices) - Min(prices)
      near == {p \in alive : Within(span(p), total)}
  IN {p \in near : \A q \in near :
        span(p) < span(q) \/ (span(p) = span(q) /\ Formed(q) <= Formed(p))}

\* Mutation: a pool is taken only by a close beyond it.
StandsUntilClose(kind, bar, here, pool) ==
  \/ here # {} /\ here \subseteq pool
  \/ ~Beyond(kind, bar.close, PoolPrice(kind, pool))

\* A pool the bar has just joined stands; any other is taken by a wick beyond it.
Stands(kind, bar, here, pool) ==
  \/ here # {} /\ here \subseteq pool
  \/ ~Beyond(kind, Reach(kind, bar), PoolPrice(kind, pool))

\* A bar of the pass: the swing at it joins a pool, or is one of its own, before
\* the bar's own reach takes what it goes beyond.
AfterBar(alive, kind, bar, here, total) ==
  LET joined == UNION {PoolToJoin(alive, s, total) : s \in here}
      merged == {IF p \in joined THEN p \cup here ELSE p : p \in alive}
  IN {p \in merged : Stands(kind, bar, here, p)}
       \cup (IF here # {} /\ joined = {} THEN {here} ELSE {})

\* The pools alive after every bar.
Sweep(bars, known, kind, total) ==
  LET alive[i \in 0..Len(bars)] ==
        IF i = 0 THEN {}
        ELSE AfterBar(alive[i - 1], kind, bars[i], {s \in known : s.at = i}, total)
  IN alive[Len(bars)]

Pools(bars, kind, total, n) ==
  LET found == IF kind = "bullish" THEN SwingHighs(bars) ELSE SwingLows(bars)
  IN {[kind |-> kind, price |-> PoolPrice(kind, pool), members |-> pool] :
        pool \in Sweep(SubSeq(bars, 1, n), ConfirmedBy(found, n), kind, total)}

-----------------------------------------------------------------------------
(* The trigger, one timeframe below: a break in the bias, cut by a displaced *)
(* and traded gap, whose stop has not been taken.                            *)

NewestBreak(found) == CHOOSE b \in found : \A c \in found : c.at <= b.at

SinglePrint(bars, gap) ==
  \E i \in (gap.at - 2)..gap.at : bars[i].high = bars[i].low

\* At least half the median volume of the window before the candle.
Participated(bars, i) ==
  LET history == {k \in Max({1, i - PartWindow})..(i - 1) : bars[k].volume # Unreported}
      below(k) == Cardinality({j \in history : bars[j].volume < bars[k].volume})
      ranked(r) == Max({bars[k].volume : k \in {j \in history : below(j) < r}})
      count == Cardinality(history)
  IN /\ bars[i].volume # Unreported
     /\ history # {}
     /\ 4 * bars[i].volume >= ranked((count + 1) \div 2) + ranked((count + 2) \div 2)

\* The newest gap whose displacement is the breaking candle or its neighbour.
GapFor(bars, bos) ==
  LET near == {g \in FairValueGaps(bars) :
                 /\ g.kind = bos.kind
                 /\ Distance(g.at - 1, bos.at) <= 1
                 /\ ~SinglePrint(bars, g)
                 /\ Participated(bars, g.at - 1)}
  IN {g \in near : \A h \in near : h.at <= g.at}

\* The last opposing swing before the break: where it is proven wrong.
StopFor(bars, bos) ==
  LET prior == {s \in (IF bos.kind = "bullish" THEN SwingLows(bars) ELSE SwingHighs(bars)) :
                  s.at < bos.at}
  IN IF prior = {} THEN {} ELSE {Newest(prior).price}

StopTaken(bars, bos, stop) ==
  \E i \in (bos.at + 1)..Len(bars) :
    Beyond(Opposite(bos.kind), Reach(Opposite(bos.kind), bars[i]), stop)

RetracedInto(bars, gap) ==
  \E i \in (gap.at + 1)..Len(bars) :
    IF gap.kind = "bullish" THEN bars[i].low <= gap.top ELSE bars[i].high >= gap.bottom

Detect(bars, kind, tagged) ==
  LET found == {b \in AllBreaks(bars) : b.kind = kind}
      bos   == NewestBreak(found)
      armed == {[entry |-> IF kind = "bullish" THEN g.top ELSE g.bottom,
                 stop |-> stop, gap |-> g] :
                  g \in GapFor(bars, bos), stop \in StopFor(bars, bos)}
      no(state) == [state |-> state, plan |-> {}]
  IN CASE ~tagged -> no("no_zone_tag")
       [] tagged /\ (\/ Len(bars) < AtrLookback + 3
                     \/ \A i \in DOMAIN bars : bars[i].volume = Unreported
                     \/ SwingHighs(bars) \cup SwingLows(bars) = {}) -> no("unreadable")
       [] OTHER ->
            IF found = {} \/ \A p \in armed : StopTaken(bars, bos, p.stop)
            THEN no("no_trigger")
            ELSE [state |-> IF \E p \in armed : RetracedInto(bars, p.gap)
                            THEN "fired" ELSE "armed",
                  plan |-> armed]
=============================================================================
