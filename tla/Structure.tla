----------------------------- MODULE Structure -----------------------------
(***************************************************************************)
(* Market structure read off a series of bars (core.structure): swings,    *)
(* trend state, breaks of structure, the order block each break leaves.    *)
(* A bar's date is its place in the series, and n is an as-of date: the    *)
(* code is handed the whole series and a date, and must not use what was   *)
(* not knowable on it.                                                     *)
(***************************************************************************)
EXTENDS Integers, FiniteSets, Sequences

CONSTANTS
  Width,        \* bars on each side a swing must dominate (SWING_WIDTH)
  Depth,        \* swings back the trend is measured against (TREND_DEPTH)
  NoiseFloor    \* percent a swing must move to count (TREND_NOISE_FLOOR)

ASSUME StructureAssumption ==
  Width \in Nat \ {0} /\ Depth \in Nat \ {0} /\ NoiseFloor \in Nat

Kinds == {"bullish", "bearish"}
Trends == {"uptrend", "downtrend", "ranging", "failed_breakout", "failed_breakdown"}

\* x lies beyond y in the direction a break of this kind goes.
Beyond(kind, x, y) == IF kind = "bullish" THEN x > y ELSE x < y

Opposite(kind) == IF kind = "bullish" THEN "bearish" ELSE "bullish"

-----------------------------------------------------------------------------
(* Swings *)

Window(i) == ((i - Width)..(i + Width)) \ {i}
Inner(bars) == (Width + 1)..(Len(bars) - Width)

\* The swing highs (a bullish break closes above one) and the swing lows.
\* Mutation: a swing is known on its own bar.
SwingHighsAtOnce(bars) ==
  {[at |-> i, price |-> bars[i].high, confirmed |-> i] :
     i \in {k \in Inner(bars) : \A j \in Window(k) : bars[k].high > bars[j].high}}

SwingHighs(bars) ==
  {[at |-> i, price |-> bars[i].high, confirmed |-> i + Width] :
     i \in {k \in Inner(bars) : \A j \in Window(k) : bars[k].high > bars[j].high}}

SwingLows(bars) ==
  {[at |-> i, price |-> bars[i].low, confirmed |-> i + Width] :
     i \in {k \in Inner(bars) : \A j \in Window(k) : bars[k].low < bars[j].low}}

ConfirmedBy(found, n) == {s \in found : s.confirmed <= n}

\* The member with exactly k later ones: found[-1 - k].
Back(found, k) ==
  CHOOSE s \in found : Cardinality({t \in found : t.at > s.at}) = k

Newest(found) == CHOOSE s \in found : \A t \in found : t.at <= s.at

-----------------------------------------------------------------------------
(* Trend *)

\* +1, -1 or 0 for the newest swing against the one Depth back.
SwingDirection(found) ==
  LET anchor == Back(found, Depth).price
      change == 100 * (Newest(found).price - anchor)
  IN CASE anchor <= 0                   -> 0
       [] change > NoiseFloor * anchor    -> 1
       [] change < -(NoiseFloor * anchor) -> -1
       [] OTHER                         -> 0

\* Price reached beyond the swing and never closed there.
AttemptFailed(bars, s, kind, n) ==
  LET after == (s.at + 1)..n
      reach(i) == IF kind = "bullish" THEN bars[i].high ELSE bars[i].low
  IN /\ \A i \in after : ~Beyond(kind, bars[i].close, s.price)
     /\ \E i \in after : Beyond(kind, reach(i), s.price)

\* Too few swings to reach the anchor is an abstention, read as ranging.
TrendState(bars, n) ==
  LET highs == ConfirmedBy(SwingHighs(bars), n)
      lows  == ConfirmedBy(SwingLows(bars), n)
      both(d) == SwingDirection(highs) = d /\ SwingDirection(lows) = d
  IN IF Cardinality(highs) <= Depth \/ Cardinality(lows) <= Depth
     THEN "ranging"
     ELSE CASE both(1)  -> IF AttemptFailed(bars, Newest(highs), "bullish", n)
                           THEN "failed_breakout" ELSE "uptrend"
            [] both(-1) -> IF AttemptFailed(bars, Newest(lows), "bearish", n)
                           THEN "failed_breakdown" ELSE "downtrend"
            [] OTHER    -> "ranging"

-----------------------------------------------------------------------------
(* Breaks of structure *)

\* The scan keeps one pending target, the newest swing known on the bar, until
\* a close goes through it; the next target is the next swing to be confirmed.
ClosesThrough(bars, targets, kind, i) ==
  LET known == ConfirmedBy(targets, i)
      level == Newest(known).price
  IN /\ known # {}
     /\ Beyond(kind, bars[i].close, level)
     /\ \A j \in Newest(known).confirmed..(i - 1) :
          ~Beyond(kind, bars[j].close, level)

\* The latest opposing swing knowable at the break, if any: {} is None.
OriginBefore(origins, i) ==
  LET eligible == {s \in ConfirmedBy(origins, i) : s.at < i}
  IN IF eligible = {} THEN {} ELSE {Newest(eligible)}

ScanBreaks(bars, targets, origins, kind) ==
  {[kind |-> kind, at |-> i, level |-> Newest(ConfirmedBy(targets, i)).price,
    origin |-> OriginBefore(origins, i)] :
     i \in {k \in 1..Len(bars) : ClosesThrough(bars, targets, kind, k)}}

AllBreaks(bars) ==
  LET highs == SwingHighs(bars)
      lows  == SwingLows(bars)
  IN ScanBreaks(bars, highs, lows, "bullish")
       \cup ScanBreaks(bars, lows, highs, "bearish")

Breaks(bars, n) == {b \in AllBreaks(bars) : b.at <= n}

-----------------------------------------------------------------------------
(* Order blocks *)

\* The bars a block may be cut from: after the move's origin, before the break,
\* closing against the break.
BlockBars(bars, bos) ==
  {i \in 1..(bos.at - 1) :
     /\ \A s \in bos.origin : s.at <= i
     /\ Beyond(bos.kind, bars[i].open, bars[i].close)}

\* The origin swing, pulled to the far edge when it lands inside the zone.
InvalidationFor(bos, top, bottom) ==
  {IF bos.kind = "bullish"
   THEN IF s.price < bottom THEN s.price ELSE bottom
   ELSE IF s.price > top THEN s.price ELSE top : s \in bos.origin}

BlockFor(bars, bos) ==
  LET cut == BlockBars(bars, bos)
      i   == CHOOSE k \in cut : \A j \in cut : j <= k
  IN [kind |-> bos.kind, at |-> i, top |-> bars[i].high, bottom |-> bars[i].low,
      bos |-> bos.at, confirmed |-> bos.at,
      invalidation |-> InvalidationFor(bos, bars[i].high, bars[i].low)]

OrderBlocks(bars, n) ==
  {b \in {BlockFor(bars, bos) : bos \in {x \in AllBreaks(bars) : BlockBars(bars, x) # {}}} :
     b.confirmed <= n}

NearEdge(block) == IF block.kind = "bullish" THEN block.top ELSE block.bottom
FarEdge(block) == IF block.kind = "bullish" THEN block.bottom ELSE block.top

\* Price is out past the far edge: a trade here would be stopped already.
TradedThrough(block, price) == Beyond(block.kind, FarEdge(block), price)

Inside(block, price) == block.bottom <= price /\ price <= block.top

\* A wick is enough to touch, a close is needed to kill.
Touches(block, bar) == bar.low <= block.top /\ bar.high >= block.bottom

Invalidated(block, bars, n) ==
  \E i \in (block.bos + 1)..n, level \in block.invalidation :
    Beyond(block.kind, level, bars[i].close)

\* The furthest price went in the break's direction, from the break to n.
ExtremeSince(bars, block, n) ==
  LET reach == {IF block.kind = "bullish" THEN bars[i].high ELSE bars[i].low :
                  i \in block.bos..n}
  IN CHOOSE x \in reach : \A y \in reach : ~Beyond(block.kind, y, x)

LiveBlocks(bars, n) == {b \in OrderBlocks(bars, n) : ~Invalidated(b, bars, n)}

=============================================================================
