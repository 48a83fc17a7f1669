---------------------------- MODULE VenueRouting ----------------------------
(***************************************************************************)
(* Which venue a trade should go to: core.gaps and core.funding price the  *)
(* overnight gap and the carry of one hold, core.routing ranks the venues  *)
(* on the sum, oracle.venue_routing puts the three together for a          *)
(* candidate.  Pure operators.                                             *)
(*                                                                         *)
(* Money is a whole number of basis points of notional.  A term nobody has *)
(* measured is absent from a quote's cost, which is not a cost of zero.    *)
(* Means of several numbers are rounded down to the unit.                  *)
(***************************************************************************)
EXTENDS Integers, Sequences, FiniteSetsExt, SequencesExt

CONSTANTS HoldDays,       \* how long a trade is held
          ShrinkSessions  \* sessions of its own an asset needs to outweigh the pool

ASSUME RoutingConstants == HoldDays \in Nat /\ ShrinkSessions \in Nat \ {0}

Sides == {"long", "short"}

(***************************************************************************)
(* Overnight gaps.                                                         *)
(***************************************************************************)
Unit == 10000  \* basis points in one

\* From one close to the next open; a pair with no usable close is no gap.
OvernightGaps(bars) ==
  LET usable == SelectSeq([i \in 1 .. Len(bars) - 1 |-> i],
                          LAMBDA i : bars[i].close > 0)
  IN [j \in 1 .. Len(usable) |->
        LET i == usable[j]
        IN ((bars[i + 1].open - bars[i].close) * Unit) \div bars[i].close]

\* How often a gap jumped past the stop, and by how much in the mean session.
AdverseExcess(gaps, stop, side) ==
  LET hurts  == IF side = "long" THEN -1 ELSE 1
      excess == [i \in DOMAIN gaps |-> gaps[i] * hurts - stop]
      past   == {i \in DOMAIN gaps : excess[i] > 0}
  IN [past |-> Cardinality(past),
      mean |-> IF gaps = <<>> THEN 0
               ELSE MapThenSumSet(LAMBDA i : excess[i], past) \div Len(gaps)]

Nothing == [kind |-> "none"]

\* The cohort's mean asset, each asset counting once however long its history.
Pooled(cohort, stop, side) ==
  LET heard == {a \in DOMAIN cohort : cohort[a] # <<>>}
      own   == [a \in heard |-> AdverseExcess(cohort[a], stop, side)]
      n     == Cardinality(heard)
  IN IF heard = {} THEN Nothing
     ELSE [kind   |-> "pool",
           excess |-> MapThenSumSet(LAMBDA a : own[a].mean, heard) \div n,
           rate   |-> MapThenSumSet(LAMBDA a : (own[a].past * Unit)
                                                 \div Len(cohort[a]), heard) \div n,
           assets |-> n]

Shrink(own, n, pool) == (n * own + ShrinkSessions * pool) \div (n + ShrinkSessions)

\* An asset's own gaps, leaning on the pool for the sessions it lacks.
MeasureFromGaps(gaps, stop, side, pool) ==
  LET own     == AdverseExcess(gaps, stop, side)
      n       == Len(gaps)
      ownRate == IF n = 0 THEN 0 ELSE (own.past * Unit) \div n
  IN CASE gaps = <<>> /\ pool = Nothing -> Nothing
       [] gaps # <<>> /\ pool = Nothing ->
            [kind |-> "gap", sessions |-> n, past |-> own.past,
             excess |-> own.mean, rate |-> ownRate, borrowed |-> FALSE]
       [] pool # Nothing ->
            [kind |-> "gap", sessions |-> n, past |-> own.past,
             excess |-> Shrink(own.mean, n, pool.excess),
             rate |-> Shrink(ownRate, n, pool.rate),
             borrowed |-> 2 * ShrinkSessions > n + ShrinkSessions]

Over(gapCost, days) == gapCost.excess * days

(***************************************************************************)
(* Carry: what holding a perpetual costs.  A short is paid what a long     *)
(* pays.                                                                   *)
(***************************************************************************)
CarryCost(annual, days, side) ==
  LET cost == (annual * days) \div 365
  IN IF side = "long" THEN cost ELSE -cost

\* Reward and risk once the carry is paid out of the one and into the other.
CarryAdjusted(reward, risk, annual, days, side) ==
  LET carry     == CarryCost(annual, days, side)
      netReward == reward - carry
      netRisk   == risk + carry
  IN [reward |-> netReward, risk |-> netRisk, hasRatio |-> netRisk > 0,
      dominated |-> netRisk <= 0 \/ netReward <= 0]

\* Nearest rank, with Python's round: a half goes to the even index.
Percentile(sorted, tenths) ==
  LET scaled == tenths * (Len(sorted) - 1)
      low    == scaled \div 10
      part   == scaled % 10
      nearest == IF part > 5 \/ (part = 5 /\ low % 2 = 1) THEN low + 1 ELSE low
  IN sorted[nearest + 1]

Median(sorted) ==
  LET n == Len(sorted)
  IN IF n % 2 = 1 THEN sorted[(n + 1) \div 2]
     ELSE (sorted[n \div 2] + sorted[n \div 2 + 1]) \div 2

Summarize(rates) ==
  LET sorted == SortSeq(rates, <)
  IN IF rates = <<>> THEN Nothing
     ELSE [kind |-> "funding", n |-> Len(rates), median |-> Median(sorted),
           p10 |-> Percentile(sorted, 1), p90 |-> Percentile(sorted, 9)]

(***************************************************************************)
(* Quotes.  The terms of a venue are the costs that exist there at all.    *)
(***************************************************************************)
Terms == [alpaca      |-> {"gap", "crossing"},
          hyperliquid |-> {"carry", "crossing"},
          kraken      |-> {"crossing", "fee"}]

LongOnly      == {"kraken"}
NoiseFloor    == 10
TiePreference == [alpaca |-> 1, kraken |-> 2, hyperliquid |-> 3]

\* A quote naming a term its venue does not have is refused, not trimmed.
QuoteStands(venue, named, borrowed) ==
  venue \in DOMAIN Terms /\ named \subseteq Terms[venue] /\ borrowed \subseteq Terms[venue]

Priced(q)   == DOMAIN q.cost
Unpriced(q) == Terms[q.venue] \ Priced(q)

\* A lower bound while a term is unpriced.
Cost(q) == MapThenSumSet(LAMBDA t : q.cost[t], Priced(q))

\* Lower is better evidenced; a missing number weighs more than a pooled one.
Evidence(q) == 2 * Cardinality(Unpriced(q)) + Cardinality(q.borrowed \cap Priced(q))

DirectionRefusal(venue, direction, canShort) ==
  CASE direction = "long"   -> "none"
    [] direction # "long" /\ venue \in LongOnly -> "long_only"
    [] direction # "long" /\ venue = "alpaca" /\ canShort = "no" -> "cannot_short"
    [] direction # "long" /\ venue = "alpaca" /\ canShort = "unknown" -> "short_unknown"
    [] OTHER -> "none"

Refusal(q, direction, canShort) ==
  LET blocked == DirectionRefusal(q.venue, direction, canShort)
  IN IF blocked = "none" /\ Priced(q) = {} THEN "unpriced" ELSE blocked

\* Cost, then evidence, then taste: one key, compared exactly.
Before(p, q) ==
  \/ Cost(p) < Cost(q)
  \/ Cost(p) = Cost(q) /\ Evidence(p) < Evidence(q)
  \/ /\ Cost(p) = Cost(q) /\ Evidence(p) = Evidence(q)
     /\ TiePreference[p.venue] < TiePreference[q.venue]

\* Which rule is reported to have chosen the first of the ranking.
TieBreak(ranked) ==
  IF Len(ranked) < 2 THEN "none"
  ELSE LET winner == ranked[1] second == ranked[2]
       IN CASE Cost(second) - Cost(winner) >= NoiseFloor -> "none"
            [] Cost(second) - Cost(winner) < NoiseFloor
                 /\ Evidence(winner) # Evidence(second) -> "evidence"
            [] OTHER -> "preference"

\* Capability gates, then cost ranks.  quotes holds at most one a venue.
Decide(direction, quotes, canShort) ==
  LET allowed == {q \in quotes : Refusal(q, direction, canShort) = "none"}
      ranked  == SetToSortSeq(allowed, Before)
  IN [ranked   |-> ranked,
      refused  |-> {[venue |-> q.venue, reason |-> Refusal(q, direction, canShort)] :
                      q \in quotes \ allowed},
      tieBreak |-> TieBreak(ranked)]

Winner(decision) ==
  IF decision.ranked = <<>> THEN "none" ELSE decision.ranked[1].venue

\* A margin is believed when it is large and the winner is no thinner evidenced.
Decisive(decision) ==
  CASE decision.ranked = <<>>    -> FALSE
    [] Len(decision.ranked) = 1  -> TRUE
    [] Len(decision.ranked) >= 2 ->
         /\ Cost(decision.ranked[2]) - Cost(decision.ranked[1]) >= NoiseFloor
         /\ Evidence(decision.ranked[1]) <= Evidence(decision.ranked[2])

(***************************************************************************)
(* The funding log, one row per market and settlement: the dex and the     *)
(* bare ticker of a market are filed apart, so the listing "xyz:NVDA" is   *)
(* [dex |-> "xyz", symbol |-> "NVDA"] on both sides of the join.           *)
(***************************************************************************)
\* Every readable row from the given day on, the first of each settlement only.
ReadFunding(rows, since) ==
  LET settlement(r) == <<r.venue, r.dex, r.symbol, r.day>>
      fresh(i) == /\ rows[i].day >= since
                  /\ \A j \in 1 .. i - 1 : settlement(rows[j]) # settlement(rows[i])
      kept == SelectSeq([i \in DOMAIN rows |-> i], fresh)
  IN [n \in DOMAIN kept |-> rows[kept[n]]]

\* What holding each listed asset cost: rows are joined on the bare ticker, and
\* the dex of a row is folded into its venue first.
OutlooksFor(rows, listing, venue, since) ==
  LET stored == ReadFunding(rows, since)
      rates(a) == LET mine == SelectSeq(stored, LAMBDA r :
                                r.venue = venue /\ r.symbol = listing[a].symbol)
                  IN [n \in DOMAIN mine |-> mine[n].annual]
  IN [a \in {b \in DOMAIN listing : rates(b) # <<>>} |-> Summarize(rates(a))]

\* Mapped, polled beside markets of its own dex that reported, and silent.
Dormant(rows, listing, asset, venue, since) ==
  LET stored == ReadFunding(rows, since)
      cohort == {stored[n].symbol : n \in {m \in DOMAIN stored :
                   stored[m].venue = venue /\ stored[m].dex = listing[asset].dex}}
  IN /\ asset \in DOMAIN listing
     /\ cohort # {} /\ listing[asset].symbol \notin cohort

(***************************************************************************)
(* The router of a run: the gaps of every listed asset, and the funding    *)
(* outlook of every asset of the queue that has one.                       *)
(***************************************************************************)
StopDistance(c) ==
  IF c.entry = 0 THEN -1
  ELSE ((IF c.entry > c.stop THEN c.entry - c.stop ELSE c.stop - c.entry) * Unit)
         \div c.entry

\* The pool an asset leans on never holds the asset itself.
GapCost(router, asset, stop, side) ==
  LET others == [a \in DOMAIN router.cohort \ {asset} |-> router.cohort[a]]
      own    == IF asset \in DOMAIN router.cohort THEN router.cohort[asset] ELSE <<>>
  IN IF stop < 0 THEN Nothing
     ELSE MeasureFromGaps(own, stop, side, Pooled(others, stop, side))

AlpacaQuote(router, c) ==
  LET cost == GapCost(router, c.asset, StopDistance(c), c.direction)
  IN [venue    |-> "alpaca",
      cost     |-> IF cost = Nothing THEN <<>> ELSE [gap |-> Over(cost, HoldDays)],
      borrowed |-> IF cost # Nothing /\ cost.borrowed THEN {"gap"} ELSE {}]

HyperliquidQuote(router, c) ==
  [venue    |-> "hyperliquid",
   cost     |-> [carry |-> CarryCost(router.outlook[c.asset].median, HoldDays, c.direction)],
   borrowed |-> {}]

QuotesFor(router, c) ==
  {AlpacaQuote(router, c) : a \in {c.asset} \cap router.listed}
    \cup {HyperliquidQuote(router, c) : a \in {c.asset} \cap DOMAIN router.outlook}

CandidateVenues(router, candidates) ==
  UNION {{q.venue : q \in QuotesFor(router, c)} : c \in candidates}

Route(router, c, canShort) == Decide(c.direction, QuotesFor(router, c), canShort)
=============================================================================
