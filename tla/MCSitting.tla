----------------------------- MODULE MCSitting -----------------------------
(* Three candidates for two places: a short quoted at both venues, a long  *)
(* quoted only as a perpetual, and one that also goes by the first's name  *)
(* and that nobody quotes.                                                 *)
EXTENDS Sitting

MCPop == <<"ore", "coin", "mine">>

Candidate(asset, aliases, direction, entry, stop, score) ==
  [asset |-> asset, aliases |-> aliases, direction |-> direction,
   entry |-> entry, stop |-> stop, score |-> score]

MCAbout ==
  [ore  |-> Candidate("ORE", {}, "short", 100, 105, 6),
   coin |-> Candidate("COIN", {}, "long", 100, 90, 9),
   mine |-> Candidate("MINE", {"ORE"}, "long", 50, 45, 4)]

MCRouter ==
  [listed  |-> {"ORE"},
   cohort  |-> [ORE |-> <<600, -100>>, FUND |-> <<100, 100>>],
   outlook |-> [ORE |-> [median |-> -300], COIN |-> [median |-> 200]]]

MCDraws == {[i \in 1 .. 2 |-> r] : r \in 0 .. 1}

(***************************************************************************)
(* The pure parts against what they promise, over every small input.       *)
(***************************************************************************)
\* k <= n strata are non-empty, disjoint and between them all of the n ranks.
ASSUME StrataPartition ==
  \A n \in 1 .. 12 : \A k \in 1 .. n :
    LET strata == Strata(n, k)
    IN /\ UNION Range(strata) = 0 .. n - 1
       /\ \A i \in 1 .. k :
            Cardinality(strata[i]) \in {n \div k, n \div k + 1}

\* A capped queue is exactly as long as its cap, holds the best score, and no
\* two of its tail come from one stratum.
ASSUME QueueIsFull ==
  \A score \in [1 .. 5 -> 1 .. 3] : \A limit \in 2 .. 4 : \A r \in 0 .. 2 :
    LET queue == BuildQueue(1 .. 5, score, limit, TRUE, [i \in 1 .. limit |-> r]).rows
    IN /\ Cardinality(DOMAIN queue) = limit
       /\ \E p \in DOMAIN queue :
            queue[p] = "head" /\ \A k \in 1 .. 5 : score[p] >= score[k]
       /\ \A i \in 1 .. limit - HeadSize :
            Cardinality({p \in DOMAIN queue : Rank(p, 1 .. 5, score) - HeadSize
                                                \in Strata(5 - HeadSize, limit - HeadSize)[i]}) = 1

Prices == {<<>>} \cup [{"carry"} -> {-20, 5, 12}]
AlpacaQuotes == [venue : {"alpaca"}, cost : {<<>>} \cup [{"gap"} -> {0, 5, 30}],
                 borrowed : {{}, {"gap"}}]
PerpQuotes   == [venue : {"hyperliquid"}, cost : Prices, borrowed : {{}}]
SpotQuotes   == [venue : {"kraken"}, cost : {[fee |-> 8], [crossing |-> 1, fee |-> 8]},
                 borrowed : {{}}]
Boards == {{a, h, k} : a \in AlpacaQuotes, h \in PerpQuotes, k \in SpotQuotes}

\* Every venue is ranked or refused and never both, the winner is the cheapest
\* of what may take the side, and a venue nobody priced never wins for being free.
ASSUME GatesThenCost ==
  \A board \in Boards : \A side \in Sides : \A short \in {"yes", "no", "unknown"} :
    LET d == Decide(side, board, short)
        ranked == {q.venue : q \in ToSet(d.ranked)}
        refused == {q.venue : q \in d.refused}
    IN /\ ranked \cap refused = {} /\ ranked \cup refused = {q.venue : q \in board}
       /\ \A q \in ToSet(d.ranked) : Cost(d.ranked[1]) <= Cost(q) /\ Priced(q) # {}
       /\ side = "short" => "kraken" \notin ranked
       /\ side = "short" /\ short # "yes" => "alpaca" \notin ranked

\* The module's docstring says that evidence breaks a near-tie.  It breaks only
\* an exact one: here 4 basis points beat a fully measured quote, and the
\* reported reason is evidence.
ASSUME NearTieGoesToCost ==
  \E board \in Boards :
    LET d == Decide("long", board, "yes")
    IN /\ Len(d.ranked) >= 2
       /\ Cost(d.ranked[2]) - Cost(d.ranked[1]) \in 1 .. NoiseFloor - 1
       /\ Evidence(d.ranked[1]) > Evidence(d.ranked[2])
       /\ d.tieBreak = "evidence"

\* Two dexs that list one ticker share an outlook: the listing's own dex paid 10,
\* the asset is costed at the middle of both.
FundingRow(dex, annual) ==
  [venue |-> "hyperliquid", dex |-> dex, symbol |-> "NVDA", day |-> 1, annual |-> annual]
ASSUME OutlookMixesDexs ==
  LET nvda == [NVDA |-> [dex |-> "xyz", symbol |-> "NVDA"]]
      log  == <<FundingRow("xyz", 10), FundingRow("other", 90)>>
  IN OutlooksFor(log, nvda, "hyperliquid", 0)["NVDA"].median = 50

\* A shrunk estimate lies between the asset's own and the pool's (to the unit),
\* and what a long pays a short is paid.
ASSUME EstimatesAreBetween ==
  \A own, pool \in 0 .. 6 : \A n \in 0 .. 5 :
    LET low == Min({own, pool}) high == Max({own, pool})
    IN Shrink(own, n, pool) \in low .. high
ASSUME CarryIsATransfer ==
  \A annual \in -500 .. 500 : \A days \in 0 .. 30 :
    CarryCost(annual, days, "long") + CarryCost(annual, days, "short") = 0

\* An asset never leans on itself: its own gaps move its cost by its own weight only.
ASSUME OnlyGapAloneIsOwn ==
  LET alone == [MCRouter EXCEPT !.cohort = [ORE |-> <<600, -100>>]]
  IN GapCost(alone, "ORE", 500, "short").borrowed = FALSE
=============================================================================
