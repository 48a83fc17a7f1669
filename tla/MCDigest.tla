------------------------------- MODULE MCDigest -------------------------------
(***************************************************************************)
(* The digest over three days of three videos, and what each of its        *)
(* sections says of every small input.                                     *)
(***************************************************************************)
EXTENDS Digest

MCCanonical(asset) == IF asset = "Gold" THEN "GOLD" ELSE asset
MCStaleAfter == [swing |-> 2]
View(id, asset, lean, published, ref) ==
  [id |-> id, person |-> "ann", asset |-> asset, horizon |-> "swing", lean |-> lean,
   published |-> published, ref |-> ref]
\* One person's view before all windows, then a change of mind and another.
MCStances ==
  {View(1, "GOLD", "bullish", 1, "v1"), View(2, "Gold", "bearish", 5, "v2"),
   View(3, "GOLD", "bullish", 6, "v3")}

UpTo(n, S) == UNION {[1 .. k -> S] : k \in 0 .. n}
Maybe(S) == {{}} \cup {{x} : x \in S}

-----------------------------------------------------------------------------
(* The queue. *)
QueueRow(key, asset, trigger) == [key |-> key, asset |-> asset, direction |-> "long", trigger |-> trigger]
\* A key names a candidate, and a candidate's asset does not change.
AssetOf(key) == IF key = "k4" THEN "y" ELSE "x"
Queues == {{QueueRow(k, AssetOf(k), f[k]) : k \in DOMAIN f} :
             f \in UNION {[K -> Maybe({"no_zone_tag", "no_trigger", "fired"})] : K \in SUBSET {"k1", "k2", "k3", "k4"}}}
Snapshot(rows) == [rows |-> rows, run |-> {5}, refused |-> <<>>, filters |-> "f", scored |-> 1]
Deciding == {[k \in D |-> [at |-> {at}]] : D \in SUBSET {"k1", "k4"}, at \in {5, 6}}

\* Every row that came or went is told once: as an entry, a departure, or one
\* half of a zone that moved, and a zone moves only within one asset and only
\* when nothing else explains the departure (digest.diff.compare).
ASSUME EveryRowIsToldOnce ==
  \A before, after \in {q \in Queues : \A r \in q : r.trigger = {}} : \A decided \in Deciding : \A excluded \in SUBSET {"y"} :
    LET delta == Compare({Snapshot(before)}, Snapshot(after), decided, excluded)
        gone  == {d.row : d \in delta.departed}
        was   == {z.was : z \in delta.rolled}
        now   == {z.now : z \in delta.rolled}
    IN /\ gone \cup was = Missing(before, after) /\ gone \cap was = {}
       /\ delta.entered \cup now = Missing(after, before) /\ delta.entered \cap now = {}
       /\ Cardinality(was) = Cardinality(now) /\ Cardinality(was) = Cardinality(delta.rolled)
       /\ \A z \in delta.rolled : /\ z.was.asset = z.now.asset /\ z.was.asset \notin excluded
                                  /\ \A r \in Missing(after, before) : r.asset = z.now.asset => r = z.now
                                  /\ z.was.key \in DOMAIN decided => decided[z.was.key].at = {5}

\* A row arrives by what was read of it both nights: a trigger nobody looked for
\* before says nothing of a row that stood (digest.diff._trigger_transitions).
ASSUME ArrivalsWereWatched ==
  \A before, after \in {q \in Queues : Cardinality(q) <= 2} :
    LET arrived == Arrivals(before, after)
        unread  == {r \in after : r.trigger = {} \/ \E p \in before : p.key = r.key /\ p.trigger = {}}
    IN /\ (arrived.triggered \cup arrived.tagged) \cap unread = {}
       /\ arrived.triggered \cap arrived.tagged = {}
       /\ arrived.tagged \subseteq {r \in after : r \notin Missing(after, before)}

\* The night compared with is the newest of an earlier day, so a day of runs by
\* hand is not compared with itself, nor with a day that has not been
\* (digest.diff.previous_nightly).
ASSUME LastNightIsEarlier ==
  \A days \in UpTo(4, Maybe({1, 2, 3})) :
    LET runs == [i \in DOMAIN days |-> [asOf |-> days[i], n |-> i]]
        night == PreviousNightly(runs)
        before == {i \in DOMAIN days : \E d \in days[i], t \in Last(days) : d < t}
    IN days # <<>> => /\ night = {} <=> before = {}
                      /\ \A s \in night : s.n \in before /\ \A i \in before : i <= s.n

-----------------------------------------------------------------------------
(* The book. *)
Event(key, at, outcome, filled) ==
  [key |-> key, at |-> at, outcome |-> outcome, failed |-> FALSE, filled |-> filled,
   asset |-> {"x"}, direction |-> {"long"}, price |-> IF filled = {} THEN {} ELSE {10}]
Events == {Event("k1", at, "reconciled", f) : at \in Maybe({1, 2}), f \in Maybe({0, 3, 4})}
            \cup {Event("k1", {1}, "accepted", {})}

\* What is told is the newest of what happened, what is not told is counted, and
\* a reconciliation that found nothing is neither (digest.book.book_lines).
ASSUME NewestAreShown ==
  \A events \in UpTo(4, Events) :
    LET lines == BookLines(events)
        happened == {i \in DOMAIN events : IsEvent(events[i])}
        at(e) == IF e.at = {} THEN 0 ELSE Single(e.at)
    IN /\ Len(lines.shown) + lines.dropped = Cardinality(happened)
       /\ Len(lines.shown) <= BookLimit
       /\ \A i, j \in DOMAIN lines.shown : i < j => at(lines.shown[i]) <= at(lines.shown[j])
       /\ lines.shown # <<>> => \A i \in happened :
            at(events[i]) > at(Head(lines.shown)) => \E j \in DOMAIN lines.shown : lines.shown[j] = events[i]

\* The log is append-only and stamped in order, so what a position holds is what
\* its last fill said, though rows without one follow (digest.book.holdings).
ASSUME LastFillIsHeld ==
  \A events \in UpTo(4, {e \in Events : e.at # {}}) :
    LET fills == {i \in DOMAIN events : events[i].outcome = "reconciled" /\ events[i].filled # {}}
        sorted == \A i, j \in DOMAIN events : i < j => Single(events[i].at) <= Single(events[j].at)
    IN sorted => HoldingOf(events, "k1").qty = IF fills = {} THEN {} ELSE events[Max(fills)].filled

\* The gain is that of the positions it says it covers (digest.book.totals).
Held(direction, price, qty) == [asset |-> {"x"}, direction |-> {direction}, price |-> price, qty |-> qty]
ASSUME GainCountsWhatItPrices ==
  \A holding \in SUBSET {Held(d, p, {2}) : d \in {"long", "short"}, p \in Maybe({10, 12})} : \A priced \in BOOLEAN :
    LET all == Totals(holding, IF priced THEN [x |-> 11] ELSE <<>>)
        worth(h) == IF h.price = {} THEN 0
                    ELSE 2 * (IF h.direction = {"long"} THEN 11 - Single(h.price) ELSE Single(h.price) - 11)
    IN /\ all.unpriced = Cardinality({h \in holding : ~priced \/ h.price = {}})
       /\ all.gain = IF all.unpriced = Cardinality(holding) THEN {} ELSE {MapThenSumSet(worth, holding)}

-----------------------------------------------------------------------------
(* The people, their videos, the portfolios. *)
\* What is told is remembered from the first day it was told on, for as long as
\* it was to be (digest.roster.remember).
ASSUME FirstTellingIsRemembered ==
  \A seen \in UNION {[E -> 1 .. 3] : E \in SUBSET {"a", "b"}} : \A said \in SUBSET {"a", "b", "c"} : \A days \in 1 .. 4 :
    LET next == Remember(seen, said, 4, days)
    IN /\ said \subseteq DOMAIN next
       /\ \A e \in DOMAIN next : next[e] = IF e \in DOMAIN seen /\ seen[e] > 4 - days THEN seen[e] ELSE 4
       /\ \A e \in DOMAIN seen : seen[e] > 4 - days => e \in DOMAIN next

\* A change of mind is news while it is recent: nobody flips, or is a new voice,
\* by a view older than the window (digest.roster.moved).
Views(S) == {View(n, a, l, p, "v") : n \in S, a \in {"GOLD", "Gold"}, l \in {"bullish", "bearish"}, p \in {0, 1, 3, 4}}
Roll == {<<a, b, c>> : a \in Views({1}), b \in Views({2}), c \in Views({3})}
ASSUME OnlyRecentMoves ==
  \A r \in Roll :
    LET all == {r[1], r[2], r[3]}
        events == Moved(all, {"GOLD"}, 4)
    IN /\ events # {} => \E s \in all : s.published > 4 - RosterWindow
       /\ \A e \in events : e.kind = "voice" => \A s \in all : s.published \notin 1 .. (4 - RosterWindow)
       /\ Moved(all, {"SILVER"}, 4) = {}

\* Each asset of a video is graded once, a change of mind before a repeat, and
\* a video nobody has distilled is shown until somebody does (digest.views).
Said(asset, lean, conviction) == [asset |-> asset, lean |-> lean, conviction |-> conviction]
SaidSets == SUBSET {Said(a, l, c) : a \in {"x", "y"}, l \in {"bullish", "bearish"}, c \in {"low", "high"}}
Priors(said, leans) == [s \in said |-> {Said("x", l, "high") : l \in leans}]
ASSUME ChangeOfMindIsNotHeld ==
  \A said \in SaidSets : \A leans \in SUBSET {"bullish", "bearish"} :
    LET news(a) == UNION {IF a \in InBucket(said, Priors(said, leans), b) THEN {b} ELSE {} : b \in {"bullish", "bearish", "Punts", "Unsure"}}
        of(a)  == {s \in said : s.asset = a}
    IN \A a \in {"x", "y"} :
         /\ news(a) = {} <=> \A s \in of(a) : Status(s, Priors(said, leans)) = "held"
         /\ \A s, t \in of(a) : s \in Graded(said, Priors(said, leans)) /\ t \in Graded(said, Priors(said, leans))
              => Status(s, Priors(said, leans)) = Status(t, Priors(said, leans))
ASSUME UndistilledIsShown ==
  \A refs \in SUBSET {"v1", "v2", "v3"} : \A reported \in SUBSET {"v1", "v2", "v3"} : \A files \in SUBSET {"v1"} :
    LET cards == {[ref |-> r, published |-> 4] : r \in refs}
        spoken == {View(1, "GOLD", "bullish", 4, "v2")}
        all == Videos(cards, spoken, files, 5, ScanDays)
    IN /\ {v.ref : v \in all} = refs \cup {"v2"} /\ Cardinality(all) = Cardinality(refs \cup {"v2"})
       /\ {v.ref : v \in Shown(all, reported)} = {v.ref : v \in {v \in all : v.ref \notin reported \/ v.ref \in refs \ (files \cup {"v2"})}}

\* A night that repeats the last one says nothing of the portfolios or of the
\* treasury (digest.holdings.delta, digest.treasury.delta).
Verdicts4 == {"add", "trim", "hold", "wait"}
ASSUME SameNightIsQuiet ==
  \A readings \in [{"x", "y"} -> Verdicts4] : \A levels \in UNION {[L -> {1, 2}] : L \in SUBSET {"x", "y"}} :
    LET delta == HoldingsDelta(readings, readings, levels, {levels})
    IN delta.changed = {} /\ delta.arrived = {} /\ delta.left = {}
ASSUME AdviceIsNewOnce ==
  \A first, second \in SUBSET {"a", "b"} : \A fresh, idle \in BOOLEAN :
    LET kept == TreasuryMemory(first, [a \in second |-> "told"], fresh)
    IN /\ fresh => TreasuryDelta(first, kept, idle).new = {}
       /\ ~fresh => kept = [a \in second |-> "told"]
       /\ ~idle => TreasuryDelta(first, kept, idle).new = {}
=============================================================================
