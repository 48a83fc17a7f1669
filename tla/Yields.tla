------------------------------- MODULE Yields --------------------------------
(***************************************************************************)
(* Where money may be put: the safety gate (core.safety), the facts it     *)
(* reads (core.venue_facts), and what is said from it: the yields view     *)
(* (yields.scan), a review's note (review.yield_note), the treasury's      *)
(* venues (treasury.book); and one protocol beside another                 *)
(* (compare.card).  Pure operators over the store of Signals.              *)
(***************************************************************************)
EXTENDS Signals

(***************************************************************************)
(* The gate.  Facts are [slug, pool, audited, first, parents, incidents,   *)
(* apy, reward, outlier, stable].                                          *)
(***************************************************************************)
MinAgeValidatedFork == 122
MinAgeStandalone    == 274

\* Audited, and old enough: a fork of a protocol that passes inherits some of
\* its age.  `seen` is the path walked so far, so a ring of forks ends.
LineageOf(facts, passing) ==
  IF facts.parents = <<>> THEN "standalone"
  ELSE IF passing # {} THEN "validated_fork" ELSE "unresolved_parent"
RECURSIVE GateOn(_, _, _, _)
GateOn(facts, asOf, bySlug, seen) ==
  LET walked   == seen \cup {facts.slug}
      known    == (ToSet(facts.parents) \cap DOMAIN bySlug) \ walked
      lineage  == LineageOf(facts, {p \in known : GateOn(bySlug[p], asOf, bySlug, walked).passed})
      required == IF lineage = "validated_fork" THEN MinAgeValidatedFork ELSE MinAgeStandalone
      reasons  == (IF facts.audited = {TRUE} THEN {} ELSE {"audit"})
                  \cup (IF facts.first = {} THEN {"unread age"}
                        ELSE IF asOf - The(facts.first) < required THEN {"age"} ELSE {})
  IN [passed |-> reasons = {}, reasons |-> reasons, required |-> required, lineage |-> lineage]
Gate(facts, asOf, bySlug) == GateOn(facts, asOf, bySlug, {})

\* The share of a yield that is reward, as <<reward, yield>>.
Score(facts) ==
  [incentive |-> IF facts.reward # {} /\ facts.apy # {} /\ facts.apy # {0}
                 THEN {<<The(facts.reward), The(facts.apy)>>} ELSE {},
   incidents |-> facts.incidents]

LexLess(a, b) == \E i \in DOMAIN a : a[i] < b[i] /\ \A j \in 1 .. i - 1 : a[j] = b[j]
NoApy         == 1000000   \* after every yield
ApyKey(apy)   == IF apy = {} THEN NoApy ELSE -The(apy)

\* The venues that pass, best yield first; a yield called an outlier is dropped.
RankVenues(candidates, asOf, bySlug) ==
  LET key(r) == <<ApyKey(r.facts.apy), r.facts.slug, r.facts.pool>>
      fit    == SelectSeq(candidates, LAMBDA f : f.outlier # {TRUE} /\ Gate(f, asOf, bySlug).passed)
      ranked == [i \in DOMAIN fit |-> [facts |-> fit[i], gate |-> Gate(fit[i], asOf, bySlug), score |-> Score(fit[i])]]
  IN SortSeq(ranked, LAMBDA r, s : LexLess(key(r), key(s)))

(***************************************************************************)
(* The facts, from the newest reading of each kind (core.venue_facts).     *)
(***************************************************************************)
NoPool == 0
ProtocolFacts(lines) ==
  LET facts == LatestByKey(ReadStore(lines, {"defillama"}, {"venue_safety_facts"}, {}))
      ages  == LatestByKey(ReadStore(lines, {"defillama"}, {"venue_first_tvl"}, {}))
      of(k) == [slug |-> k[1], pool |-> NoPool, audited |-> facts[k].audited,
                first |-> IF k \in DOMAIN ages THEN {ages[k]} ELSE {},
                parents |-> facts[k].parents, incidents |-> {facts[k].incidents},
                apy |-> {}, reward |-> {}, outlier |-> {}, stable |-> {}]
  IN [s \in {k[1] : k \in DOMAIN facts} |-> of(<<s>>)]

UnreadFacts(slug) == [slug |-> slug, pool |-> NoPool, audited |-> {}, first |-> {}, parents |-> <<>>,
                      incidents |-> {}, apy |-> {}, reward |-> {}, outlier |-> {}, stable |-> {}]
PoolCandidates(entries, bySlug, lines) ==
  LET pools == LatestByKey(ReadStore(lines, {"defillama"}, {"venue_pool"}, {}))
      base(slug) == IF slug \in DOMAIN bySlug THEN bySlug[slug] ELSE UnreadFacts(slug)
  IN Each(entries, LAMBDA e : Each(e.pools, LAMBDA p : IF <<p>> \notin DOMAIN pools THEN <<>>
       ELSE LET v == pools[<<p>>]
            IN <<[base(e.protocol) EXCEPT !.pool = p, !.apy = v.apy, !.reward = v.reward,
                                          !.outlier = v.outlier, !.stable = v.stable]>>))

(***************************************************************************)
(* What a token held could earn (yields.scan, review.yield_note).  A       *)
(* wrapper is [asset, wrapper, contract, protocol, pools]; a position      *)
(* [asset, ticker, figi, shares], its figi a contract when positive.       *)
(***************************************************************************)
\* A wrapper is held when a position carries its contract, or, where a position
\* carries no identifier, its ticker; the first such position counts.
HeldShares(entry, positions) ==
  LET held == SelectSeq(positions, LAMBDA p :
                IF p.figi # {} THEN p.figi = {entry.contract} ELSE p.ticker = entry.wrapper)
  IN IF held = <<>> THEN {} ELSE {Head(held).shares}
Readable(positions) == \E i \in DOMAIN positions : \E f \in positions[i].figi : f > 0
\* The wrapper a pool is shown under: the last configured with it.
EntryOf(pool, entries) == Last(SelectSeq(entries, LAMBDA e : pool \in ToSet(e.pools)))

OptionOf(wrapper, facts, gate, score, held, pool) ==
  [wrapper |-> wrapper, pool |-> pool, facts |-> facts, gate |-> gate, score |-> score, held |-> held]
OptionKey(o) ==
  <<IF o.gate = {} THEN 2 ELSE IF The(o.gate).passed THEN 0 ELSE 1,
    IF o.facts = {} THEN NoApy ELSE ApyKey(The(o.facts).apy), o.wrapper, o.pool>>

\* What is not held is shown when it passes; what is held is shown whatever the
\* store has of it, and as not fetched when it has nothing.
OptionsFor(entries, positions, bySlug, lines, asOf) ==
  LET unheld == SelectSeq(entries, LAMBDA e : HeldShares(e, positions) = {})
      held   == SelectSeq(entries, LAMBDA e : HeldShares(e, positions) # {})
      ranked == RankVenues(PoolCandidates(unheld, bySlug, lines), asOf, bySlug)
      offered == [i \in DOMAIN ranked |->
        OptionOf(EntryOf(ranked[i].facts.pool, unheld).wrapper, {ranked[i].facts}, {ranked[i].gate},
                 {ranked[i].score}, {}, ranked[i].facts.pool)]
      standing(e) ==
        LET read == PoolCandidates(<<e>>, bySlug, lines)
            got  == {read[i].pool : i \in DOMAIN read}
        IN Each(read, LAMBDA f : <<OptionOf(e.wrapper, {f}, {Gate(f, asOf, bySlug)}, {Score(f)},
                                            HeldShares(e, positions), f.pool)>>)
           \o Each(e.pools, LAMBDA p : IF p \in got THEN <<>>
                     ELSE <<OptionOf(e.wrapper, {}, {}, {}, HeldShares(e, positions), p)>>)
  IN SortSeq(offered \o Each(held, standing), LAMBDA o, q : LexLess(OptionKey(o), OptionKey(q)))

SpanOf(times) == IF times = {} THEN {} ELSE {<<Max(times), Min(times)>>}
GateKinds == {"venue_safety_facts", "venue_first_tvl"}
\* Every asset held anywhere that some wrapper is configured for.
YieldsFor(books, wrappers, lines, asOf) ==
  LET bySlug       == ProtocolFacts(lines)
      positions    == FlattenSeq([i \in DOMAIN books |-> books[i].positions])
      of(asset)    == SelectSeq(positions, LAMBDA p : p.asset = asset)
      entries(asset) == SelectSeq(wrappers, LAMBDA w : w.asset = asset)
      matched      == {positions[i].asset : i \in DOMAIN positions} \cap {wrappers[i].asset : i \in DOMAIN wrappers}
      options(asset) == OptionsFor(entries(asset), of(asset), bySlug, lines, asOf)
      shown        == ByName({a \in matched : options(a) # <<>>})
      pools        == UNION {ToSet(wrappers[i].pools) : i \in {i \in DOMAIN wrappers : wrappers[i].asset \in matched}}
      read         == ReadStore(lines, {"defillama"}, GateKinds, {})
                      \o ReadStore(lines, {"defillama"}, {"venue_pool"}, {<<p>> : p \in pools} \cup {<<>>})
  IN [assets |-> [i \in DOMAIN shown |->
        [asset    |-> shown[i],
         mandates |-> {books[b].mandate : b \in {b \in DOMAIN books :
                         \E j \in DOMAIN books[b].positions : books[b].positions[j].asset = shown[i]}},
         readable |-> Readable(of(shown[i])),
         options  |-> options(shown[i])]],
      span       |-> IF wrappers = <<>> THEN {} ELSE SpanOf({read[i].at : i \in DOMAIN read}),
      configured |-> Len(wrappers),
      matched    |-> Cardinality({i \in DOMAIN wrappers : wrappers[i].asset \in matched})]

\* A review's note, for a book that can say what it holds: the best venue that
\* passes among the wrappers not held, beside the largest holding of the asset.
LargestHolding(readings, assets, asset) ==
  LET mine == {i \in DOMAIN readings : assets[i] = asset}
      worth(i) == IF readings[i].value = {} THEN 0 ELSE The(readings[i].value)
      \* the first stands unless a later one beats it
      beats(i, j) == worth(i) > worth(j) \/ (worth(i) = worth(j) /\ readings[i].ticker < readings[j].ticker)
  IN CHOOSE i \in mine : \A j \in mine \ {i} : beats(i, j) \/ (~beats(j, i) /\ i < j)
NoteFor(asset, readings, assets, positions, wrappers, bySlug, lines, asOf) ==
  LET mine   == SelectSeq(wrappers, LAMBDA w : w.asset = asset)
      unheld == SelectSeq(mine, LAMBDA e : HeldShares(e, positions) = {})
      ranked == RankVenues(PoolCandidates(unheld, bySlug, lines), asOf, bySlug)
      entry  == EntryOf(Head(ranked).facts.pool, unheld)
  IN IF ranked = <<>> THEN {}
     ELSE {[reading |-> LargestHolding(readings, assets, asset), wrapper |-> entry.wrapper,
            protocol |-> entry.protocol, apy |-> Head(ranked).facts.apy, gate |-> Head(ranked).gate,
            already |-> {<<mine[i].wrapper, The(HeldShares(mine[i], positions))>> :
                           i \in {i \in DOMAIN mine : HeldShares(mine[i], positions) # {}}}]}
YieldNotes(readings, assets, positions, wrappers, lines, asOf) ==
  LET bySlug == ProtocolFacts(lines)
      asked  == {assets[i] : i \in DOMAIN assets} \cap {wrappers[i].asset : i \in DOMAIN wrappers}
  IN IF ~Readable(positions) THEN {}
     ELSE UNION {NoteFor(a, readings, assets, positions, wrappers, bySlug, lines, asOf) : a \in asked}

(***************************************************************************)
(* The venues money is parked at (treasury.book).                          *)
(***************************************************************************)
RowSafety(rows, venues, bySlug, asOf) ==
  LET entries(v) == SelectSeq(venues, LAMBDA e : e.venue = v)
  IN [v \in {rows[i].venue : i \in DOMAIN rows} |->
        IF entries(v) = <<>> THEN [state |-> "unconfigured", gate |-> {}]
        ELSE LET slug == Last(entries(v)).protocol
             IN IF slug \notin DOMAIN bySlug THEN [state |-> "not_fetched", gate |-> {}]
                ELSE [state |-> "read", gate |-> {Gate(bySlug[slug], asOf, bySlug)}]]
\* Where else stable money could stand.
Advice(venues, lines, asOf) ==
  LET bySlug == ProtocolFacts(lines)
  IN RankVenues(SelectSeq(PoolCandidates(venues, bySlug, lines), LAMBDA f : f.stable = {TRUE}), asOf, bySlug)
=============================================================================
