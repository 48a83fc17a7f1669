----------------------------- MODULE Candidates -----------------------------
(***************************************************************************)
(* From every thesis on one instrument to the one row its sitting is        *)
(* offered (core.setups.collapse, oracle.assemble.build_candidates,         *)
(* oracle.queue.one_per_asset).  The labels that name the instrument all    *)
(* price off the same bars.                                                 *)
(***************************************************************************)
EXTENDS Setups

CONSTANTS MaxCarry   \* days a close is carried over a gap in the bars

-----------------------------------------------------------------------------
(* Prices by date (oracle.series) *)

\* The close on a day, the last known one carried for a few days.
CloseOn(bars, day) ==
  LET last == Min({day, Len(bars)})
  IN IF last < 1 \/ day - last > MaxCarry THEN {} ELSE {bars[last].close}

-----------------------------------------------------------------------------
(* Gating every thesis on every timeframe *)

Outcomes(bars, context, rows) ==
  {[thesis |-> row, timeframe |-> ZoneTimeframes[k],
    result |-> CrossReference(row, context, ZoneTimeframes[k],
                 IF row.published = Undated THEN {} ELSE CloseOn(bars, row.published))] :
     row \in rows, k \in DOMAIN ZoneTimeframes}

Passed(outcomes) == {o.result : o \in {x \in outcomes : x.result.reason = "setup"}}

\* A refusal of the thesis counts once; a refusal of a zone, once per timeframe.
Rejections(outcomes) ==
  LET refused == {o \in outcomes : o.result.reason # "setup"}
      reasons == {o.result.reason : o \in refused}
      about(o) == IF o.result.reason \in ZoneLevelReasons
                  THEN <<o.thesis.id, o.timeframe>> ELSE <<o.thesis.id>>
  IN [why \in reasons |->
        Cardinality({about(o) : o \in {x \in refused : x.result.reason = why}})]

\* The direction and day of a person's newest thesis under a label: the corpus
\* is walked in order, and a later row of the same day does not replace it.
LatestByPerson(rows, label, person) ==
  LET said == {r \in rows : r.label = label /\ r.person = person /\ r.published # Undated}
  IN {r \in said : \A q \in said : q.published < r.published
                                      \/ (q.published = r.published /\ r.id <= q.id)}

-----------------------------------------------------------------------------
(* Folding the survivors into one candidate to a zone (core.setups.collapse) *)

ZoneKey(s) ==
  [label |-> Alias[s.thesis.label], direction |-> s.thesis.direction,
   timeframe |-> s.timeframe, at |-> s.block.at, confirmed |-> s.block.confirmed]

\* The nearest level on the ladder that somebody named, if anybody did.
NearestNamed(s) ==
  LET named == {Distance(r.price, s.entry) : r \in {x \in s.levels : x.kind \notin Structural}}
  IN IF named = {} THEN {} ELSE {Min(named)}

\* A named level beats a structural one; then the smallest claim; then the
\* earliest row.
Representative(members) ==
  LET named == {s \in members : NearestNamed(s) # {}}
      claim(s) == IF named # {} THEN Min(NearestNamed(s)) ELSE Distance(s.target, s.entry)
      pool == IF named # {} THEN named ELSE members
  IN CHOOSE s \in pool : \A t \in pool :
       claim(s) < claim(t) \/ (claim(s) = claim(t) /\ s.thesis.id <= t.thesis.id)

\* One view to a person, the latest; flagged when they have since turned.
Views(members, label, direction, rows) ==
  LET people == {s.thesis.person : s \in members}
      when(p) == Max({s.thesis.published : s \in {x \in members : x.thesis.person = p}})
      turned(p) == {<<r.direction, r.published>> :
                      r \in {q \in LatestByPerson(rows, label, p) :
                               /\ q.published > when(p)
                               /\ q.direction \in DOMAIN Families
                               /\ Families[q.direction] # Families[direction]}}
  IN {[person |-> p, published |-> when(p), reversal |-> turned(p)] : p \in people}

CandidateFor(members, key, rows) ==
  LET rep       == Representative(members)
      views     == Views(members, key.label, rep.thesis.direction, rows)
      freshness == Max({s.freshness : s \in members})
  IN [key |-> key, block |-> rep.block, entry |-> rep.entry, stop |-> rep.stop,
      target |-> rep.target, source |-> rep.source, levels |-> rep.levels,
      external |-> rep.external, price |-> rep.price, approach |-> rep.approach,
      views |-> views, theses |-> {s.thesis.id : s \in members},
      aliases |-> {s.thesis.label : s \in members} \ {key.label},
      score |-> Score(rep.approach, rep.rewardRisk, AgreementSignal(Cardinality(views)),
                      freshness, rep.aligned)]

Collapse(setups, rows) ==
  {CandidateFor({s \in setups : ZoneKey(s) = key}, key, rows) : key \in {ZoneKey(s) : s \in setups}}

\* Groups by their best zone, weekly before daily inside one.
OrderedBefore(candidates, c, d) ==
  LET best(x) == Max({y.score : y \in {e \in candidates :
                        /\ e.key.label = x.key.label
                        /\ e.key.direction = x.key.direction}})
      rank(k) == CHOOSE i \in DOMAIN ZoneTimeframes : ZoneTimeframes[i] = k.timeframe
  IN \/ best(c) > best(d)
     \/ /\ best(c) = best(d)
        /\ \/ c.key.direction = "long" /\ d.key.direction = "short"
           \/ /\ c.key.direction = d.key.direction
              /\ \/ rank(c.key) < rank(d.key)
                 \/ rank(c.key) = rank(d.key) /\ c.score > d.score

\* The first row of each label is the one that is kept.
OnePerAsset(candidates) ==
  {c \in candidates : \A d \in candidates \ {c} :
     d.key.label = c.key.label => OrderedBefore(candidates, c, d)}

IsInsideZone(candidate) == candidate.approach >= 625

BuildCandidates(bars, today, rows) ==
  LET context == BuildContext(bars, today)
  IN OnePerAsset(Collapse(Passed(Outcomes(bars, context, rows)), rows))

\* The trigger pass: the candidate's own notion of arrival is the zone tag.
Trigger(bars, candidate) ==
  Detect(bars, candidate.block.kind, IsInsideZone(candidate))
=============================================================================
