------------------------------ MODULE Overnight ------------------------------
(***************************************************************************)
(* What the morning digest says: digest.diff (the queue), digest.book (the *)
(* orders), digest.roster (the people), digest.views (their videos),       *)
(* digest.holdings and digest.treasury.  Each section compares the state   *)
(* tonight with a snapshot, or with what earlier digests were remembered   *)
(* to have said.  Pure operators.                                          *)
(*                                                                         *)
(* A day, an instant and a price are numbers.  A value that may be missing *)
(* is a set of at most one.                                                *)
(***************************************************************************)
EXTENDS Passages

CONSTANTS
  RosterWindow, RosterMemory,  \* days a change of mind is news; is remembered
  BackfillSpan, BackfillMin,   \* extractions further apart than this are a backfill
  ScanDays, FirstDays,         \* days of videos looked at; at the first digest
  ViewMemory,                  \* days a video told of is remembered
  BookLimit                    \* order events shown

Single(s) == CHOOSE x \in s : TRUE

(***************************************************************************)
(* The queue against last night's (digest.diff).  A row is [key, asset,    *)
(* direction, trigger].                                                    *)
(***************************************************************************)
Live == {"no_trigger", "armed", "fired"}
Firing == {"armed", "fired"}

\* The last snapshot of a day before the newest one's.
PreviousNightly(snapshots) ==
  LET earlier == {i \in 1 .. Len(snapshots) - 1 :
                    \E day \in snapshots[i].asOf, today \in Last(snapshots).asOf : day < today}
  IN IF earlier = {} THEN {} ELSE {snapshots[Max(earlier)]}

Slot(row) == <<row.asset, row.direction>>
Missing(rows, others) == {r \in rows : \A o \in others : o.key # r.key}

\* Why a row is gone, as far as it can be known.
Departed(row, decided, excluded, since) ==
  IF /\ row.key \in DOMAIN decided
     /\ \E boundary \in since, at \in decided[row.key].at : at > boundary
  THEN "decided"
  ELSE IF row.asset \in excluded THEN "excluded" ELSE "unknown"

\* One unexplained departure and one entry in a slot are a zone that moved.
Rolls(entered, unexplained) ==
  LET in(rows, row) == {r \in rows : Slot(r) = Slot(row)}
  IN {[was |-> gone, now |-> Single(in(entered, gone))] :
        gone \in {g \in unexplained : /\ Cardinality(in(entered, g)) = 1
                                      /\ Cardinality(in(unexplained, g)) = 1}}

\* Price reached the zone, or the setup broke and displaced; a trigger nobody
\* looked for the night before, or tonight, says nothing.
Arrivals(before, after) ==
  LET was(r) == UNION {p.trigger : p \in {p \in before : p.key = r.key}}
      read   == {r \in after : r.trigger # {} /\ (was(r) # {} \/ r \in Missing(after, before))}
  IN [triggered |-> {r \in read : r.trigger \subseteq Firing /\ was(r) \cap Firing = {}},
      tagged    |-> {r \in read : r.trigger \subseteq Live \ Firing /\ was(r) = {"no_zone_tag"}}]

\* The counters that moved, and by how much.
CounterDelta(before, after) ==
  LET value(f, k) == IF k \in DOMAIN f THEN f[k] ELSE 0
      moved == {k \in DOMAIN before \cup DOMAIN after : value(before, k) # value(after, k)}
  IN [k \in moved |-> value(after, k) - value(before, k)]

Compare(previous, current, decided, excluded) ==
  LET before  == UNION {p.rows : p \in previous}
      since   == UNION {p.run : p \in previous}
      entered == Missing(current.rows, before)
      left    == Missing(before, current.rows)
      why(r)  == Departed(r, decided, excluded, since)
      rolled  == Rolls(entered, {r \in left : why(r) = "unknown"})
  IN IF previous = {} THEN [bootstrap |-> TRUE]
     ELSE [bootstrap |-> FALSE,
           arrived   |-> Arrivals(before, current.rows),
           entered   |-> entered \ {z.now : z \in rolled},
           departed  |-> {[row |-> r, reason |-> why(r)] : r \in left \ {z.was : z \in rolled}},
           rolled    |-> rolled,
           refused   |-> CounterDelta(Single(previous).refused, current.refused),
           refiltered |-> Single(previous).filters # current.filters,
           rescored  |-> Single(previous).scored # current.scored]

(***************************************************************************)
(* The book (digest.book).  An event is a row of the order log.            *)
(***************************************************************************)
\* An event nobody can date is kept, and a window nobody knows keeps them all.
Since(events, after) ==
  SelectSeq(events, LAMBDA e : \A cutoff \in after, at \in e.at : at > cutoff)

\* The order of the log by its stamps, the undated first.
InTime(events) ==
  LET at(i) == IF events[i].at = {} THEN 0 ELSE Single(events[i].at)
      order == SetToSortSeq(DOMAIN events, LAMBDA i, j : at(i) < at(j) \/ (at(i) = at(j) /\ i < j))
  IN [n \in DOMAIN order |-> events[order[n]]]

\* A reconciliation that found no fill is no event.
IsEvent(e) == e.outcome # "reconciled" \/ e.failed \/ \E q \in e.filled : q > 0

\* The newest are shown; the notice says how many are not.
BookLines(events) ==
  LET told == SelectSeq(InTime(events), IsEvent)
      over == Max({0, Len(told) - BookLimit})
  IN [shown |-> SubSeq(told, over + 1, Len(told)), dropped |-> over]

\* A key goes by the first asset the log names it with.
AssetName(events, key) ==
  LET named == SelectSeq(events, LAMBDA e : e.key = key /\ e.asset # {})
  IN IF named = <<>> THEN {} ELSE Head(named).asset

\* A position: the newest of each thing its rows say, the fill of its newest
\* reconciliation that has one.
HoldingOf(events, key) ==
  LET rows == SelectSeq(InTime(events), LAMBDA e : e.key = key)
      newest(field(_)) == LET said == SelectSeq(rows, LAMBDA e : field(e) # {})
                          IN IF said = <<>> THEN {} ELSE field(Last(said))
      fills == SelectSeq(rows, LAMBDA e : e.outcome = "reconciled" /\ e.filled # {})
  IN [asset |-> newest(LAMBDA e : e.asset), direction |-> newest(LAMBDA e : e.direction),
      qty   |-> IF fills = <<>> THEN {} ELSE Last(fills).filled,
      price |-> IF fills = <<>> THEN {} ELSE Last(fills).price]

HoldingsOf(events, keys) ==
  {HoldingOf(events, k) : k \in {k \in keys : \E i \in DOMAIN events : events[i].key = k}}

\* What a position has made at a mark; nothing where any of it is missing.
Pnl(held, marks) ==
  {(IF held.direction = {"short"} THEN -1 ELSE 1) * (m - p) * q :
     m \in UNION {IF a \in DOMAIN marks THEN {marks[a]} ELSE {} : a \in held.asset},
     p \in held.price, q \in held.qty}

\* The whole book's gain, and how many positions are outside it.
Totals(holding, marks) ==
  LET known == {h \in holding : Pnl(h, marks) # {}}
  IN [gain |-> IF known = {} THEN {} ELSE {MapThenSumSet(LAMBDA h : Single(Pnl(h, marks)), known)},
      unpriced |-> Cardinality(holding \ known)]

(***************************************************************************)
(* The roster (digest.roster): who changed their mind on an asset in play. *)
(***************************************************************************)
RosterEvent(kind, asset, person, horizon, published) ==
  [kind |-> kind, asset |-> asset, person |-> person, horizon |-> horizon, published |-> published]

\* Extractions that arrived since the last run and span more publication dates
\* than a night's videos do.
IsBackfill(stances, since) ==
  LET arrived == {s \in stances : \E run \in since : s.extracted > run}
      dates   == {s.published : s \in arrived} \ {0}
  IN Cardinality(arrived) >= BackfillMin /\ dates # {} /\ Max(dates) - Min(dates) > BackfillSpan

\* Flips, new voices, and people with a view at a horizon new to them.
Moved(stances, wanted, today) ==
  LET relevant == {s \in stances : Canonical(s.asset) \in wanted}
      cutoff   == today - RosterWindow
      before   == FoldViews({s \in relevant : s.published \in 1 .. cutoff})
      recent   == {f \in FoldViews(relevant) : f.current.published # 0 /\ f.current.published > cutoff}
      asset(f) == Canonical(f.current.asset)
      spoke(f) == \E b \in before : asset(b) = asset(f) /\ b.current.person = f.current.person
      held(f)  == \E b \in before : ViewKey(b.current) = ViewKey(f.current)
  IN {RosterEvent("flip", asset(f), f.current.person, f.current.horizon, f.current.published) :
        f \in {f \in recent : Flipped(f)}}
     \cup {RosterEvent("voice", asset(f), f.current.person, "", 0) : f \in {f \in recent : ~spoke(f)}}
     \cup {RosterEvent("horizon", asset(f), f.current.person, f.current.horizon, f.current.published) :
             f \in {f \in recent : spoke(f) /\ ~held(f)}}

Unreported(events, seen) == {e \in events : e \notin DOMAIN seen}

\* What has been said, with the day it was FIRST said on, for so many days.
Remember(seen, told, today, memory) ==
  LET kept == {e \in DOMAIN seen : seen[e] > today - memory}
  IN [e \in kept \cup told |-> IF e \in kept THEN seen[e] ELSE today]

\* What the section tells; a count, a failed narration and a withheld delta tell
\* of nothing.
RosterSection(stances, wanted, today, since, seen, narrated) ==
  LET relevant == {s \in stances : Canonical(s.asset) \in wanted}
  IN IF wanted = {} \/ IsBackfill(relevant, since) \/ ~narrated THEN {}
     ELSE Unreported(Moved(stances, wanted, today), seen)

(***************************************************************************)
(* The videos (digest.views).                                              *)
(***************************************************************************)
\* A video is known by its sidecar, or by its stances when it has none; it is
\* distilled when it has stances or a stance file with none in it.
Videos(sidecars, stances, files, today, days) ==
  LET first == today - days + 1
      of(ref) == {s \in stances : s.ref = ref}
      carded == {[ref |-> c.ref, published |-> c.published,
                  distilled |-> of(c.ref) # {} \/ c.ref \in files, stances |-> of(c.ref)] :
                   c \in {c \in sidecars : c.published >= first}}
      bare   == {s \in stances : s.published >= first /\ \A v \in carded : v.ref # s.ref}
  IN carded \cup {[ref |-> s.ref, published |-> s.published, distilled |-> TRUE,
                   stances |-> of(s.ref)] : s \in bare}

\* A video already told of is left out; one not distilled yet is not.
Shown(videos, reported) == {v \in videos : ~(v.distilled /\ v.ref \in reported)}

Refs(videos) == {v.ref : v \in {v \in videos : v.distilled}}

\* The first digest shows fewer days and takes the rest as told.
ViewsSection(sidecars, stances, files, today, seen) ==
  IF seen = <<>>
  THEN [shown |-> Videos(sidecars, stances, files, today, FirstDays),
        told  |-> Refs(Videos(sidecars, stances, files, today, ScanDays))]
  ELSE LET shown == Shown(Videos(sidecars, stances, files, today, ScanDays), DOMAIN seen)
       IN [shown |-> shown, told |-> Refs(shown)]

\* A stance is a flip, new or held, against the person's view before; an asset
\* counts once to a video, a flip before new before held.
Status(s, priors) ==
  IF priors[s] = {} THEN "new" ELSE IF \E p \in priors[s] : p.lean = s.lean THEN "held" ELSE "flip"

Graded(stances, priors) ==
  LET rank(s) == CASE Status(s, priors) = "flip" -> 0 [] Status(s, priors) = "new" -> 1 [] OTHER -> 2
  IN {s \in stances : \A t \in stances : t.asset = s.asset => rank(s) <= rank(t)}

Bucket(s) == IF s.lean \notin {"bullish", "bearish"} THEN "Unsure"
             ELSE IF s.conviction = "low" THEN "Punts" ELSE s.lean

\* The assets a video names in a bucket, those held aside.
InBucket(stances, priors, bucket) ==
  {s.asset : s \in {s \in Graded(stances, priors) : Status(s, priors) # "held" /\ Bucket(s) = bucket}}

\* A line a model wrote stays only if every number in it was given to it.
Grounded(lines, given) == {p \in DOMAIN lines : lines[p] \subseteq given[p]}

(***************************************************************************)
(* Portfolios and the treasury (digest.holdings, digest.treasury).         *)
(***************************************************************************)
Loud(verdict) == IF verdict \in {"add", "trim", "buy_zone", "sell_zone"} THEN verdict ELSE "none"

\* Loud verdicts that changed, and levels reached or left since they were told.
HoldingsDelta(readings, remembered, levels, rememberedLevels) ==
  LET before(t) == IF t \in DOMAIN remembered THEN Loud(remembered[t]) ELSE "none"
      known == IF rememberedLevels = {} THEN DOMAIN levels ELSE DOMAIN Single(rememberedLevels)
      same(t) == \E m \in rememberedLevels : t \in DOMAIN m /\ m[t] = levels[t]
  IN [changed |-> {t \in DOMAIN readings : before(t) # Loud(readings[t])},
      arrived |-> IF rememberedLevels = {} THEN {} ELSE {t \in DOMAIN levels : ~same(t)},
      left    |-> known \ DOMAIN levels]

\* Advice is new once, and only while there is money to move.
TreasuryDelta(advice, remembered, idle) ==
  [new      |-> IF idle THEN advice \ DOMAIN remembered ELSE {},
   standing |-> IF idle THEN advice \cap DOMAIN remembered ELSE {}]

\* What is remembered of the advice: tonight's, if the reading was one.
TreasuryMemory(advice, remembered, fresh) == IF fresh THEN [a \in advice |-> "told"] ELSE remembered

(***************************************************************************)
(* How it is mailed (digest.mail): Resend if its key is set, else SMTP.    *)
(***************************************************************************)
Mailer(env) ==
  IF "RESEND_API_KEY" \in env
  THEN IF {"RESEND_FROM_EMAIL", "DIGEST_TO"} \subseteq env THEN "resend" ELSE "none"
  ELSE IF {"DIGEST_SMTP_USER", "DIGEST_SMTP_APP_PASSWORD", "DIGEST_TO"} \subseteq env THEN "smtp" ELSE "none"
=============================================================================
