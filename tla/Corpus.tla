------------------------------- MODULE Corpus -------------------------------
(***************************************************************************)
(* The corpus a night builds: transcripts and their sidecars, the registry  *)
(* of videos that will never have one, the theses and stances read out of   *)
(* them, the index over the passages, and the ledger of what X has cost.    *)
(* One command runs at a time, item by item; a run may be killed between    *)
(* any two writes.  A document is <<source, day>>: <<video, 0>>, or the     *)
(* handle and day of an X document.                                         *)
(***************************************************************************)
EXTENDS Feeds, Passages

CONSTANTS
  Worlds,        \* what may be out there: the videos, the posts, the watchlist
  AllDocs,       \* the documents there can be in any of them
  LastDay,       \* bound: the calendar stops here
  MaxFaults,     \* bound: outages, refusals and kills in a behaviour
  MaxSearches,   \* bound: X requests answered in a behaviour
  Limit,         \* transcripts brain-extract takes a night
  MaxStrikes,    \* failures in a row that stop brain-extract
  Workers,       \* transcripts read at once
  Cost,          \* what an answered search costs
  Cap,           \* the month's cap on X, for the nightly
  Cut(_, _),     \* the ids of the passages of a document with the given contents
  Says(_, _),    \* and what is to be read out of it
  KillsForced    \* whether a kill may strike brain-index --force, run by hand

\* Days are numbered from 1, what a channel lists is among the videos there
\* are, and the corpus's paths have an order.
ASSUME WorldsAssumption ==
  /\ Grace \in Nat /\ Cost \in Nat
  /\ \A w \in Worlds :
       /\ \A id \in DOMAIN w.videos : w.videos[id].published \in Nat /\ w.videos[id].captions \in Nat
       /\ w.listed \in Seq(DOMAIN w.videos)
       /\ w.paths \in Seq(AllDocs)

VARIABLES
  world,    \* what is out there; it never changes
  today,    \* the day
  text,     \* the .txt of each document that has one: what it holds
  card,     \* the .json sidecar of each that has one: [person, published]
  dead,     \* the registry of videos given up on: the day each was
  theses,   \* what distill saved for each document it has read
  stances,  \* what brain-extract saved
  stamp,    \* the mtimes of a document's files: [text, card, stance]
  rows,     \* the index's rows
  indexed,  \* its ledger: the fingerprint each document was indexed at
  ledger,   \* spend.json, this month
  billed,   \* what xAI has billed this month
  raw,      \* the raw responses on disk: the cost of each day's
  failed,   \* the days an X request failed for and none has answered since
  job,      \* the command at work
  faults, searches  \* how much of each bound is used

corpusVars == <<text, card, dead, theses, stances, stamp>>
indexVars  == <<rows, indexed>>
spendVars  == <<ledger, billed, raw, failed>>
worldVars  == <<world, today>>
vars == <<worldVars, corpusVars, indexVars, spendVars, job, faults, searches>>

Idle == [step |-> "idle", todo |-> {}, pool |-> {}, got |-> <<>>, half |-> <<>>,
         registry |-> <<>>, strikes |-> 0, solo |-> FALSE]

\* f with an entry written, over what it may have had there.
Put(f, key, value) == [k \in DOMAIN f \cup {key} |-> IF k = key THEN value ELSE f[k]]

Docs == DOMAIN card
Stamped(doc) == IF doc \in DOMAIN stamp THEN stamp[doc] ELSE [text |-> 0, card |-> 0, stance |-> 0]
\* A write never brings an older file back: mtimes only grow.
Touched(doc, file) ==
  Put(stamp, doc, [Stamped(doc) EXCEPT ![file] = 1 + Fingerprint(Stamped(doc))])

\* The corpus's files, and which of some a sorted glob gives first.
Paths == Docs \cap ToSet(world.paths)
Place(doc) == CHOOSE i \in DOMAIN world.paths : world.paths[i] = doc
First(docs) == CHOOSE d \in docs : \A e \in docs : Place(d) <= Place(e)

StancesOf(doc) == IF doc \in DOMAIN stances THEN stances[doc] ELSE {}
CurrentRows(doc) == RowsOf(doc, Cut(doc, text[doc]), card[doc], StancesOf(doc))

-----------------------------------------------------------------------------
Init ==
  /\ world \in Worlds
  /\ today = 1
  /\ text = <<>> /\ card = <<>> /\ dead = <<>> /\ theses = <<>> /\ stances = <<>>
  /\ stamp = <<>> /\ rows = {} /\ indexed = <<>>
  /\ ledger = 0 /\ billed = 0 /\ raw = <<>> /\ failed = {}
  /\ job = Idle /\ faults = 0 /\ searches = 0

DayPasses ==
  /\ job.step = "idle" /\ today < LastDay
  /\ today' = today + 1
  /\ UNCHANGED <<world, corpusVars, indexVars, spendVars, job, faults, searches>>

-----------------------------------------------------------------------------
(* ingest-roster: every listed video of every active channel in turn.         *)

\* What a channel lists on a day: where its videos out by then stand among
\* all there will be, newest first.
Listing(channel) ==
  [tab \in Tabs |-> {i \in DOMAIN world.listed :
                       LET video == world.videos[world.listed[i]]
                       IN /\ video.channel = channel /\ video.tab = tab
                          /\ video.published <= today}]

\* A channel whose listing fails is passed over for the night.
Worklist(targets) ==
  UNION {{[id |-> world.listed[i], person |-> t.person, age |-> t.max_age_days] :
            i \in ResolveRecent(t.tabs, Listing(t.channel), t.max_videos)} : t \in targets}

NightStarts ==
  /\ job.step = "idle"
  /\ \E listed \in SUBSET ActiveTargets(world.people) :
       /\ faults' = faults + (IF listed = ActiveTargets(world.people) THEN 0 ELSE 1)
       /\ job' = [Idle EXCEPT !.step = "roster", !.pool = Worklist(listed), !.registry = dead]
  /\ faults' <= MaxFaults
  /\ UNCHANGED <<worldVars, corpusVars, indexVars, spendVars, searches>>

\* What YouTube says of a video today, when the connection is sound.
Honest(v) ==
  [meta |-> IF v.airs > today THEN "upcoming" ELSE IF v.removed THEN "gone" ELSE "ok",
   published |-> IF v.dated THEN v.published ELSE NoDay,
   fetch |-> IF v.captions # NoDay /\ v.captions <= today THEN "text" ELSE v.refusal]

Answers(id) ==
  LET honest == Honest(world.videos[id])
  IN {honest} \cup
     (IF faults < MaxFaults
        THEN {[honest EXCEPT !.meta = "error"], [honest EXCEPT !.fetch = "flaky"],
              [honest EXCEPT !.fetch = "abort"]}
        ELSE {})

SweepVideo ==
  /\ job.step = "roster" /\ job.half = <<>>
  /\ \E item \in job.pool : \E answer \in Answers(item.id) :
       LET doc    == <<item.id, 0>>
           stored == {d[1] : d \in DOMAIN text}
           bucket == Bucket(item.id, answer, stored, DOMAIN job.registry, item.age, today)
           onward == [job EXCEPT !.pool = @ \ {item}]
       IN /\ faults' = faults + (IF answer = Honest(world.videos[item.id]) THEN 0 ELSE 1)
          /\ \/ /\ bucket \in {"skipped", "buried", "pending", "stale", "failed"}
                /\ job' = onward
                /\ UNCHANGED <<text, stamp>>
             \/ /\ bucket = "dead"
                /\ job' = [onward EXCEPT !.registry = Put(@, item.id, today)]
                /\ UNCHANGED <<text, stamp>>
             \/ /\ bucket = "abort"
                /\ job' = [job EXCEPT !.pool = {}]
                /\ UNCHANGED <<text, stamp>>
             \/ /\ bucket = "ingested"
                /\ text' = Put(text, doc, {item.id})
                /\ stamp' = Touched(doc, "text")
                /\ job' = [onward EXCEPT !.half =
                             <<doc, [person |-> item.person, published |-> answer.published]>>]
  /\ UNCHANGED <<worldVars, card, dead, theses, stances, indexVars, spendVars, searches>>

\* The sidecar follows its text in a write of its own (and so for X).
SaveCard ==
  /\ job.step \in {"roster", "x"} /\ job.half # <<>>
  /\ card' = Put(card, job.half[1], job.half[2])
  /\ stamp' = Touched(job.half[1], "card")
  /\ job' = [job EXCEPT !.half = <<>>]
  /\ UNCHANGED <<worldVars, text, dead, theses, stances, indexVars, spendVars, faults, searches>>

Reading == [Idle EXCEPT !.step = "distill", !.pool = Docs]

\* The days X has a sidecar for.
Captured == {card[d].published : d \in {d \in Docs : d[2] # 0}}

Window == DayWindows(ResumeWindow(today, Captured), today)

Pulling(solo) == [Idle EXCEPT !.step = "x", !.solo = solo, !.todo = Window]

CanPull == world.digest # {} /\ Cardinality(Window) <= MaxSearches - searches

\* The registry is written once, at the end; X is searched only if asked for
\* and while the month's spend is under the cap.
SweepEnds ==
  /\ job.step = "roster" /\ job.half = <<>> /\ job.pool = {}
  /\ dead' = job.registry
  /\ \/ job' = Reading
     \/ ledger < Cap /\ CanPull /\ job' = Pulling(FALSE)
  /\ UNCHANGED <<worldVars, text, card, theses, stances, stamp, indexVars, spendVars, faults,
                 searches>>

-----------------------------------------------------------------------------
(* ingest-x: a request a day, each day's documents on disk before the next.   *)

\* By hand, nothing asks what the month has cost.
PullByHand ==
  /\ job.step = "idle" /\ CanPull /\ Window # {}
  /\ job' = Pulling(TRUE)
  /\ UNCHANGED <<worldVars, corpusVars, indexVars, spendVars, faults, searches>>

\* What there is to find of a day, as far as the search sees by today, and
\* what the model makes up.  A post found is dated the day it was asked for.
Visible(day) ==
  {[handle |-> world.posts[p].handle, post |-> p, day |-> day, shown |-> TRUE, cited |-> TRUE] :
     p \in {p \in DOMAIN world.posts :
              world.posts[p].day = day /\ world.posts[p].seen <= today}}

Invented(day) ==
  {[handle |-> h, post |-> "invented", day |-> day, shown |-> TRUE, cited |-> FALSE] :
     h \in world.digest}

SearchFails ==
  /\ job.step = "x" /\ job.half = <<>> /\ job.pool = {} /\ job.todo # {}
  /\ faults < MaxFaults
  /\ \E tries \in {<<"http">>, <<"timeout", "refused", "timeout">>} :
       billed' = billed + Cost * SearchOutcome(tries).unanswered
  /\ faults' = faults + 1
  /\ failed' = failed \cup {Min(job.todo)}
  /\ job' = [job EXCEPT !.todo = @ \ {Min(@)}]
  /\ UNCHANGED <<worldVars, corpusVars, indexVars, ledger, raw, searches>>

\* The answer, with its cost, is on disk before the ledger has it.
SearchAnswers ==
  /\ job.step = "x" /\ job.half = <<>> /\ job.pool = {} /\ job.todo # {}
  /\ searches < MaxSearches
  /\ \E found \in SUBSET Visible(Min(job.todo)), calls \in 0..1 :
       /\ calls = 0 => found = {}
       /\ faults' = faults + 1 - calls
       /\ job' = [job EXCEPT !.got = <<[calls |-> calls,
                                        rows  |-> found \cup Invented(Min(job.todo))]>>,
                             !.step = "paying"]
  /\ faults' <= MaxFaults
  /\ billed' = billed + Cost
  /\ raw' = Put(raw, Min(job.todo), Cost)
  /\ searches' = searches + 1
  /\ UNCHANGED <<worldVars, corpusVars, indexVars, ledger, failed>>

RecordSpend ==
  /\ job.step = "paying"
  /\ ledger' = SpendRecord(ledger, Cost)
  /\ LET onward(docs) == [job EXCEPT !.step = "x", !.todo = @ \ {Min(@)}, !.got = <<>>, !.pool = docs]
         day == Min(job.todo)
     IN \/ /\ ~SearchRan(job.got[1])
           /\ failed' = failed \cup {day}
           /\ job' = onward({})
        \/ /\ SearchRan(job.got[1])
           /\ failed' = failed \ {day}
           /\ job' = onward(StorePosts(Harvest(job.got[1], world.digest), world.people))
  /\ UNCHANGED <<worldVars, corpusVars, indexVars, billed, raw, faults, searches>>

StorePost ==
  /\ job.step = "x" /\ job.half = <<>>
  /\ \E write \in job.pool :
       /\ text' = Put(text, write.doc, write.text)
       /\ stamp' = Touched(write.doc, "text")
       /\ job' = [job EXCEPT !.pool = @ \ {write},
                    !.half = <<write.doc, [person |-> write.person, published |-> write.doc[2]]>>]
  /\ UNCHANGED <<worldVars, card, dead, theses, stances, indexVars, spendVars, faults, searches>>

PullEnds ==
  /\ job.step = "x" /\ job.half = <<>> /\ job.pool = {} /\ job.todo = {}
  /\ job' = IF job.solo THEN Idle ELSE Reading
  /\ UNCHANGED <<worldVars, corpusVars, indexVars, spendVars, faults, searches>>

ReconcileSpend ==
  /\ job.step = "idle" /\ raw # <<>>
  /\ ledger' = Reconcile(ledger, raw)
  /\ UNCHANGED <<worldVars, corpusVars, indexVars, billed, raw, failed, job, faults, searches>>

-----------------------------------------------------------------------------
(* distill-roster and brain-extract: every document not read yet.             *)

Lost == [came |-> FALSE, list |-> FALSE, rows |-> {}]
Reply(says) == [came |-> TRUE, list |-> TRUE, rows |-> {[sound |-> TRUE, says |-> s] : s \in says}]

\* The model's two replies about a document: the sound one, at once or after
\* an outage, or none.
Replies(doc) ==
  LET said == Reply(Says(doc, text[doc]))
  IN IF doc \in world.unreadable THEN {<<Lost, Lost>>}
     ELSE {<<said>>} \cup (IF faults < MaxFaults THEN {<<Lost, said>>, <<Lost, Lost>>} ELSE {})

Faulty(doc, replies) == doc \notin world.unreadable /\ ~replies[1].came

Distill ==
  /\ job.step = "distill"
  /\ \E doc \in job.pool :
       /\ job' = [job EXCEPT !.pool = @ \ {doc}]
       /\ \/ /\ doc \in DOMAIN theses
             /\ UNCHANGED <<theses, faults>>
          \/ /\ doc \notin DOMAIN theses
             /\ \E replies \in Replies(doc) :
                  LET read == ExtractTheses(replies)
                  IN /\ faults' = faults + (IF Faulty(doc, replies) THEN 1 ELSE 0)
                     /\ theses' = IF read.ok THEN Put(theses, doc, read.kept) ELSE theses
  /\ UNCHANGED <<worldVars, text, card, dead, stances, stamp, indexVars, spendVars, searches>>

\* The newest first, and of one day the first by path.
Ahead(d, e) ==
  \/ card[d].published > card[e].published
  \/ card[d].published = card[e].published /\ Place(d) < Place(e)

Foremost(docs, limit) == {d \in docs : Cardinality({e \in docs : Ahead(e, d)}) < limit}

\* Mutation: the limit counts files, whether or not there is work to do on them.
BacklogOfFiles(limit) == Foremost(Docs, limit) \ DOMAIN stances

\* The newest of what has no stance file yet.
Backlog(limit) == Foremost(Docs \ DOMAIN stances, limit)

DistillEnds ==
  /\ job.step = "distill" /\ job.pool = {}
  /\ job' = [Idle EXCEPT !.step = "extract", !.pool = Backlog(Limit)]
  /\ UNCHANGED <<worldVars, corpusVars, indexVars, spendVars, faults, searches>>

\* After so many failures in a row only what is in flight is finished.  Under
\* a limit nothing that has its stances is in the pool.
Extract ==
  /\ job.step = "extract"
  /\ \E doc \in job.pool : \E replies \in Replies(doc) :
       LET rest == job.pool \ {doc}
           read == ExtractStances(replies)
           down == job.strikes + 1 >= MaxStrikes
       IN /\ faults' = faults + (IF Faulty(doc, replies) THEN 1 ELSE 0)
          /\ \/ /\ read.ok
                /\ stances' = Put(stances, doc, read.kept)
                /\ stamp' = Touched(doc, "stance")
                /\ job' = [job EXCEPT !.pool = rest, !.strikes = 0]
             \/ /\ ~read.ok
                /\ \E flying \in SUBSET rest :
                     /\ down => Cardinality(flying) < Workers
                     /\ ~down => flying = rest
                     /\ job' = [job EXCEPT !.pool = flying, !.strikes = @ + 1]
                /\ UNCHANGED <<stances, stamp>>
  /\ UNCHANGED <<worldVars, text, card, dead, theses, indexVars, spendVars, searches>>

-----------------------------------------------------------------------------
(* brain-index: the rows of whatever moved, document by document.             *)

\* known is the ledger as read at the start: none of it when forced.
Indexing(known, solo) ==
  [Idle EXCEPT !.step = "index", !.todo = Paths,
               !.registry = known, !.solo = solo]

ExtractEnds ==
  /\ job.step = "extract" /\ job.pool = {}
  /\ job' = Indexing(indexed, FALSE)
  /\ UNCHANGED <<worldVars, corpusVars, indexVars, spendVars, faults, searches>>

ForceIndex ==
  /\ job.step = "idle" /\ Docs # {}
  /\ job' = Indexing(<<>>, TRUE)
  /\ UNCHANGED <<worldVars, corpusVars, indexVars, spendVars, faults, searches>>

\* Rows and ledger are emptied together, or every document would look done.
RebuildIndex ==
  /\ job.step = "idle" /\ indexed # <<>>
  /\ rows' = {} /\ indexed' = <<>>
  /\ job' = Indexing(<<>>, FALSE)
  /\ UNCHANGED <<worldVars, corpusVars, spendVars, faults, searches>>

Unchanged(doc) ==
  doc \in DOMAIN job.registry /\ job.registry[doc] = Fingerprint(stamp[doc])

SkipIndexed ==
  /\ job.step = "index" /\ job.todo # {} /\ Unchanged(First(job.todo))
  /\ job' = [job EXCEPT !.todo = @ \ {First(@)}]
  /\ UNCHANGED <<worldVars, corpusVars, indexVars, spendVars, faults, searches>>

\* The old rows go first: new text has new ids, and would stand beside them.
ClearRows ==
  /\ job.step = "index" /\ job.todo # {} /\ ~Unchanged(First(job.todo))
  /\ rows' = {r \in rows : r.doc # First(job.todo)}
  /\ job' = [job EXCEPT !.step = "filling", !.pool = CurrentRows(First(job.todo)),
                        !.half = <<Fingerprint(stamp[First(job.todo)])>>]
  /\ UNCHANGED <<worldVars, corpusVars, indexed, spendVars, faults, searches>>

\* One batch of passages, committed on its own.
Upsert ==
  /\ job.step = "filling" /\ job.pool # {}
  /\ LET new == CHOOSE r \in job.pool : TRUE
     IN /\ rows' = {r \in rows : ~(r.doc = new.doc /\ r.id = new.id)} \cup {new}
        /\ job' = [job EXCEPT !.pool = @ \ {new}]
  /\ UNCHANGED <<worldVars, corpusVars, indexed, spendVars, faults, searches>>

RecordIndexed ==
  /\ job.step = "filling" /\ job.pool = {}
  /\ indexed' = Put(indexed, First(job.todo), job.half[1])
  /\ job' = [job EXCEPT !.step = "index", !.todo = @ \ {First(@)}, !.half = <<>>]
  /\ UNCHANGED <<worldVars, corpusVars, rows, spendVars, faults, searches>>

IndexEnds ==
  /\ job.step = "index" /\ job.todo = {}
  /\ job' = Idle
  /\ UNCHANGED <<worldVars, corpusVars, indexVars, spendVars, faults, searches>>

-----------------------------------------------------------------------------
\* The run is killed; what it held in memory is gone.  Not between a text and
\* its sidecar: see the README.
Killed ==
  /\ job.step # "idle" /\ faults < MaxFaults
  /\ job.step \in {"roster", "x"} => job.half = <<>>
  /\ job.step \in {"index", "filling"} /\ job.solo => KillsForced
  /\ job' = Idle
  /\ faults' = faults + 1
  /\ UNCHANGED <<worldVars, corpusVars, indexVars, spendVars, searches>>

Onward ==
  \/ SweepVideo \/ SaveCard \/ SweepEnds
  \/ SearchFails \/ SearchAnswers \/ RecordSpend \/ StorePost \/ PullEnds
  \/ Distill \/ DistillEnds \/ Extract \/ ExtractEnds
  \/ SkipIndexed \/ ClearRows \/ Upsert \/ RecordIndexed \/ IndexEnds

Next ==
  \/ Onward \/ NightStarts \/ DayPasses
  \/ PullByHand \/ ReconcileSpend \/ ForceIndex \/ RebuildIndex \/ Killed

Spec == Init /\ [][Next]_vars

\* A run that is not killed goes on; the timer starts another night whatever is
\* run by hand between.
FairSpec == Spec /\ WF_vars(Onward) /\ SF_vars(NightStarts)

-----------------------------------------------------------------------------
\* A video in the registry of the dead is one whose captions never come, or
\* came only after the days allowed for them: nothing the sweep meets on a bad
\* night, and no video too fresh to have captions, is given up for ever
\* (ingestion.roster's grace, deadletters' closed set of reasons).
OnlyHopelessBuried ==
  \A v \in DOMAIN dead \cup (IF job.step = "roster" THEN DOMAIN job.registry ELSE {}) :
    LET video == world.videos[v]
    IN video.captions = NoDay \/ video.captions >= video.published + Grace

\* The ledger never claims more than xAI has billed, however often it is
\* recorded, lost to a kill, and made up again from the raw responses
\* (ingestion.spend.record, reconcile).
LedgerIsFloor == ledger <= billed

\* A document the next pass would skip as unchanged has in the index exactly
\* the passages its text, sidecar and stances give today, whatever was killed
\* and whatever was written since (brain.index_cli.index_all).  A forced pass
\* must not be killed: see KilledIndexIsRedone.
IndexIsCurrent ==
  \A d \in DOMAIN indexed :
    /\ indexed[d] = Fingerprint(stamp[d])
    /\ ~(job.step = "filling" /\ First(job.todo) = d)
    => {r \in rows : r.doc = d} = CurrentRows(d)

\* "a run killed mid-transcript re-does that transcript next time rather than
\* marking it done" (index_cli.py:170): between runs, a document whose rows are
\* not what its files give is one the next pass would index.
KilledIndexIsRedone ==
  job.step = "idle" =>
    \A d \in Docs : {r \in rows : r.doc = d} # CurrentRows(d) =>
                     d \notin DOMAIN indexed \/ indexed[d] # Fingerprint(stamp[d])

\* "a day that fails now costs only that day" and "the next run resumes from
\* there": once anything has been captured, a failed day still within the
\* lookback is in the next run's window (x_roster.resume_window).
FailedDayIsRetried ==
  job.step = "idle" /\ Captured # {} =>
    \A d \in failed : d >= today - MaxLookback => ResumeWindow(today, Captured) <= d

\* Every document with a sidecar that can be read at all is read by distill and
\* by brain-extract in the end and can be found, though each night takes only
\* so many, the newest first (brain.sweep.extract_all's limit).
EveryCaptureIsRead ==
  \A d \in AllDocs :
    (d \in Docs /\ d \notin world.unreadable)
      ~> (d \in DOMAIN theses /\ d \in DOMAIN stances /\ d \in DOMAIN indexed)
=============================================================================
