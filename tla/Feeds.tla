------------------------------- MODULE Feeds -------------------------------
(***************************************************************************)
(* What the ingest commands make of the watchlist, of what YouTube answers  *)
(* about one video, and of what xAI answers about one day.  Days are        *)
(* numbers; a person is a record of the watchlist, a channel a record of    *)
(* the person, and the watchlist a sequence of people.                      *)
(***************************************************************************)
EXTENDS Integers, Sequences, FiniteSets, SequencesExt, FiniteSetsExt

CONSTANTS
  Grace,          \* days a missing transcript is taken to be on its way
  MaxLookback,    \* days an X pull widens itself to close a gap
  RevivalWindow,  \* days within which a written-off channel counts as posting
  Lower(_)        \* a handle or name, case folded

Tabs == {"videos", "streams"}
NoDay == 0

-----------------------------------------------------------------------------
(* The watchlist. *)

Reachable(channel) == channel.platform = "youtube" /\ channel.access = "ok"

TabsOf(channel) == IF channel.tabs = {"unset"} THEN Tabs ELSE channel.tabs

ActiveTargets(people) ==
  UNION {{[person |-> p.name, channel |-> c.id, tabs |-> TabsOf(c),
           max_videos |-> p.max_videos, max_age_days |-> p.max_age_days] :
            c \in {c \in p.channels : Reachable(c)}} :
         p \in {p \in ToSet(people) : p.status = "active"}}

UnreachableActive(people) ==
  {p.name : p \in {p \in ToSet(people) :
      p.status = "active" /\ ~\E c \in p.channels : Reachable(c)}}

\* One channel's handle belongs to whoever the list names last.
HandleToPerson(people, handle) ==
  LET owners == {i \in DOMAIN people :
                   \E c \in people[i].channels :
                      c.platform = "x" /\ Lower(c.id) = Lower(handle)}
  IN IF owners = {} THEN "nobody" ELSE people[Max(owners)].name

Unattributable(people, digest) ==
  {h \in digest : HandleToPerson(people, h) = "nobody"}

\* Declared on a person, not excluded, and not searched.
Undigested(people, digest) ==
  {Lower(c.id) : c \in {c \in UNION {p.channels : p \in ToSet(people)} :
      /\ c.platform = "x" /\ c.access # "excluded"
      /\ Lower(c.id) \notin {Lower(h) : h \in digest}}}

-----------------------------------------------------------------------------
(* verify-roster: what the watchlist claims against what is there. A probe   *)
(* has the videos each tab gave; newest is a day, or NoDay if not known.     *)

Probe(person, channel, tabs, newest) ==
  [person |-> person, channel |-> channel.id, access |-> channel.access,
   tabs |-> tabs,
   newest |-> IF channel.access \in {"dormant", "excluded"} THEN newest ELSE NoDay]

VideoCount(probe) == SumFunction(probe.tabs)

ProbeVerdict(probe, today) ==
  CASE probe.access \in {"dormant", "excluded"} /\ VideoCount(probe) = 0 -> "dormant"
    [] probe.access \in {"dormant", "excluded"} /\ VideoCount(probe) > 0 ->
         IF probe.newest = NoDay THEN "UNDATED"
         ELSE IF probe.newest >= today - RevivalWindow THEN "REVIVED" ELSE "dormant"
    [] probe.access = "ok" ->
         IF DOMAIN probe.tabs = {} THEN "BROKEN"
         ELSE IF VideoCount(probe) > 0 THEN "OK" ELSE "EMPTY"
    [] OTHER -> "OK"

DuplicateChannels(people) ==
  LET owners(c) == {p.name : p \in {p \in ToSet(people) :
                      \E d \in p.channels :
                         d.platform = c.platform /\ Lower(d.id) = Lower(c.id)}}
  IN {c \in UNION {p.channels : p \in ToSet(people)} : Cardinality(owners(c)) > 1}

AliasCollisions(people) ==
  {pair \in ToSet(people) \X ToSet(people) :
      pair[1].name # pair[2].name /\ \E a \in pair[1].aliases : Lower(a) = Lower(pair[2].name)}

ChannelLess(people) ==
  {p.name : p \in {p \in ToSet(people) : p.status # "dormant" /\ p.channels = {}}}

ExitCode(people, probes, today) ==
  IF /\ \A p \in probes : ProbeVerdict(p, today) \in {"OK", "dormant"}
     /\ DuplicateChannels(people) = {}
     /\ AliasCollisions(people) = {}
     /\ ChannelLess(people) = {}
  THEN 0 ELSE 1

-----------------------------------------------------------------------------
(* One video of a sweep.  What is asked of YouTube is answered by a record   *)
(*   [meta, published, fetch]: how hydrate went, the day it gives or NoDay,  *)
(*   and how the transcript was refused, or "text".                          *)

\* The newest of each tab, which lists places in a channel's order; a tab that
\* failed or is not there gives nothing.
ResolveRecent(tabs, listing, max_videos) ==
  UNION {{i \in listing[tab] : Cardinality({j \in listing[tab] : j < i}) < max_videos} :
         tab \in tabs \cap DOMAIN listing}

MetadataVerdict(meta) == IF meta \in {"gone", "upcoming"} THEN "pending" ELSE "failed"

\* The refusals a retry does not change.
Permanent == {"no_captions", "age_restricted", "unavailable"}

\* Mutation: a video of unknown age or of today is old enough to bury.
TranscriptVerdictNow(refusal, age) ==
  IF refusal \in Permanent THEN "dead" ELSE "failed"

TranscriptVerdict(refusal, age) ==
  IF refusal \notin Permanent THEN "failed"
  ELSE IF age < Grace THEN "pending" ELSE "dead"

\* A refusal that is not of the connection is not retried; a blocked address
\* is, four times, when a proxy gives another each time.
FetchTranscript(tries, proxied) ==
  LET final(i) == tries[i] \notin {"blocked", "flaky"}
      n == IF \E i \in DOMAIN tries : final(i)
             THEN Min({i \in DOMAIN tries : final(i)}) ELSE Len(tries)
  IN IF ~proxied /\ \E i \in 1..n : tries[i] = "blocked" THEN "abort"
     ELSE IF tries[n] = "blocked" THEN "flaky" ELSE tries[n]

IsRecentEnough(published, max_age_days, today) == published >= today - max_age_days

Bucket(id, answer, stored, registry, max_age_days, today) ==
  IF id \in stored THEN "skipped"
  ELSE IF id \in registry THEN "buried"
  ELSE IF answer.meta # "ok" THEN MetadataVerdict(answer.meta)
  ELSE IF answer.published = NoDay THEN "failed"
  ELSE IF ~IsRecentEnough(answer.published, max_age_days, today) THEN "stale"
  ELSE IF answer.fetch = "abort" THEN "abort"
  ELSE IF answer.fetch = "text" THEN "ingested"
  ELSE TranscriptVerdict(answer.fetch, today - answer.published)

-----------------------------------------------------------------------------
(* One day of X.  A row is what the model claims a post is: [handle, post,   *)
(* day, shown, cited], shown being whether it has text or a chart.           *)

LastIngestedDay(days) == IF days = {} THEN NoDay ELSE Max(days)

\* From the last captured day, not the day after: that one may be partial.
ResumeWindow(today, days) ==
  IF days = {} THEN today - 1
  ELSE Max({LastIngestedDay(days), today - MaxLookback})

Truncated(today, days) == days # {} /\ LastIngestedDay(days) < today - MaxLookback

\* One request a day, its end exclusive.
DayWindows(from, to) == from .. to - 1

\* Why a row is dropped, or "kept".
RowVerdict(row, allowed) ==
  IF row.handle = "" \/ row.post = "" THEN "malformed"
  ELSE IF row.day = NoDay THEN "undated"
  ELSE IF Lower(row.handle) \notin {Lower(h) : h \in allowed} THEN "handle_not_allowed"
  ELSE IF ~row.cited THEN "uncited"
  ELSE IF ~row.shown THEN "empty"
  ELSE "kept"

\* No tool call is no search, whatever the rows say.
SearchRan(response) == response.calls > 0

Harvest(response, allowed) == {r \in response.rows : RowVerdict(r, allowed) = "kept"}

GroupByAuthorDay(posts) == {<<r.handle, r.day>> : r \in posts}

\* The documents a search writes, each day of each author whole.
StorePosts(posts, people) ==
  {[doc |-> g, text |-> {r.post : r \in {r \in posts : <<r.handle, r.day>> = g}},
    person |-> HandleToPerson(people, g[1])] :
     g \in {g \in GroupByAuthorDay(posts) : HandleToPerson(people, g[1]) # "nobody"}}

\* Three attempts at one request: only what never reached an answer is asked
\* again, and what timed out may have been billed.
SearchOutcome(tries) ==
  LET answered(i) == tries[i] \notin {"timeout", "refused"}
      n == IF \E i \in DOMAIN tries : answered(i)
             THEN Min({i \in DOMAIN tries : answered(i)}) ELSE Len(tries)
  IN [outcome |-> IF tries[n] = "ok" THEN "ok" ELSE "failed",
      unanswered |-> Cardinality({i \in 1..n : tries[i] = "timeout"})]

-----------------------------------------------------------------------------
(* The month's spend. *)

SpendRecord(ledger, cost) == ledger + cost

\* Mutation: what the raw responses show is added to what was recorded.
ReconcileAdds(ledger, raw) == ledger + SumFunction(raw)

\* Only ever raises: spend that left no file behind stays counted.
Reconcile(ledger, raw) == Max({ledger, SumFunction(raw)})
=============================================================================
