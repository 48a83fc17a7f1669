-------------------------------- MODULE Digest --------------------------------
(***************************************************************************)
(* The morning digest over days (digest.cli, digest.state): what it built, *)
(* whether the mail went out, and what it remembers having said, while     *)
(* videos are distilled late, orders are logged, `setups` is run by hand   *)
(* beside the nightly, mails fail and the memory is not saved.             *)
(***************************************************************************)
EXTENDS Overnight

CONSTANTS Stances,      \* what will be read out of the videos
          FirstDay, LastDay,
          MaxEvents, MaxRuns, MaxFaults,
          Faults        \* "mail", "killed", "lost", "narrator"

\* A digest looks back no further than it remembers (views.py, roster.py: the
\* memory is twice the window), and a video has one date.
ASSUME DigestConstants ==
  /\ {FirstDay, LastDay, FirstDays, ScanDays, ViewMemory, RosterWindow, RosterMemory} \subseteq Nat
  /\ FirstDays <= ScanDays /\ ScanDays <= ViewMemory /\ RosterWindow <= RosterMemory
  /\ IsFiniteSet(Stances)
  /\ \A s \in Stances : s.published \in Nat /\ s.id \in Nat
  /\ \A s, t \in Stances : /\ s.id = t.id => s = t
                           /\ s.ref = t.ref => s.published = t.published

VARIABLES today,
          extracted,    \* ref -> the instant its stances were written, 0 before
          log,          \* the order log, as far as the digest windows it
          snapshots,    \* data/setups/queue.jsonl
          memory,       \* data/digest/state.json: what was said, and when first
          draft,        \* a digest built and not yet sent, or sent and not yet saved
          told,         \* the digests sent that named each video and roster event
          toldEvents,   \* the order events some digest sent has named
          skipped,      \* videos recorded as told by a digest that did not show them
          unsaved,      \* digests sent whose memory was lost
          faults

vars == <<today, extracted, log, snapshots, memory, draft, told, toldEvents, skipped, unsaved, faults>>

NoDraft == [phase |-> "none"]
NoMemory == [views |-> <<>>, roster |-> <<>>]
VideoRefs == {s.ref : s \in Stances}
\* A video, as a thing to be told of, in the shape a roster event has.
AsEvents(refs) == {RosterEvent("video", "", r, "", 0) : r \in refs}
Assets == {Canonical(s.asset) : s \in Stances}

\* The corpus as far as it is out, and as far as it is distilled.
Sidecars == {[ref |-> s.ref, published |-> s.published] : s \in {s \in Stances : s.published <= today}}
Read == {[id |-> s.id, person |-> s.person, asset |-> s.asset, horizon |-> s.horizon, lean |-> s.lean,
          published |-> s.published, ref |-> s.ref, extracted |-> extracted[s.ref]] :
           s \in {s \in Stances : extracted[s.ref] > 0}}

Init ==
  /\ today = FirstDay
  /\ extracted = [r \in VideoRefs |-> 0]
  /\ log = <<>> /\ snapshots = <<>>
  /\ memory = NoMemory /\ draft = NoDraft
  /\ told = <<>> /\ toldEvents = {} /\ skipped = {}
  /\ unsaved = 0 /\ faults = 0

(***************************************************************************)
(* The night's other steps.                                                *)
(***************************************************************************)
Idle == draft = NoDraft
\* The clock as far as anything is compared with it: the epochs between runs of `setups`.
Now == Len(snapshots) + 1

\* One video is distilled, on its day or later.
Distils ==
  /\ Idle
  /\ \E c \in Sidecars : extracted[c.ref] = 0 /\ extracted' = [extracted EXCEPT ![c.ref] = Now]
  /\ UNCHANGED <<today, log, snapshots, memory, draft, told, toldEvents, skipped, unsaved, faults>>

\* An order is placed or settled.
OrderEvent ==
  /\ Idle /\ Len(log) < MaxEvents
  /\ log' = Append(log, [at |-> {Now}])
  /\ UNCHANGED <<today, extracted, snapshots, memory, draft, told, toldEvents, skipped, unsaved, faults>>

\* `setups` is run, by the nightly or by hand, and appends what it saw.
SetupsRuns ==
  /\ Idle /\ Len(snapshots) < MaxRuns
  /\ snapshots' = Append(snapshots, [asOf |-> {today}, run |-> {Now}])
  /\ UNCHANGED <<today, extracted, log, memory, draft, told, toldEvents, skipped, unsaved, faults>>

DayTurns ==
  /\ Idle /\ today < LastDay /\ today' = today + 1
  /\ UNCHANGED <<extracted, log, snapshots, memory, draft, told, toldEvents, skipped, unsaved, faults>>

(***************************************************************************)
(* The digest.                                                             *)
(***************************************************************************)
Fault(kind) == kind \in Faults /\ faults < MaxFaults /\ faults' = faults + 1

\* The window of the order events opens at the last snapshot of an earlier day.
WindowStart == UNION {p.run : p \in PreviousNightly(snapshots)}

\* Mutation: the memory of videos is pruned as fast as they are first shown.
NextMemoryPruned(views, roster) ==
  [views  |-> Remember(memory.views, views, today, FirstDays),
   roster |-> Remember(memory.roster, roster, today, RosterMemory)]

\* What tonight's digest would add to the memory.
NextMemory(views, roster) ==
  [views  |-> Remember(memory.views, views, today, ViewMemory),
   roster |-> Remember(memory.roster, roster, today, RosterMemory)]

\* The views on the assets a digest is about.
ViewsOn(wanted) == {s \in Read : Canonical(s.asset) \in wanted}

\* Everything is read and the text is written, of the assets on tonight's rows or
\* still held; without a snapshot there is none.
Built(narrated, wanted) ==
  LET views  == ViewsSection(Sidecars, Read, {}, today, memory.views)
      roster == RosterSection(Read, wanted, today, WindowStart, memory.roster, narrated)
      events == {i \in DOMAIN log : Since(<<log[i]>>, WindowStart) # <<>>}
  IN [phase  |-> "built",
      shows  |-> AsEvents(Refs(views.shown)) \cup roster,
      views  |-> AsEvents(views.told),
      roster |-> roster,
      events |-> events,
      scan   |-> AsEvents(Refs(Videos(Sidecars, Read, {}, today, ScanDays))),
      moved  |-> IF narrated /\ ~IsBackfill(ViewsOn(wanted), WindowStart) THEN Moved(Read, wanted, today) ELSE {},
      next   |-> NextMemory(views.told, roster)]

Build ==
  /\ Idle /\ snapshots # <<>>
  /\ \E wanted \in SUBSET Assets :
       \/ draft' = Built(TRUE, wanted) /\ UNCHANGED faults
       \/ draft' = Built(FALSE, wanted) /\ Fault("narrator")
  /\ UNCHANGED <<today, extracted, log, snapshots, memory, told, toldEvents, skipped, unsaved>>

\* The mail is out.
Deliver ==
  /\ draft.phase = "built"
  /\ draft' = [draft EXCEPT !.phase = "sent"]
  /\ told' = [t \in DOMAIN told \cup draft.shows |->
                (IF t \in DOMAIN told THEN told[t] ELSE 0) + (IF t \in draft.shows THEN 1 ELSE 0)]
  /\ toldEvents' = toldEvents \cup draft.events
  /\ skipped' = skipped \cup (draft.views \ draft.shows)
  /\ UNCHANGED <<today, extracted, log, snapshots, memory, unsaved, faults>>

\* Mutation: the memory is saved although no inbox has the digest.
SavesAnyway ==
  /\ draft.phase = "built" /\ Fault("mail")
  /\ memory' = draft.next /\ draft' = NoDraft
  /\ UNCHANGED <<today, extracted, log, snapshots, told, toldEvents, skipped, unsaved>>

\* No mail, no memory: the night is as if it had not been.
MailFails ==
  /\ draft.phase = "built" /\ Fault("mail")
  /\ draft' = NoDraft
  /\ UNCHANGED <<today, extracted, log, snapshots, memory, told, toldEvents, skipped, unsaved>>

Save ==
  /\ draft.phase = "sent"
  /\ memory' = draft.next /\ draft' = NoDraft
  /\ UNCHANGED <<today, extracted, log, snapshots, told, toldEvents, skipped, unsaved, faults>>

\* Killed after the mail and before the rename that saves it, or the save fails.
DiesUnsaved ==
  /\ draft.phase = "sent" /\ Fault("killed")
  /\ draft' = NoDraft /\ unsaved' = unsaved + 1
  /\ UNCHANGED <<today, extracted, log, snapshots, memory, told, toldEvents, skipped>>

\* The memory is deleted or cannot be read.
LosesMemory ==
  /\ Idle /\ memory # NoMemory /\ Fault("lost")
  /\ memory' = NoMemory /\ unsaved' = unsaved + 1
  /\ UNCHANGED <<today, extracted, log, snapshots, draft, told, toldEvents, skipped>>

Next == \/ Distils \/ OrderEvent \/ SetupsRuns \/ DayTurns
        \/ Build \/ Deliver \/ MailFails \/ Save \/ DiesUnsaved \/ LosesMemory

Spec == Init /\ [][Next]_vars

-----------------------------------------------------------------------------
\* A video or a change of mind is told once, but for the digests whose memory
\* was lost (digest.state, digest.roster.remember: two windows of memory).
ToldOnce == \A t \in DOMAIN told : told[t] <= 1 + unsaved

\* A video of a day a digest without a memory does not show.
IsOlder(t) == \A s \in Stances : s.ref = t.person => s.published <= today - FirstDays

\* When a digest is out, every distilled video it looked back on and every
\* change of mind it could tell has been told, in this digest or in an earlier
\* one, however late it was distilled and whatever mail was lost.  The one
\* exception is a digest built while no video is remembered - the first, one
\* whose memory was lost or never saved, one after nights with nothing distilled:
\* it shows the short window in full and takes what is older as told
\* (digest.cli._views_section, state.views_seen).
NothingIsForgotten ==
  [][(draft.phase = "built" /\ draft'.phase = "sent") =>
       /\ \A t \in (draft.scan \ skipped') \cup draft.moved : t \in DOMAIN told'
       /\ \A t \in skipped' \ skipped : memory.views = <<>> /\ IsOlder(t)]_vars

\* "A lost file only ever costs a repeat" (digest.state): after a memory was lost
\* no video is taken as told that no digest has told.  It does not hold: the
\* exception above is made again, of what was distilled late in between.
LossOnlyRepeats ==
  [][(draft.phase = "built" /\ draft'.phase = "sent" /\ unsaved > 0) =>
       skipped' \ skipped \subseteq DOMAIN told]_vars

\* "Diff the nightly run against the previous nightly run, not the last two rows
\* in this file" (oracle.queue_snapshot): when a digest is out, every order event
\* since the first snapshot has been told.  It does not hold: the window opens at
\* the LAST snapshot of the day before, and a run of `setups` by hand, after that
\* day's digest, hides the events between the two.
NoEventFallsBetween ==
  [][(draft.phase = "built" /\ draft'.phase = "sent") =>
       {i \in DOMAIN log : \A at \in log[i].at : at > Min(snapshots[1].run)} \subseteq toldEvents']_vars
=============================================================================
