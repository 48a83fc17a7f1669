----------------------------- MODULE DigestProofs -----------------------------
(***************************************************************************)
(* What the morning digest says is said once, and nothing it could say is  *)
(* lost.                                                                   *)
(***************************************************************************)
EXTENDS Digest, DataProofs

-----------------------------------------------------------------------------
(* What the sections return. *)

\* A distilled video is among those looked at when its sidecar or one of its
\* stances is of a day looked at.
LEMMA RefsOfVideos ==
  ASSUME NEW sidecars, NEW stances, NEW on, NEW days, NEW r
  PROVE  r \in Refs(Videos(sidecars, stances, {}, on, days)) <=>
           /\ \E s \in stances : s.ref = r
           /\ \/ \E c \in sidecars : c.ref = r /\ c.published >= on - days + 1
              \/ \E s \in stances : s.ref = r /\ s.published >= on - days + 1
<1> DEFINE first == on - days + 1
           of(ref) == {s \in stances : s.ref = ref}
           card(c) == [ref |-> c.ref, published |-> c.published,
                       distilled |-> of(c.ref) # {} \/ c.ref \in {}, stances |-> of(c.ref)]
           carded == {card(c) : c \in {c \in sidecars : c.published >= first}}
           bare == {s \in stances : s.published >= first /\ \A v \in carded : v.ref # s.ref}
           loose(s) == [ref |-> s.ref, published |-> s.published, distilled |-> TRUE,
                        stances |-> of(s.ref)]
           all == carded \cup {loose(s) : s \in bare}
<1>1. Videos(sidecars, stances, {}, on, days) = all
  BY DEF Videos
<1>2. \A c : card(c).ref = c.ref /\ (card(c).distilled <=> \E s \in stances : s.ref = c.ref)
  OBVIOUS
<1>3. \A s : loose(s).ref = s.ref /\ loose(s).distilled
  OBVIOUS
<1>4. r \in Refs(all) <=> \E v \in all : v.distilled /\ v.ref = r
  <2> HIDE DEF all
  <2>. QED
    BY DEF Refs
<1> HIDE DEF card, loose, first
<1>5. \A v : v \in carded <=> \E c \in sidecars : c.published >= first /\ v = card(c)
  OBVIOUS
<1>6. \A v : v \in all <=> v \in carded \/ \E s \in bare : v = loose(s)
  OBVIOUS
<1>7. \A s : s \in bare <=> s \in stances /\ s.published >= first /\ \A v \in carded : v.ref # s.ref
  OBVIOUS
<1> HIDE DEF carded, bare, all
<1>8. (\E v \in carded : v.ref = r) <=> \E c \in sidecars : c.ref = r /\ c.published >= first
  BY <1>2, <1>5
<1>9. (\E v \in carded : v.distilled /\ v.ref = r) <=>
        (\E v \in carded : v.ref = r) /\ \E s \in stances : s.ref = r
  BY <1>2, <1>5
<1>10. (\E s \in bare : s.ref = r) <=>
         (\E s \in stances : s.ref = r /\ s.published >= first) /\ ~\E v \in carded : v.ref = r
  BY <1>7
<1>11. (\E v \in all : v.distilled /\ v.ref = r) <=>
         (\E v \in carded : v.distilled /\ v.ref = r) \/ \E s \in bare : s.ref = r
  BY <1>3, <1>6
<1>. QED
  BY <1>1, <1>4, <1>8, <1>9, <1>10, <1>11 DEF first

\* Of a set of dated stances one is the newest of its person, asset and horizon.
LEMMA NewestExists ==
  ASSUME NEW T, IsFiniteSet(T), T # {},
         \A s \in T : s.published \in Nat /\ s.id \in Nat,
         \A s, t \in T : s.id = t.id => s = t
  PROVE  \E s \in T : \A t \in T : t = s \/ Newer(s, t)
<1> DEFINE above(s) == {u \in T : Newer(u, s)}
           counts == {Cardinality(above(s)) : s \in T}
<1>1. \A s : IsFiniteSet(above(s)) /\ Cardinality(above(s)) \in Nat
  BY FS_Subset, FS_CardinalityType
<1>2. counts \in SUBSET Nat /\ counts # {}
  <2> HIDE DEF above
  <2>. QED
    BY <1>1
<1>3. PICK n \in counts : \A m \in counts : n <= m
  <2> HIDE DEF counts
  <2>. QED
    BY <1>2, LeastExists
<1>4. PICK s \in T : n = Cardinality(above(s))
  BY <1>3
<1>5. ASSUME NEW t \in T, t # s, ~Newer(s, t) PROVE FALSE
  <2>1. Newer(t, s) /\ ~Newer(t, t)
    BY <1>5 DEF Newer
  <2>2. above(t) \subseteq above(s)
    BY <2>1 DEF Newer
  <2>3. t \in above(s) /\ t \notin above(t)
    BY <2>1
  <2>4. Cardinality(above(t)) < Cardinality(above(s))
    <3> HIDE DEF above
    <3>1. Cardinality(above(t)) <= Cardinality(above(s))
          /\ (Cardinality(above(t)) = Cardinality(above(s)) => above(t) = above(s))
      BY <1>1, <2>2, FS_Subset
    <3>. QED
      BY <1>1, <2>3, <3>1
  <2> HIDE DEF above
  <2>5. n <= Cardinality(above(t))
    BY <1>3
  <2> HIDE DEF counts
  <2>. QED
    BY <1>1, <1>4, <2>4, <2>5
<1>. QED
  BY <1>5

\* A view of the folded roster is a view somebody holds, and whoever has said
\* something dated has one.
LEMMA FoldedViews ==
  ASSUME NEW S, IsFiniteSet(S),
         \A s \in S : s.published \in Nat /\ s.id \in Nat,
         \A s, t \in S : s.id = t.id => s = t
  PROVE  /\ \A f \in FoldViews(S) : f.current \in S
         /\ \A s \in S : s.published # 0 =>
              \E f \in FoldViews(S) : ViewKey(f.current) = ViewKey(s)
<1> DEFINE dated == {s \in S : s.published # 0}
           rivals(s) == {t \in dated : ViewKey(t) = ViewKey(s)}
           older(s) == {t \in rivals(s) : Newer(s, t)}
           newest == {s \in dated : \A t \in rivals(s) : t = s \/ Newer(s, t)}
           previous(s) == {t \in older(s) : \A u \in older(s) : u = t \/ Newer(t, u)}
           view(s) == [current |-> s, previous |-> previous(s), restated |-> Cardinality(older(s))]
           alone(s) == [current |-> s, previous |-> {}, restated |-> 0]
<1>1. FoldViews(S) = {view(s) : s \in newest} \cup {alone(s) : s \in S \ dated}
  BY DEF FoldViews
<1>2. \A s : view(s).current = s /\ alone(s).current = s
  OBVIOUS
<1>3. newest \subseteq S
  OBVIOUS
<1>4. ASSUME NEW s \in S, s.published # 0
      PROVE  \E t \in newest : ViewKey(t) = ViewKey(s)
  <2>1. rivals(s) \subseteq S /\ s \in rivals(s)
    BY <1>4
  <2>2. IsFiniteSet(rivals(s))
    BY <2>1, FS_Subset
  <2>3. PICK t \in rivals(s) : \A u \in rivals(s) : u = t \/ Newer(t, u)
    <3> HIDE DEF rivals
    <3>. QED
      BY <2>1, <2>2, NewestExists
  <2>4. t \in dated /\ ViewKey(t) = ViewKey(s) /\ rivals(t) = rivals(s)
    BY <2>3
  <2>. QED
    BY <2>3, <2>4
<1> HIDE DEF view, alone, newest
<1>. QED
  BY <1>1, <1>2, <1>3, <1>4
-----------------------------------------------------------------------------
(* What there is to be told, and until when. *)

VideoEvent(r) == RosterEvent("video", "", r, "", 0)

\* All that t tells of was published by that day; a new voice tells of the first
\* thing somebody said.
Dated(t, by) ==
  CASE t.kind = "video" -> \A s \in Stances : s.ref = t.person => s.published <= by
    [] t.kind = "voice" -> \E s \in Stances :
         /\ extracted[s.ref] > 0
         /\ Canonical(s.asset) = t.asset /\ s.person = t.person /\ s.published \in 1 .. by
    [] OTHER -> t.published \in 0 .. by

\* From then on no digest looks back on it.
IsOver(t) == Dated(t, today - (IF t.kind = "video" THEN ScanDays ELSE RosterWindow))

Knows(m, t) == IF t.kind = "video" THEN t.person \in DOMAIN m.views ELSE t \in DOMAIN m.roster

\* A memory remembers of each thing a day on which there was nothing more to it.
Truthful(m) ==
  /\ \A r \in DOMAIN m.views : m.views[r] \in Int /\ Dated(VideoEvent(r), m.views[r])
  /\ \A t \in DOMAIN m.roster : m.roster[t] \in Int /\ t.kind # "video" /\ Dated(t, m.roster[t])

DraftFields == {"phase", "shows", "views", "roster", "events", "scan", "moved", "next"}

\* What is read is out, and a draft is whole.
NightInv ==
  /\ today \in Nat /\ unsaved \in Nat
  /\ snapshots \in Seq([asOf : SUBSET Nat, run : SUBSET Nat])
  /\ extracted \in [VideoRefs -> Nat]
  /\ \A s \in Stances : extracted[s.ref] > 0 => s.published <= today
  /\ \/ draft = NoDraft
     \/ DOMAIN draft = DraftFields /\ draft.phase \in {"built", "sent"}

\* The memory that is or will be saved.
MemoryInv == Truthful(memory) /\ (draft # NoDraft => Truthful(draft.next))

\* Whoever was told of it in a digest whose memory was not lost will not be told
\* again: it is remembered or it is over.
RestOf(m) == {t \in DOMAIN told : told[t] > unsaved /\ ~Knows(m, t) /\ ~IsOver(t)}

ToldInv ==
  /\ \A t \in DOMAIN told : told[t] \in Nat /\ told[t] <= 1 + unsaved
  /\ draft.phase # "sent" => RestOf(memory) = {}
  /\ draft # NoDraft => RestOf(draft.next) = {}
  /\ draft.phase = "built" =>
       \A t \in draft.shows : /\ Knows(draft.next, t) \/ IsOver(t)
                              /\ t \in DOMAIN told => told[t] <= unsaved

\* What is remembered was told, or passed over by a digest without a memory.
Backed(m, saying, passing) ==
  /\ \A r \in DOMAIN m.views : VideoEvent(r) \in DOMAIN told \cup skipped \cup saying \cup passing
  /\ DOMAIN m.roster \subseteq DOMAIN told \cup saying

SaidInv ==
  /\ Backed(memory, {}, {})
  /\ draft.phase = "built" =>
       /\ Backed(draft.next, draft.shows, draft.views)
       /\ draft.scan \subseteq DOMAIN told \cup skipped \cup draft.shows \cup draft.views
       /\ draft.moved \subseteq DOMAIN told \cup draft.shows
       /\ \A t \in draft.views \ draft.shows : memory.views = <<>> /\ IsOlder(t)
  /\ draft.phase = "sent" => Backed(draft.next, {}, {})

\* What was published by one day was by any later one.
LEMMA DatedLater ==
  ASSUME NEW t, NEW by \in Int, Dated(t, by), NEW later \in Int, by <= later
  PROVE  Dated(t, later)
<1>1. \A s \in Stances : s.published \in Nat
  BY DigestConstants
<1>. QED
  BY <1>1 DEF Dated

\* Nothing read is unread.
LEMMA DatedStays ==
  ASSUME \A s \in Stances : extracted[s.ref] > 0 => extracted'[s.ref] > 0,
         NEW t, NEW by, Dated(t, by)
  PROVE  Dated(t, by)'
BY DEF Dated

LEMMA ReadIsOut ==
  ASSUME NightInv
  PROVE  /\ IsFiniteSet(Read)
         /\ \A s \in Read : s.published \in Nat /\ s.id \in Nat /\ s.published <= today
         /\ \A s, t \in Read : s.id = t.id => s = t
         /\ \A s \in Read : \E z \in Stances :
              /\ extracted[z.ref] > 0 /\ z.ref = s.ref /\ z.published = s.published
              /\ z.asset = s.asset /\ z.person = s.person
         /\ \A z \in Stances : extracted[z.ref] > 0 => \E s \in Read :
              z.ref = s.ref /\ z.published = s.published /\ z.asset = s.asset /\ z.person = s.person
<1> DEFINE out == {s \in Stances : extracted[s.ref] > 0}
           row(s) == [id |-> s.id, person |-> s.person, asset |-> s.asset, horizon |-> s.horizon,
                      lean |-> s.lean, published |-> s.published, ref |-> s.ref,
                      extracted |-> extracted[s.ref]]
<1>1. Read = {row(s) : s \in out}
  BY DEF Read
<1>2. IsFiniteSet(out)
  BY DigestConstants, FS_Subset
<1>3. \A s : /\ row(s).id = s.id /\ row(s).person = s.person /\ row(s).asset = s.asset
             /\ row(s).published = s.published /\ row(s).ref = s.ref
  OBVIOUS
<1>4. \A s \in out : /\ s \in Stances /\ extracted[s.ref] > 0
                     /\ s.published \in Nat /\ s.id \in Nat /\ s.published <= today
  BY DigestConstants DEF NightInv
<1>5. \A s, t \in out : s.id = t.id => s = t
  BY DigestConstants
<1>6. \A z \in Stances : extracted[z.ref] > 0 => z \in out
  OBVIOUS
<1> HIDE DEF row, out
<1>7. IsFiniteSet({row(s) : s \in out})
  <2> DEFINE rows == {row(s) : s \in out}
             by == [s \in out |-> row(s)]
  <2>1. by \in Surjection(out, rows)
    BY DEF Surjection
  <2> HIDE DEF rows, by
  <2>. QED
    BY <1>2, <2>1, FS_Surjection DEF ExistsSurjection, rows
<1>. QED
  BY <1>1, <1>3, <1>4, <1>5, <1>6, <1>7

-----------------------------------------------------------------------------
(* What one digest says. *)

\* A change of mind a digest could tell of is recent, and out.
LEMMA MovedIsRecent ==
  ASSUME NightInv, NEW wanted, NEW t \in Moved(Read, wanted, today)
  PROVE  t.kind # "video" /\ ~IsOver(t) /\ Dated(t, today)
<1> DEFINE relevant == {s \in Read : Canonical(s.asset) \in wanted}
           cutoff == today - RosterWindow
           early == {s \in relevant : s.published \in 1 .. cutoff}
           before == FoldViews(early)
           recent == {f \in FoldViews(relevant) : f.current.published # 0 /\ f.current.published > cutoff}
           asset(f) == Canonical(f.current.asset)
           spoke(f) == \E b \in before : asset(b) = asset(f) /\ b.current.person = f.current.person
           held(f) == \E b \in before : ViewKey(b.current) = ViewKey(f.current)
           flips == {RosterEvent("flip", asset(f), f.current.person, f.current.horizon, f.current.published) :
                       f \in {f \in recent : Flipped(f)}}
           voices == {RosterEvent("voice", asset(f), f.current.person, "", 0) : f \in {f \in recent : ~spoke(f)}}
           turns == {RosterEvent("horizon", asset(f), f.current.person, f.current.horizon, f.current.published) :
                       f \in {f \in recent : spoke(f) /\ ~held(f)}}
<1>1. t \in flips \cup voices \cup turns
  BY DEF Moved
<1>2. relevant \subseteq Read /\ early \subseteq relevant /\ cutoff \in Int /\ RosterWindow \in Nat /\ today \in Nat
  BY DigestConstants DEF NightInv
<1>3. IsFiniteSet(relevant) /\ IsFiniteSet(early)
  BY <1>2, ReadIsOut, FS_Subset
<1>4. \A f \in recent : /\ f.current \in relevant /\ f.current \in Read
                        /\ f.current.published \in 1 .. today /\ f.current.published > cutoff
  <2>1. \A f \in FoldViews(relevant) : f.current \in relevant
    BY <1>2, <1>3, ReadIsOut, FoldedViews
  <2>. QED
    BY <1>2, <2>1, ReadIsOut
<1>5. \A s \in early : \E b \in before : ViewKey(b.current) = ViewKey(s)
  <2> HIDE DEF relevant
  <2>1. \A s \in early : s.published # 0
    OBVIOUS
  <2>2. \A s \in early : \E f \in FoldViews(early) : ViewKey(f.current) = ViewKey(s)
    <3> HIDE DEF early
    <3>. QED
      BY <1>2, <1>3, <2>1, ReadIsOut, FoldedViews
  <2>. QED
    BY <2>2
<1> HIDE DEF before
<1>6. ASSUME t \in flips \/ t \in turns PROVE t.kind # "video" /\ ~IsOver(t) /\ Dated(t, today)
  <2>1. PICK f \in recent : /\ t.kind \in {"flip", "horizon"}
                            /\ t.published = f.current.published
    BY <1>6 DEF RosterEvent
  <2>2. t.published \in 1 .. today /\ t.published > cutoff
    BY <1>4, <2>1
  <2> HIDE DEF recent
  <2>. QED
    BY <1>2, <2>1, <2>2 DEF Dated, IsOver
<1>7. ASSUME t \in voices PROVE t.kind # "video" /\ ~IsOver(t) /\ Dated(t, today)
  <2> HIDE DEF recent, spoke
  <2>1. PICK f \in recent : /\ ~spoke(f) /\ t.kind = "voice"
                            /\ t.asset = asset(f) /\ t.person = f.current.person
    <3>1. PICK f \in recent : ~spoke(f) /\ t = RosterEvent("voice", asset(f), f.current.person, "", 0)
      BY <1>7
    <3>. QED
      BY <3>1 DEF RosterEvent
  <2>2. f.current \in relevant /\ f.current \in Read /\ f.current.published \in 1 .. today
    BY <1>4, <2>1
  <2>3. Dated(t, today)
    BY <2>1, <2>2, ReadIsOut DEF Dated
  <2>4. ASSUME IsOver(t) PROVE FALSE
    <3>1. PICK z \in Stances : /\ extracted[z.ref] > 0 /\ Canonical(z.asset) = t.asset
                               /\ z.person = t.person /\ z.published \in 1 .. cutoff
      BY <2>1, <2>4 DEF IsOver, Dated
    <3>2. PICK s \in Read : /\ z.published = s.published /\ z.asset = s.asset /\ z.person = s.person
      BY <3>1, ReadIsOut
    <3>3. s \in early
      BY <2>1, <2>2, <3>1, <3>2
    <3>4. PICK b \in before : ViewKey(b.current) = ViewKey(s)
      BY <1>5, <3>3
    <3>5. asset(b) = Canonical(s.asset) /\ b.current.person = s.person
      BY <3>4 DEF ViewKey
    <3>. QED
      BY <2>1, <3>1, <3>2, <3>5 DEF spoke
  <2>. QED
    BY <2>1, <2>3, <2>4
<1> HIDE DEF flips, voices, turns
<1>. QED
  BY <1>1, <1>6, <1>7

\* The section leaves out what was said, and withholds nothing it could tell
\* but in a backfill or without a narrator.
LEMMA RosterIsNews ==
  ASSUME NEW narrated \in BOOLEAN, NEW wanted
  PROVE  LET news == RosterSection(Read, wanted, today, WindowStart, memory.roster, narrated)
         IN /\ news \subseteq Moved(Read, wanted, today) \ DOMAIN memory.roster
            /\ narrated /\ ~IsBackfill(ViewsOn(wanted), WindowStart) =>
                 Moved(Read, wanted, today) \subseteq news \cup DOMAIN memory.roster
<1>1. {s \in Read : Canonical(s.asset) \in {}} = {}
  OBVIOUS
<1>2. wanted = {} => Moved(Read, wanted, today) = {}
  BY <1>1 DEF Moved, FoldViews
<1>. QED
  BY <1>1, <1>2 DEF RosterSection, Unreported, ViewsOn

LEMMA RefsOfShown ==
  ASSUME NEW videos, NEW reported
  PROVE  Refs(Shown(videos, reported)) = Refs(videos) \ reported
BY DEF Refs, Shown

\* The section takes as told what it shows, nothing told before, and misses
\* nothing it looks back on; what it does not show it passes over for its age,
\* and only while no video is remembered.
LEMMA ViewsAreNews ==
  ASSUME NightInv
  PROVE  LET section == ViewsSection(Sidecars, Read, {}, today, memory.views)
             scan == Refs(Videos(Sidecars, Read, {}, today, ScanDays))
         IN /\ Refs(section.shown) \subseteq section.told
            /\ section.told = scan \ DOMAIN memory.views
            /\ \A r \in scan : Dated(VideoEvent(r), today) /\ ~IsOver(VideoEvent(r))
            /\ \A r \in section.told \ Refs(section.shown) :
                 memory.views = <<>> /\ IsOlder(VideoEvent(r))
<1> DEFINE section == ViewsSection(Sidecars, Read, {}, today, memory.views)
           scan == Refs(Videos(Sidecars, Read, {}, today, ScanDays))
           short == Refs(Videos(Sidecars, Read, {}, today, FirstDays))
<1>1. today \in Nat /\ FirstDays \in Nat /\ ScanDays \in Nat /\ FirstDays <= ScanDays
  BY DigestConstants DEF NightInv
<1>2. \A z \in Stances : z.published \in Nat
  BY DigestConstants
<1>3. \A c \in Sidecars : /\ c.published \in Nat /\ c.published <= today
                          /\ \E z \in Stances : z.ref = c.ref /\ z.published = c.published
  BY <1>2 DEF Sidecars
<1>4. \A s \in Read : /\ s.published \in Nat /\ s.published <= today
                      /\ \E z \in Stances : z.ref = s.ref /\ z.published = s.published
  BY ReadIsOut
<1>5. \A r \in short : r \in scan
  <2>1. \A n \in Nat : n >= today - FirstDays + 1 => n >= today - ScanDays + 1
    BY <1>1
  <2>. QED
    BY <1>3, <1>4, <2>1, RefsOfVideos
<1>6. ASSUME NEW r \in scan PROVE Dated(VideoEvent(r), today) /\ ~IsOver(VideoEvent(r))
  <2>1. PICK z \in Stances : z.ref = r /\ z.published <= today /\ z.published >= today - ScanDays + 1
    <3> HIDE DEF scan
    <3>1. \/ \E c \in Sidecars : c.ref = r /\ c.published >= today - ScanDays + 1
          \/ \E s \in Read : s.ref = r /\ s.published >= today - ScanDays + 1
      BY <1>6, RefsOfVideos DEF scan
    <3>. QED
      BY <1>3, <1>4, <3>1
  <2>2. \A s \in Stances : s.ref = r => s.published = z.published
    BY <2>1, DigestConstants
  <2>3. VideoEvent(r).kind = "video" /\ VideoEvent(r).person = r
    BY DEF VideoEvent, RosterEvent
  <2>. QED
    BY <1>1, <1>2, <2>1, <2>2, <2>3 DEF Dated, IsOver
<1>13. ASSUME NEW r \in scan \ short PROVE IsOlder(VideoEvent(r))
  <2>1. \E s \in Read : s.ref = r
    BY <1>13, RefsOfVideos
  <2>2. \A s \in Read : s.ref = r => ~(s.published >= today - FirstDays + 1)
    BY <1>13, <2>1, RefsOfVideos
  <2>3. PICK z \in Stances : z.ref = r /\ ~(z.published >= today - FirstDays + 1)
    BY <1>4, <2>1, <2>2
  <2>4. \A s \in Stances : s.ref = r => s.published = z.published
    BY <2>3, DigestConstants
  <2>5. VideoEvent(r).person = r
    BY DEF VideoEvent, RosterEvent
  <2>6. z.published <= today - FirstDays
    BY <1>1, <1>2, <2>3
  <2>. QED
    BY <2>4, <2>5, <2>6 DEF IsOlder
<1> HIDE DEF short, scan
<1>7. CASE memory.views = <<>>
  <2>1. section.shown = Videos(Sidecars, Read, {}, today, FirstDays) /\ section.told = scan
    BY <1>7 DEF ViewsSection, scan
  <2>2. DOMAIN memory.views = {}
    BY <1>7
  <2>. QED
    BY <1>5, <1>6, <1>13, <1>7, <2>1, <2>2 DEF short, scan
<1>8. CASE memory.views # <<>>
  <2>1. /\ section.shown = Shown(Videos(Sidecars, Read, {}, today, ScanDays), DOMAIN memory.views)
        /\ section.told = Refs(section.shown)
    BY <1>8 DEF ViewsSection
  <2>2. section.told = scan \ DOMAIN memory.views
    BY <2>1, RefsOfShown DEF scan
  <2> HIDE DEF section
  <2>. QED
    BY <1>6, <2>1, <2>2 DEF section, scan
<1>. QED
  BY <1>7, <1>8

-----------------------------------------------------------------------------
(* What is remembered of it. *)

\* Tonight's memory is as truthful as last night's; what it adds is told
\* tonight, and what it lets go of is over.
LEMMA NextMemoryHolds ==
  ASSUME NightInv, Truthful(memory), NEW refs, NEW events,
         \A r \in refs : Dated(VideoEvent(r), today),
         \A t \in events : t.kind # "video" /\ Dated(t, today)
  PROVE  LET m == NextMemory(refs, events)
         IN /\ Truthful(m)
            /\ DOMAIN m.views \subseteq DOMAIN memory.views \cup refs /\ refs \subseteq DOMAIN m.views
            /\ DOMAIN m.roster \subseteq DOMAIN memory.roster \cup events /\ events \subseteq DOMAIN m.roster
            /\ \A t : Knows(memory, t) => Knows(m, t) \/ IsOver(t)
<1> DEFINE m == NextMemory(refs, events)
           keptV == {r \in DOMAIN memory.views : memory.views[r] > today - ViewMemory}
           keptR == {t \in DOMAIN memory.roster : memory.roster[t] > today - RosterMemory}
<1>1. /\ m.views = Remember(memory.views, refs, today, ViewMemory)
      /\ m.roster = Remember(memory.roster, events, today, RosterMemory)
  BY DEF NextMemory
<1> HIDE DEF m
<1>2. /\ DOMAIN m.views = keptV \cup refs
      /\ \A r \in keptV : m.views[r] = memory.views[r]
      /\ \A r \in refs \ keptV : m.views[r] = today
  BY <1>1 DEF Remember
<1>3. /\ DOMAIN m.roster = keptR \cup events
      /\ \A t \in keptR : m.roster[t] = memory.roster[t]
      /\ \A t \in events \ keptR : m.roster[t] = today
  BY <1>1 DEF Remember
<1>4. /\ today \in Nat /\ {ScanDays, ViewMemory, RosterWindow, RosterMemory} \subseteq Nat
      /\ ScanDays <= ViewMemory /\ RosterWindow <= RosterMemory
  BY DigestConstants DEF NightInv
<1>5. Truthful(m)
  BY <1>2, <1>3, <1>4 DEF Truthful
<1>6. ASSUME NEW t, Knows(memory, t), ~Knows(m, t) PROVE IsOver(t)
  <2>1. CASE t.kind = "video"
    <3>1. t.person \in DOMAIN memory.views \ keptV
      BY <1>2, <1>6, <2>1 DEF Knows
    <3>2. VideoEvent(t.person).kind = "video" /\ VideoEvent(t.person).person = t.person
      BY DEF VideoEvent, RosterEvent
    <3>3. memory.views[t.person] \in Int /\ Dated(VideoEvent(t.person), memory.views[t.person])
      BY <3>1 DEF Truthful
    <3>4. Dated(t, memory.views[t.person])
      BY <2>1, <3>2, <3>3 DEF Dated
    <3>5. memory.views[t.person] <= today - ScanDays /\ today - ScanDays \in Int
      BY <1>4, <3>1, <3>3
    <3>6. Dated(t, today - ScanDays)
      BY <3>3, <3>4, <3>5, DatedLater
    <3>. QED
      BY <2>1, <3>6 DEF IsOver
  <2>2. CASE t.kind # "video"
    <3>1. t \in DOMAIN memory.roster \ keptR
      BY <1>3, <1>6, <2>2 DEF Knows
    <3>2. memory.roster[t] \in Int /\ Dated(t, memory.roster[t])
      BY <3>1 DEF Truthful
    <3>3. memory.roster[t] <= today - RosterWindow /\ today - RosterWindow \in Int
      BY <1>4, <3>1, <3>2
    <3>4. Dated(t, today - RosterWindow)
      BY <3>2, <3>3, DatedLater
    <3>. QED
      BY <2>2, <3>4 DEF IsOver
  <2>. QED
    BY <2>1, <2>2
<1>. QED
  BY <1>2, <1>3, <1>5, <1>6 DEF m

LEMMA BuiltHolds ==
  ASSUME NightInv, Truthful(memory), NEW narrated \in BOOLEAN, NEW wanted
  PROVE  LET d == Built(narrated, wanted)
         IN /\ DOMAIN d = DraftFields /\ d.phase = "built"
            /\ Truthful(d.next)
            /\ \A t \in d.shows : ~Knows(memory, t) /\ ~IsOver(t) /\ Knows(d.next, t)
            /\ \A t : Knows(memory, t) => Knows(d.next, t) \/ IsOver(t)
            /\ \A r \in DOMAIN d.next.views : r \in DOMAIN memory.views \/ VideoEvent(r) \in d.views
            /\ DOMAIN d.next.roster \subseteq DOMAIN memory.roster \cup d.shows
            /\ d.scan \subseteq {VideoEvent(r) : r \in DOMAIN memory.views} \cup d.views
            /\ d.moved \subseteq DOMAIN memory.roster \cup d.shows
            /\ \A t \in d.views \ d.shows : memory.views = <<>> /\ IsOlder(t)
<1> DEFINE d == Built(narrated, wanted)
           section == ViewsSection(Sidecars, Read, {}, today, memory.views)
           scan == Refs(Videos(Sidecars, Read, {}, today, ScanDays))
           shown == Refs(section.shown)
           refs == section.told
           events == RosterSection(Read, wanted, today, WindowStart, memory.roster, narrated)
<1>1. /\ DOMAIN d = DraftFields /\ d.phase = "built"
      /\ d.shows = AsEvents(shown) \cup events /\ d.views = AsEvents(refs)
      /\ d.scan = AsEvents(scan) /\ d.next = NextMemory(refs, events)
      /\ d.moved = IF narrated /\ ~IsBackfill(ViewsOn(wanted), WindowStart) THEN Moved(Read, wanted, today) ELSE {}
  BY DEF Built, DraftFields
<1>2. /\ shown \subseteq refs /\ refs = scan \ DOMAIN memory.views
      /\ \A r \in scan : Dated(VideoEvent(r), today) /\ ~IsOver(VideoEvent(r))
      /\ \A r \in refs \ shown : memory.views = <<>> /\ IsOlder(VideoEvent(r))
  BY ViewsAreNews
<1>3. /\ events \subseteq Moved(Read, wanted, today) \ DOMAIN memory.roster
      /\ narrated /\ ~IsBackfill(ViewsOn(wanted), WindowStart) =>
           Moved(Read, wanted, today) \subseteq events \cup DOMAIN memory.roster
  BY RosterIsNews
<1>4. \A t \in events : t.kind # "video" /\ ~IsOver(t) /\ Dated(t, today)
  BY <1>3, MovedIsRecent
<1>5. \A S : AsEvents(S) = {VideoEvent(r) : r \in S}
  BY DEF AsEvents, VideoEvent
<1>6. \A r : VideoEvent(r).kind = "video" /\ VideoEvent(r).person = r
  BY DEF VideoEvent, RosterEvent
<1> HIDE DEF d, section, scan, shown, refs, events
<1>7. LET m == NextMemory(refs, events)
      IN /\ Truthful(m)
         /\ DOMAIN m.views \subseteq DOMAIN memory.views \cup refs /\ refs \subseteq DOMAIN m.views
         /\ DOMAIN m.roster \subseteq DOMAIN memory.roster \cup events /\ events \subseteq DOMAIN m.roster
         /\ \A t : Knows(memory, t) => Knows(m, t) \/ IsOver(t)
  BY <1>2, <1>4, NextMemoryHolds
<1>8. \A t \in d.shows : ~Knows(memory, t) /\ ~IsOver(t) /\ Knows(d.next, t)
  <2>1. \A r \in shown : LET t == VideoEvent(r) IN ~Knows(memory, t) /\ ~IsOver(t) /\ Knows(d.next, t)
    BY <1>1, <1>2, <1>6, <1>7 DEF Knows
  <2>2. \A t \in events : ~Knows(memory, t) /\ ~IsOver(t) /\ Knows(d.next, t)
    BY <1>1, <1>3, <1>4, <1>7 DEF Knows
  <2>. QED
    BY <1>1, <1>5, <2>1, <2>2
<1>9. d.scan \subseteq {VideoEvent(r) : r \in DOMAIN memory.views} \cup d.views
  BY <1>1, <1>2, <1>5
<1>10. d.moved \subseteq DOMAIN memory.roster \cup d.shows
  BY <1>1, <1>3
<1>11. \A r \in DOMAIN d.next.views : r \in DOMAIN memory.views \/ VideoEvent(r) \in d.views
  BY <1>1, <1>5, <1>7
<1>12. \A t \in d.views \ d.shows : memory.views = <<>> /\ IsOlder(t)
  BY <1>1, <1>2, <1>5
<1>. QED
  BY <1>1, <1>7, <1>8, <1>9, <1>10, <1>11, <1>12 DEF d

-----------------------------------------------------------------------------
(* Step by step. *)

TalkInv == NightInv /\ MemoryInv /\ ToldInv /\ SaidInv

LEMMA TalkInit == Init => TalkInv
<1>. SUFFICES ASSUME Init PROVE TalkInv
  OBVIOUS
<1>1. DOMAIN <<>> = {} /\ \A S : <<>> \in Seq(S)
  OBVIOUS
<1>2. FirstDay \in Nat
  BY DigestConstants
<1>3. \A s \in Stances : s.ref \in VideoRefs
  BY DEF VideoRefs
<1>4. NightInv
  BY <1>1, <1>2, <1>3 DEF Init, NightInv, NoDraft
<1>5. DOMAIN memory.views = {} /\ DOMAIN memory.roster = {} /\ DOMAIN told = {} /\ draft = NoDraft
      /\ draft.phase = "none"
  BY <1>1 DEF Init, NoMemory, NoDraft
<1>6. MemoryInv
  BY <1>5 DEF MemoryInv, Truthful
<1>7. ToldInv
  BY <1>5 DEF ToldInv, RestOf
<1>8. SaidInv
  BY <1>5 DEF SaidInv, Backed
<1>. QED
  BY <1>4, <1>6, <1>7, <1>8 DEF TalkInv

LEMMA NightStep == NightInv /\ [Next]_vars => NightInv'
<1>. SUFFICES ASSUME NightInv, [Next]_vars PROVE NightInv'
  OBVIOUS
<1>. USE DEF NightInv
<1>1. CASE UNCHANGED vars
  BY <1>1 DEF vars
<1>2. CASE Distils
  <2>1. PICK c \in Sidecars : extracted' = [extracted EXCEPT ![c.ref] = Now]
    BY <1>2 DEF Distils
  <2>2. c.ref \in VideoRefs /\ \A s \in Stances : s.ref = c.ref => s.published <= today
    BY DigestConstants DEF Sidecars, VideoRefs
  <2>3. Now \in Nat
    BY DEF Now
  <2>4. \A s \in Stances : extracted'[s.ref] > 0 => s.published <= today
    BY <2>1, <2>2 DEF VideoRefs
  <2>. QED
    BY <1>2, <2>1, <2>2, <2>3, <2>4 DEF Distils
<1>3. CASE SetupsRuns
  <2>1. Now \in Nat
    BY DEF Now
  <2>2. [asOf |-> {today}, run |-> {Now}] \in [asOf : SUBSET Nat, run : SUBSET Nat]
    BY <2>1
  <2>. QED
    BY <1>3, <2>2 DEF SetupsRuns
<1>4. CASE DayTurns
  <2>1. \A s \in Stances : s.published \in Nat
    BY DigestConstants
  <2>2. today' = today + 1 /\ UNCHANGED <<extracted, snapshots, draft, unsaved>>
    BY <1>4 DEF DayTurns
  <2>. QED
    BY <2>1, <2>2
<1>5. CASE OrderEvent
  BY <1>5 DEF OrderEvent
<1>6. CASE Build
  <2>1. draft'.phase = "built" /\ DOMAIN draft' = DraftFields
    <3>1. \A n, w : Built(n, w).phase = "built" /\ DOMAIN Built(n, w) = DraftFields
      BY DEF Built, DraftFields
    <3>. QED
      BY <1>6, <3>1 DEF Build
  <2>. QED
    BY <1>6, <2>1 DEF Build
<1>7. CASE Deliver
  <2>1. draft # NoDraft
    BY <1>7 DEF Deliver, NoDraft
  <2>2. draft' = [draft EXCEPT !.phase = "sent"]
    BY <1>7 DEF Deliver
  <2>3. draft'.phase = "sent" /\ DOMAIN draft' = DraftFields
    BY <2>1, <2>2 DEF DraftFields
  <2>. QED
    BY <1>7, <2>3 DEF Deliver
<1>8. CASE MailFails \/ Save
  BY <1>8 DEF MailFails, Save
<1>9. CASE DiesUnsaved \/ LosesMemory
  BY <1>9 DEF DiesUnsaved, LosesMemory
<1>. QED
  BY <1>1, <1>2, <1>3, <1>4, <1>5, <1>6, <1>7, <1>8, <1>9 DEF Next

\* What is over is judged by the day and by what is read, and by nothing else.
LEMMA SameDay ==
  ASSUME UNCHANGED <<today, extracted>>
  PROVE  \A t : (IsOver(t)' <=> IsOver(t)) /\ \A by : Dated(t, by)' <=> Dated(t, by)
BY DEF IsOver, Dated

LEMMA QuietStep ==
  ASSUME TalkInv, Distils \/ OrderEvent \/ SetupsRuns \/ DayTurns \/ UNCHANGED vars
  PROVE  (MemoryInv /\ ToldInv /\ SaidInv)'
<1>1. UNCHANGED <<memory, draft, told, skipped, unsaved>>
  BY DEF Distils, OrderEvent, SetupsRuns, DayTurns, vars
<1>2. /\ today \in Nat /\ today' \in Nat /\ today <= today'
      /\ {ScanDays, RosterWindow} \subseteq Nat
  BY DigestConstants DEF TalkInv, NightInv, Distils, OrderEvent, SetupsRuns, DayTurns, vars
<1>3. \A s \in Stances : extracted[s.ref] > 0 => extracted'[s.ref] > 0
  <2>1. CASE Distils
    <3>1. PICK c \in Sidecars : extracted[c.ref] = 0 /\ extracted' = [extracted EXCEPT ![c.ref] = Now]
      BY <2>1 DEF Distils
    <3>2. extracted \in [VideoRefs -> Nat]
      BY DEF TalkInv, NightInv
    <3>. QED
      BY <3>1, <3>2 DEF VideoRefs
  <2>2. CASE UNCHANGED extracted
    BY <2>2
  <2>. QED
    BY <2>1, <2>2 DEF OrderEvent, SetupsRuns, DayTurns, vars
<1>4. \A t, by : Dated(t, by) => Dated(t, by)'
  BY <1>3, DatedStays
<1>5. ASSUME NEW t, IsOver(t) PROVE IsOver(t)'
  <2> DEFINE span == IF t.kind = "video" THEN ScanDays ELSE RosterWindow
  <2>1. today - span \in Int /\ today' - span \in Int /\ today - span <= today' - span
    BY <1>2
  <2>2. Dated(t, today - span)
    BY <1>5 DEF IsOver
  <2> HIDE DEF span
  <2>3. Dated(t, today' - span)
    BY <2>1, <2>2, DatedLater
  <2>4. PICK d : d = today' - span
    OBVIOUS
  <2>5. Dated(t, d)'
    BY <1>4, <2>3, <2>4
  <2>. QED
    BY <2>4, <2>5 DEF IsOver, span
<1>6. MemoryInv'
  BY <1>1, <1>4 DEF TalkInv, MemoryInv, Truthful
<1>7. ToldInv'
  BY <1>1, <1>5 DEF TalkInv, ToldInv, RestOf, Knows
<1>8. draft.phase = "built" => UNCHANGED today
  BY DEF Distils, OrderEvent, SetupsRuns, DayTurns, Idle, NoDraft, vars
<1>9. SaidInv'
  BY <1>1, <1>8 DEF TalkInv, SaidInv, Backed, IsOlder
<1>. QED
  BY <1>6, <1>7, <1>9

LEMMA BuildStep == TalkInv /\ Build => (MemoryInv /\ ToldInv /\ SaidInv)'
<1>. SUFFICES ASSUME TalkInv, Build PROVE (MemoryInv /\ ToldInv /\ SaidInv)'
  OBVIOUS
<1>1. PICK narrated \in BOOLEAN, wanted \in SUBSET Assets : draft' = Built(narrated, wanted)
  BY DEF Build
<1>2. UNCHANGED <<today, extracted, memory, told, skipped, unsaved>> /\ draft = NoDraft
  BY DEF Build, Idle
<1>3. \A t : (IsOver(t)' <=> IsOver(t)) /\ \A by : Dated(t, by)' <=> Dated(t, by)
  BY <1>2, SameDay
<1>4. LET d == draft'
      IN /\ DOMAIN d = DraftFields /\ d.phase = "built"
         /\ Truthful(d.next)
         /\ \A t \in d.shows : ~Knows(memory, t) /\ ~IsOver(t) /\ Knows(d.next, t)
         /\ \A t : Knows(memory, t) => Knows(d.next, t) \/ IsOver(t)
         /\ \A r \in DOMAIN d.next.views : r \in DOMAIN memory.views \/ VideoEvent(r) \in d.views
         /\ DOMAIN d.next.roster \subseteq DOMAIN memory.roster \cup d.shows
         /\ d.scan \subseteq {VideoEvent(r) : r \in DOMAIN memory.views} \cup d.views
         /\ d.moved \subseteq DOMAIN memory.roster \cup d.shows
         /\ \A t \in d.views \ d.shows : memory.views = <<>> /\ IsOlder(t)
  BY <1>1, BuiltHolds DEF TalkInv, MemoryInv
<1>5. MemoryInv'
  BY <1>2, <1>3, <1>4 DEF TalkInv, MemoryInv, Truthful
<1>6. draft.phase = "none"
  BY <1>2 DEF NoDraft
<1>7. /\ \A t \in DOMAIN told : told[t] \in Nat /\ told[t] <= 1 + unsaved
      /\ RestOf(memory) = {} /\ unsaved \in Nat
  BY <1>6 DEF TalkInv, ToldInv, NightInv
<1>8. \A t \in DOMAIN told : told[t] <= unsaved \/ Knows(memory, t) \/ IsOver(t)
  BY <1>7 DEF RestOf
<1>9. ToldInv'
  BY <1>2, <1>3, <1>4, <1>7, <1>8 DEF ToldInv, RestOf, Knows
<1>10. SaidInv'
  BY <1>2, <1>4 DEF TalkInv, SaidInv, Backed, IsOlder
<1>. QED
  BY <1>5, <1>9, <1>10

LEMMA DeliverStep == TalkInv /\ Deliver => (MemoryInv /\ ToldInv /\ SaidInv)'
<1>. SUFFICES ASSUME TalkInv, Deliver PROVE (MemoryInv /\ ToldInv /\ SaidInv)'
  OBVIOUS
<1>1. /\ draft.phase = "built" /\ draft # NoDraft
      /\ UNCHANGED <<today, extracted, memory, unsaved>>
      /\ skipped' = skipped \cup (draft.views \ draft.shows)
  BY DEF Deliver, NoDraft
<1>2. draft'.phase = "sent" /\ draft'.next = draft.next /\ draft' # NoDraft
  <2>1. DOMAIN draft = DraftFields /\ draft' = [draft EXCEPT !.phase = "sent"]
    BY <1>1 DEF TalkInv, NightInv, Deliver
  <2>2. draft'.phase = "sent" /\ draft'.next = draft.next
    BY <2>1 DEF DraftFields
  <2>. QED
    BY <2>2 DEF NoDraft
<1>3. \A t : (IsOver(t)' <=> IsOver(t)) /\ \A by : Dated(t, by)' <=> Dated(t, by)
  BY <1>1, SameDay
<1>4. /\ DOMAIN told' = DOMAIN told \cup draft.shows
      /\ \A t \in DOMAIN told' :
           told'[t] = (IF t \in DOMAIN told THEN told[t] ELSE 0) + (IF t \in draft.shows THEN 1 ELSE 0)
  BY DEF Deliver
<1>5. MemoryInv'
  BY <1>1, <1>2, <1>3 DEF TalkInv, MemoryInv, Truthful
<1>6. /\ \A t \in DOMAIN told : told[t] \in Nat /\ told[t] <= 1 + unsaved
      /\ RestOf(draft.next) = {} /\ unsaved \in Nat
      /\ \A t \in draft.shows : /\ Knows(draft.next, t) \/ IsOver(t)
                                /\ t \in DOMAIN told => told[t] <= unsaved
  BY <1>1 DEF TalkInv, ToldInv, NightInv
<1>7. \A t \in DOMAIN told' : told'[t] \in Nat /\ told'[t] <= 1 + unsaved
  BY <1>4, <1>6
<1>8. \A t \in DOMAIN told' : told'[t] <= unsaved \/ Knows(draft.next, t) \/ IsOver(t)
  BY <1>4, <1>6 DEF RestOf
<1>9. ToldInv'
  BY <1>1, <1>2, <1>3, <1>6, <1>7, <1>8 DEF ToldInv, RestOf, Knows
<1>10. SaidInv'
  <2>1. Backed(memory, {}, {}) /\ Backed(draft.next, draft.shows, draft.views)
    BY <1>1 DEF TalkInv, SaidInv
  <2>2. \A x : x \in DOMAIN told \cup skipped \cup draft.shows \cup draft.views =>
                 x \in DOMAIN told' \cup skipped'
    BY <1>1, <1>4
  <2>3. Backed(memory, {}, {})'
    BY <1>1, <1>4, <2>1, <2>2 DEF Backed
  <2>4. DOMAIN draft.next.roster \subseteq DOMAIN told'
    BY <1>4, <2>1 DEF Backed
  <2>5. Backed(draft.next, {}, {})'
    BY <1>2, <2>1, <2>2, <2>4 DEF Backed
  <2>. QED
    BY <1>2, <2>3, <2>5 DEF SaidInv
<1>. QED
  BY <1>5, <1>9, <1>10

LEMMA SaveStep == TalkInv /\ Save => (MemoryInv /\ ToldInv /\ SaidInv)'
<1>. SUFFICES ASSUME TalkInv, Save PROVE (MemoryInv /\ ToldInv /\ SaidInv)'
  OBVIOUS
<1>1. /\ draft.phase = "sent" /\ draft # NoDraft /\ memory' = draft.next
      /\ draft' = NoDraft /\ draft'.phase = "none"
      /\ UNCHANGED <<today, extracted, told, skipped, unsaved>>
  BY DEF Save, NoDraft
<1>2. \A t : (IsOver(t)' <=> IsOver(t)) /\ \A by : Dated(t, by)' <=> Dated(t, by)
  BY <1>1, SameDay
<1>3. MemoryInv'
  BY <1>1, <1>2 DEF TalkInv, MemoryInv, Truthful
<1>4. ToldInv'
  BY <1>1, <1>2 DEF TalkInv, ToldInv, RestOf, Knows
<1>5. SaidInv'
  BY <1>1 DEF TalkInv, SaidInv, Backed
<1>. QED
  BY <1>3, <1>4, <1>5

\* A digest that is not delivered said nothing; one whose memory is lost may be
\* said once more, and is counted.
LEMMA LossStep ==
  ASSUME TalkInv, MailFails \/ DiesUnsaved \/ LosesMemory
  PROVE  (MemoryInv /\ ToldInv /\ SaidInv)'
<1>1. /\ draft' = NoDraft /\ draft'.phase = "none" /\ unsaved \in Nat
      /\ UNCHANGED <<today, extracted, told, skipped>>
  BY DEF MailFails, DiesUnsaved, LosesMemory, Idle, NoDraft, TalkInv, NightInv
<1>2. /\ \A t \in DOMAIN told : told[t] \in Nat /\ told[t] <= 1 + unsaved
      /\ draft.phase # "sent" => RestOf(memory) = {}
  BY DEF TalkInv, ToldInv
<1>3. \A t : (IsOver(t)' <=> IsOver(t)) /\ \A by : Dated(t, by)' <=> Dated(t, by)
  BY <1>1, SameDay
<1>4. CASE MailFails
  <2>1. UNCHANGED <<memory, unsaved>> /\ RestOf(memory) = {}
    BY <1>2, <1>4 DEF MailFails
  <2>2. MemoryInv'
    BY <1>1, <1>3, <2>1 DEF TalkInv, MemoryInv, Truthful
  <2>3. ToldInv'
    BY <1>1, <1>2, <1>3, <2>1 DEF ToldInv, RestOf, Knows
  <2>. QED
    BY <1>1, <2>1, <2>2, <2>3 DEF TalkInv, SaidInv, Backed
<1>5. CASE DiesUnsaved \/ LosesMemory
  <2>1. unsaved' = unsaved + 1 /\ (memory' = memory \/ memory' = NoMemory)
    BY <1>5 DEF DiesUnsaved, LosesMemory
  <2>2. DOMAIN NoMemory.views = {} /\ DOMAIN NoMemory.roster = {}
    BY DEF NoMemory
  <2>3. MemoryInv'
    BY <1>1, <1>3, <2>1, <2>2 DEF TalkInv, MemoryInv, Truthful
  <2>4. \A t \in DOMAIN told : told[t] \in Nat /\ ~(told[t] > unsaved') /\ told[t] <= 1 + unsaved'
    BY <1>1, <1>2, <2>1
  <2>5. ToldInv'
    BY <1>1, <2>4 DEF ToldInv, RestOf
  <2>6. SaidInv'
    BY <1>1, <2>1, <2>2 DEF TalkInv, SaidInv, Backed
  <2>. QED
    BY <2>3, <2>5, <2>6
<1>. QED
  BY <1>4, <1>5

LEMMA TalkStep == TalkInv /\ [Next]_vars => TalkInv'
<1>. SUFFICES ASSUME TalkInv, [Next]_vars PROVE TalkInv'
  OBVIOUS
<1>1. NightInv'
  BY NightStep DEF TalkInv
<1>2. (MemoryInv /\ ToldInv /\ SaidInv)'
  BY QuietStep, BuildStep, DeliverStep, SaveStep, LossStep DEF Next
<1>. QED
  BY <1>1, <1>2 DEF TalkInv

\* A video or a change of mind is told once, but for the digests whose memory
\* was lost: a thing told is remembered until no digest looks back on it, though
\* the memory is pruned by the day it was FIRST told (digest.state,
\* digest.roster.remember, digest.views).
THEOREM NothingIsToldTwice == Spec => []ToldOnce
<1>1. TalkInv => ToldOnce
  BY DEF TalkInv, ToldInv, ToldOnce
<1>. QED
  BY <1>1, TalkInit, TalkStep, PTL DEF Spec

\* When a digest is out, all it looked back on and could tell has been told,
\* whatever mail failed and whatever memory was lost before, but the older videos
\* passed over by digests built while no video is remembered, the first or not
\* (digest.cli.main saves only what was delivered, digest.state.views_seen).
THEOREM AllIsTold == Spec => NothingIsForgotten
<1>1. TalkInv /\ [Next]_vars =>
        [(draft.phase = "built" /\ draft'.phase = "sent") =>
           /\ \A t \in (draft.scan \ skipped') \cup draft.moved : t \in DOMAIN told'
           /\ \A t \in skipped' \ skipped : memory.views = <<>> /\ IsOlder(t)]_vars
  <2>. SUFFICES ASSUME TalkInv, Next, draft.phase = "built", draft'.phase = "sent"
                PROVE  /\ \A t \in (draft.scan \ skipped') \cup draft.moved : t \in DOMAIN told'
                       /\ \A t \in skipped' \ skipped : memory.views = <<>> /\ IsOlder(t)
    OBVIOUS
  <2>1. draft # NoDraft /\ draft' # NoDraft /\ draft' # draft
    BY DEF NoDraft
  <2>2. Deliver
    BY <2>1 DEF Next, Distils, OrderEvent, SetupsRuns, DayTurns, Build, MailFails, Save,
                DiesUnsaved, LosesMemory, Idle
  <2>3. /\ DOMAIN told' = DOMAIN told \cup draft.shows
        /\ skipped' = skipped \cup (draft.views \ draft.shows)
    BY <2>2 DEF Deliver
  <2>4. /\ draft.scan \subseteq DOMAIN told \cup skipped \cup draft.shows \cup draft.views
        /\ draft.moved \subseteq DOMAIN told \cup draft.shows
        /\ \A t \in draft.views \ draft.shows : memory.views = <<>> /\ IsOlder(t)
    BY DEF TalkInv, SaidInv
  <2>. QED
    BY <2>3, <2>4
<1>. QED
  BY <1>1, TalkInit, TalkStep, PTL DEF Spec, NothingIsForgotten
=============================================================================
