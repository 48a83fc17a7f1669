---------------------------- MODULE CorpusProofs ----------------------------
(***************************************************************************)
(* Proofs about the corpus: the spend ledger is a floor, only what is past  *)
(* hope is written off, and the index is never wrong about itself.          *)
(***************************************************************************)
EXTENDS Corpus, DataProofs, SequenceTheorems

\* The command at work always has the same fields.
JobShape == DOMAIN job = {"step", "todo", "pool", "got", "half", "registry", "strikes", "solo"}

\* And so has the job of no command.
LEMMA IdleShape ==
  DOMAIN Idle = {"step", "todo", "pool", "got", "half", "registry", "strikes", "solo"}
BY DEF Idle

\* What holds of every state, whatever is at work.
WorldInv == /\ world \in Worlds /\ today \in Nat
            /\ JobShape

\* So it stays: what is out there is what it was, and no step runs the clock back.
LEMMA WorldStep ==
  ASSUME WorldInv, [Next]_vars
  PROVE  WorldInv' /\ world' = world
<1>. USE IdleShape DEF WorldInv, JobShape
<1>1. CASE Onward
  BY <1>1 DEF Onward, SweepVideo, SaveCard, SweepEnds, SearchFails, SearchAnswers, RecordSpend,
              StorePost, PullEnds, Distill, DistillEnds, Extract, ExtractEnds, SkipIndexed,
              ClearRows, Upsert, RecordIndexed, IndexEnds, Reading, Pulling, Indexing, worldVars
<1>2. CASE NightStarts
  BY <1>2 DEF NightStarts, worldVars
<1>3. CASE DayPasses
  BY <1>3 DEF DayPasses
<1>4. CASE PullByHand \/ ReconcileSpend
  BY <1>4 DEF PullByHand, ReconcileSpend, Pulling, worldVars
<1>5. CASE ForceIndex \/ RebuildIndex
  BY <1>5 DEF ForceIndex, RebuildIndex, Indexing, worldVars
<1>6. CASE Killed
  BY <1>6 DEF Killed, worldVars
<1>7. CASE UNCHANGED vars
  BY <1>7 DEF vars, worldVars
<1>. QED
  BY <1>1, <1>2, <1>3, <1>4, <1>5, <1>6, <1>7 DEF Next
\* The one step after which a cost is owed is an answer; what a command does
\* next is fixed by its step.
LEMMA JobMoves ==
  ASSUME JobShape
  PROVE  /\ SweepVideo => job.step = "roster" /\ job'.step = "roster"
         /\ SaveCard => job.step \in {"roster", "x"} /\ job'.step = job.step
         /\ SweepEnds => job.step = "roster" /\ job'.step \in {"distill", "x"}
         /\ PullByHand => job.step = "idle" /\ job'.step = "x"
         /\ SearchFails \/ StorePost => job.step = "x" /\ job'.step = "x"
         /\ SearchAnswers => job.step = "x" /\ job'.step = "paying"
         /\ RecordSpend => job.step = "paying" /\ job'.step = "x"
         /\ PullEnds => job.step = "x" /\ job'.step \in {"idle", "distill"}
         /\ Distill => job.step = "distill" /\ job'.step = "distill"
         /\ DistillEnds => job.step = "distill" /\ job'.step = "extract"
         /\ Extract => job.step = "extract" /\ job'.step = "extract"
         /\ ExtractEnds => job.step = "extract" /\ job'.step = "index"
         /\ SkipIndexed => job.step = "index" /\ job'.step = "index"
         /\ ClearRows => job.step = "index" /\ job'.step = "filling"
         /\ Upsert => job.step = "filling" /\ job'.step = "filling"
         /\ RecordIndexed => job.step = "filling" /\ job'.step = "index"
         /\ IndexEnds => job.step = "index" /\ job'.step = "idle"
         /\ NightStarts => job.step = "idle" /\ job'.step = "roster"
         /\ ForceIndex \/ RebuildIndex => job.step = "idle" /\ job'.step = "index"
         /\ Killed => job.step # "idle" /\ job'.step = "idle"
         /\ DayPasses \/ ReconcileSpend => job.step = "idle" /\ UNCHANGED job
<1>. USE IdleShape DEF JobShape, Idle
<1>1. SweepVideo => job.step = "roster" /\ job'.step = "roster"
  BY DEF SweepVideo
<1>2. SaveCard => job.step \in {"roster", "x"} /\ job'.step = job.step
  BY DEF SaveCard
<1>3. SweepEnds => job.step = "roster" /\ job'.step \in {"distill", "x"}
  BY DEF SweepEnds, Reading, Pulling
<1>4. PullByHand => job.step = "idle" /\ job'.step = "x"
  BY DEF PullByHand, Pulling
<1>5. SearchFails \/ StorePost => job.step = "x" /\ job'.step = "x"
  BY DEF SearchFails, StorePost
<1>6. /\ SearchAnswers => job.step = "x" /\ job'.step = "paying"
      /\ RecordSpend => job.step = "paying" /\ job'.step = "x"
  BY DEF SearchAnswers, RecordSpend
<1>7. PullEnds => job.step = "x" /\ job'.step \in {"idle", "distill"}
  BY DEF PullEnds, Reading
<1>8. /\ Distill => job.step = "distill" /\ job'.step = "distill"
      /\ DistillEnds => job.step = "distill" /\ job'.step = "extract"
  BY DEF Distill, DistillEnds
<1>9. Extract => job.step = "extract" /\ job'.step = "extract"
  BY DEF Extract
<1>10. ExtractEnds => job.step = "extract" /\ job'.step = "index"
  BY DEF ExtractEnds, Indexing
<1>11. /\ SkipIndexed => job.step = "index" /\ job'.step = "index"
       /\ ClearRows => job.step = "index" /\ job'.step = "filling"
  BY DEF SkipIndexed, ClearRows
<1>12. /\ Upsert => job.step = "filling" /\ job'.step = "filling"
       /\ RecordIndexed => job.step = "filling" /\ job'.step = "index"
  BY DEF Upsert, RecordIndexed
<1>13. /\ IndexEnds => job.step = "index" /\ job'.step = "idle"
       /\ Killed => job.step # "idle" /\ job'.step = "idle"
  BY DEF IndexEnds, Killed
<1>14. NightStarts => job.step = "idle" /\ job'.step = "roster"
  BY DEF NightStarts
<1>15. ForceIndex \/ RebuildIndex => job.step = "idle" /\ job'.step = "index"
  BY DEF ForceIndex, RebuildIndex, Indexing
<1>16. DayPasses \/ ReconcileSpend => job.step = "idle" /\ UNCHANGED job
  BY DEF DayPasses, ReconcileSpend
<1>. QED
  BY <1>1, <1>2, <1>3, <1>4, <1>5, <1>6, <1>7, <1>8, <1>9, <1>10, <1>11, <1>12, <1>13, <1>14,
     <1>15, <1>16

\* What the sweep does with a video: passes it over, buries it, or takes it in.
Buried(item, answer) ==
  /\ Bucket(item.id, answer, {d[1] : d \in DOMAIN text}, DOMAIN job.registry, item.age, today)
       = "dead"
  /\ job'.registry = Put(job.registry, item.id, today)
  /\ job'.half = <<>> /\ UNCHANGED <<text, stamp>>

PassedOver == job'.registry = job.registry /\ job'.half = <<>> /\ UNCHANGED <<text, stamp>>

TakenIn(item) ==
  /\ job'.registry = job.registry /\ job'.half[1] = <<item.id, 0>>
  /\ text' = Put(text, <<item.id, 0>>, {item.id}) /\ stamp' = Touched(<<item.id, 0>>, "text")

\* One of the three happens to one video, and the worklist only shrinks.
LEMMA SweepOutcomes ==
  ASSUME JobShape, SweepVideo
  PROVE  /\ job'.pool \subseteq job.pool
         /\ \E item \in job.pool : \E answer \in Answers(item.id) :
              Buried(item, answer) \/ PassedOver \/ TakenIn(item)
<1> DEFINE bucket(item, answer) ==
             Bucket(item.id, answer, {d[1] : d \in DOMAIN text}, DOMAIN job.registry, item.age,
                    today)
           onward(item) == [job EXCEPT !.pool = @ \ {item}]
           kept    == UNCHANGED <<text, stamp>>
           past(item) == job' = onward(item) /\ kept
           lost(item, answer) ==
             /\ bucket(item, answer) = "dead" /\ kept
             /\ job' = [onward(item) EXCEPT !.registry = Put(@, item.id, today)]
           cut == job' = [job EXCEPT !.pool = {}] /\ kept
           found(item, answer) ==
             /\ text' = Put(text, <<item.id, 0>>, {item.id})
             /\ stamp' = Touched(<<item.id, 0>>, "text")
             /\ job' = [onward(item) EXCEPT !.half =
                          <<<<item.id, 0>>,
                            [person |-> item.person, published |-> answer.published]>>]
<1>1. /\ job.half = <<>>
      /\ \E item \in job.pool : \E answer \in Answers(item.id) :
           past(item) \/ lost(item, answer) \/ cut \/ found(item, answer)
  BY DEF SweepVideo
<1>2. PICK item \in job.pool : \E answer \in Answers(item.id) :
           past(item) \/ lost(item, answer) \/ cut \/ found(item, answer)
  BY <1>1
<1>3. PICK answer \in Answers(item.id) :
           past(item) \/ lost(item, answer) \/ cut \/ found(item, answer)
  BY <1>2
<1>4. CASE past(item)
  BY <1>1, <1>4 DEF JobShape, PassedOver
<1>5. CASE lost(item, answer)
  <2> HIDE DEF bucket
  <2>1. /\ job'.registry = Put(job.registry, item.id, today) /\ job'.half = <<>>
        /\ job'.pool \subseteq job.pool
    BY <1>1, <1>5 DEF JobShape
  <2>. QED
    BY <1>5, <2>1 DEF Buried, bucket
<1>6. CASE cut
  BY <1>1, <1>6 DEF JobShape, PassedOver
<1>7. CASE found(item, answer)
  BY <1>7 DEF JobShape, TakenIn
<1>. QED
  BY <1>3, <1>4, <1>5, <1>6, <1>7

-----------------------------------------------------------------------------
(* The ledger.  While an answer is on disk and not yet recorded, what it     *)
(* costs is billed and still to be counted; the files on disk together never *)
(* come to more than was billed, for a day asked again writes over its own.  *)

OnDisk(f) == IsFiniteSet(DOMAIN f) /\ \A d \in DOMAIN f : f[d] = Cost

SpendInv ==
  /\ ledger \in Nat /\ billed \in Nat /\ ledger <= billed
  /\ OnDisk(raw) /\ SumFunction(raw) \in Nat /\ SumFunction(raw) <= billed
  /\ job.step = "paying" => ledger + Cost <= billed

\* One more file adds at most what one search costs.
LEMMA OneMoreFile ==
  ASSUME NEW f, OnDisk(f), NEW day
  PROVE  LET g == Put(f, day, Cost)
         IN OnDisk(g) /\ SumFunction(g) \in Nat /\ SumFunction(g) <= SumFunction(f) + Cost
<1> DEFINE g == Put(f, day, Cost)
           D == DOMAIN f
           E == DOMAIN g
<1>1. /\ E = D \cup {day} /\ IsFiniteSet(D) /\ Cost \in Nat
      /\ \A d \in D : f[d] = Cost
      /\ \A d \in E : g[d] = Cost
  <2>1. /\ DOMAIN g = DOMAIN f \cup {day} /\ g[day] = Cost
        /\ \A d \in DOMAIN f : d # day => g[d] = f[d]
    BY DEF Put
  <2>2. IsFiniteSet(DOMAIN f) /\ (\A d \in DOMAIN f : f[d] = Cost) /\ Cost \in Nat
    BY WorldsAssumption DEF OnDisk
  <2> HIDE DEF g
  <2>. QED
    BY <2>1, <2>2
<1>2. IsFiniteSet(E) /\ IsFiniteSet(E \ {day})
  BY <1>1, FS_AddElement, FS_RemoveElement
<1> HIDE DEF g, D, E
<1>3. /\ SumFunctionOnSet(g, E) \in Nat
      /\ SumFunctionOnSet(g, E) = Cost + SumFunctionOnSet(g, E \ {day})
  BY <1>1, <1>2, SumProperties
<1>4. SumFunctionOnSet(f, D) \in Nat
  BY <1>1, SumProperties
<1>5. SumFunctionOnSet(g, E \ {day}) <= SumFunctionOnSet(f, D)
  <2> DEFINE h == [d \in E |-> d]
  <2>1. \A d \in E \ {day} : h[d] = d /\ d \in D /\ g[d] \in Nat /\ g[d] <= f[d]
    BY <1>1
  <2>2. \A d \in D : f[d] \in Nat
    BY <1>1
  <2> HIDE DEF h
  <2>. QED
    BY <1>1, <1>2, <2>1, <2>2, SumCovered
<1>6. SumFunctionOnSet(g, E \ {day}) \in Nat
  BY <1>1, <1>2, SumProperties
<1>. QED
  BY <1>1, <1>2, <1>3, <1>4, <1>5, <1>6 DEF SumFunction, OnDisk, g, D, E

\* What may have been billed without an answer is a number of requests.
LEMMA UnansweredCounts ==
  ASSUME NEW tries, Len(tries) \in Nat, DOMAIN tries = 1 .. Len(tries)
  PROVE  SearchOutcome(tries).unanswered \in Nat
<1> DEFINE done == {i \in DOMAIN tries : tries[i] \notin {"timeout", "refused"}}
           n == IF \E i \in DOMAIN tries : tries[i] \notin {"timeout", "refused"}
                  THEN Min(done) ELSE Len(tries)
           lost == {i \in 1 .. n : tries[i] = "timeout"}
<1>1. n \in Nat
  <2>1. done \in SUBSET Nat
    OBVIOUS
  <2>2. done # {} => Min(done) \in done
    BY <2>1, MinIsLeast
  <2> HIDE DEF done
  <2>3. CASE \E i \in DOMAIN tries : tries[i] \notin {"timeout", "refused"}
    <3>1. done # {}
      BY <2>3 DEF done
    <3>. QED
      BY <2>1, <2>2, <2>3, <3>1
  <2>. QED
    BY <2>3
<1> HIDE DEF n
<1>2. lost \in SUBSET (1 .. n) /\ IsFiniteSet(1 .. n)
  BY <1>1, FS_Interval
<1>3. Cardinality(lost) \in Nat
  BY <1>2, FS_Subset, FS_CardinalityType
<1>. QED
  BY <1>3 DEF SearchOutcome, n

\* The larger of two numbers is one of them and at least each.
LEMMA LargerOfTwo ==
  ASSUME NEW a \in Nat, NEW b \in Nat
  PROVE  Max({a, b}) \in {a, b} /\ a <= Max({a, b}) /\ b <= Max({a, b})
<1>1. \E x \in {a, b} : \A y \in {a, b} : x >= y
  BY SMT
<1>. QED
  BY <1>1 DEF Max

\* The four steps that move money.
Billing == SearchFails \/ SearchAnswers \/ RecordSpend \/ ReconcileSpend

\* A step that bills nothing and records nothing touches neither.
LEMMA OthersSpendNothing ==
  ASSUME WorldInv, [Next]_vars, ~Billing
  PROVE  UNCHANGED <<ledger, billed, raw>> /\ (job'.step # "paying" \/ UNCHANGED job)
<1>1. UNCHANGED <<ledger, billed, raw>>
  <2>1. CASE SweepVideo \/ SaveCard \/ SweepEnds
    BY <2>1 DEF SweepVideo, SaveCard, SweepEnds, spendVars
  <2>2. CASE StorePost \/ PullEnds \/ Distill \/ DistillEnds
    BY <2>2 DEF StorePost, PullEnds, Distill, DistillEnds, spendVars
  <2>3. CASE Extract \/ ExtractEnds \/ SkipIndexed \/ ClearRows \/ Upsert
    BY <2>3 DEF Extract, ExtractEnds, SkipIndexed, ClearRows, Upsert, spendVars
  <2>4. CASE RecordIndexed \/ IndexEnds \/ NightStarts \/ DayPasses
    BY <2>4 DEF RecordIndexed, IndexEnds, NightStarts, DayPasses, spendVars
  <2>5. CASE PullByHand \/ ForceIndex \/ RebuildIndex \/ Killed \/ UNCHANGED vars
    BY <2>5 DEF PullByHand, ForceIndex, RebuildIndex, Killed, vars, spendVars
  <2>. QED
    BY <2>1, <2>2, <2>3, <2>4, <2>5 DEF Next, Onward, Billing
<1>2. job'.step # "paying" \/ UNCHANGED job
  BY JobMoves DEF Next, Onward, WorldInv, Billing, vars
<1>. QED
  BY <1>1, <1>2

\* Every bill is met by the ledger or still owed to it.
LEMMA SpendStep ==
  ASSUME WorldInv, SpendInv, [Next]_vars
  PROVE  SpendInv'
<1>. USE WorldsAssumption DEF WorldInv, SpendInv
<1>1. CASE SearchFails
  <2>1. PICK tries \in {<<"http">>, <<"timeout", "refused", "timeout">>} :
          billed' = billed + Cost * SearchOutcome(tries).unanswered
    BY <1>1 DEF SearchFails
  <2>2. SearchOutcome(tries).unanswered \in Nat
    <3>1. Len(tries) \in Nat /\ DOMAIN tries = 1 .. Len(tries)
      BY <2>1
    <3>. QED
      BY <3>1, UnansweredCounts
  <2>3. Cost * SearchOutcome(tries).unanswered \in Nat
    BY <2>2
  <2>4. UNCHANGED <<ledger, raw>> /\ job'.step # "paying"
    BY <1>1 DEF SearchFails, JobShape
  <2>. QED
    BY <2>1, <2>3, <2>4
<1>2. CASE SearchAnswers
  <2>1. /\ billed' = billed + Cost /\ raw' = Put(raw, Min(job.todo), Cost) /\ ledger' = ledger
    BY <1>2 DEF SearchAnswers
  <2>2. OnDisk(raw') /\ SumFunction(raw') \in Nat /\ SumFunction(raw') <= SumFunction(raw) + Cost
    BY <2>1, OneMoreFile
  <2>. QED
    BY <2>1, <2>2
<1>3. CASE RecordSpend
  <2>1. /\ job.step = "paying" /\ ledger' = ledger + Cost /\ UNCHANGED <<billed, raw>>
        /\ job'.step # "paying"
    BY <1>3 DEF RecordSpend, SpendRecord, JobShape
  <2>. QED
    BY <2>1
<1>4. CASE ReconcileSpend
  <2>1. /\ job.step = "idle" /\ ledger' = Max({ledger, SumFunction(raw)})
        /\ UNCHANGED <<billed, raw, job>>
    BY <1>4 DEF ReconcileSpend, Reconcile
  <2>2. ledger' \in {ledger, SumFunction(raw)}
    BY <2>1, LargerOfTwo
  <2>. QED
    BY <2>1, <2>2
<1>5. ASSUME UNCHANGED <<ledger, billed, raw>>, job'.step # "paying" \/ job' = job
      PROVE  SpendInv'
  BY <1>5
<1>6. CASE ~Billing
  BY <1>5, <1>6, OthersSpendNothing
<1>. QED
  BY <1>1, <1>2, <1>3, <1>4, <1>6 DEF Billing

\* The ledger of X never claims more than was billed: whatever is searched,
\* refused, timed out, killed before it was recorded, asked again of the same
\* day, or made up from the files on disk (ingestion.spend.record, reconcile).
THEOREM SpendIsAFloor == Spec => []LedgerIsFloor
<1>1. Init => WorldInv /\ SpendInv
  <2> SUFFICES ASSUME Init PROVE WorldInv /\ SpendInv
    OBVIOUS
  <2>1. WorldInv /\ job.step # "paying"
    BY IdleShape DEF Init, WorldInv, JobShape, Idle
  <2>2. raw = <<>> /\ ledger = 0 /\ billed = 0
    BY DEF Init
  <2>3. DOMAIN raw = {} /\ IsFiniteSet({})
    BY <2>2, FS_EmptySet
  <2>4. SumFunction(raw) = 0
    BY <2>3, SumProperties DEF SumFunction
  <2>. QED
    BY <2>1, <2>2, <2>3, <2>4 DEF SpendInv, OnDisk
<1>2. WorldInv /\ SpendInv /\ [Next]_vars => (WorldInv /\ SpendInv)'
  BY WorldStep, SpendStep
<1>3. SpendInv => LedgerIsFloor
  BY DEF SpendInv, LedgerIsFloor
<1>. QED
  BY <1>1, <1>2, <1>3, PTL DEF Spec
-----------------------------------------------------------------------------
(* Written-off videos.  The sweep works on what is listed, and carries the   *)
(* registry in memory to the end of the night.                               *)

Hopeless(v) ==
  LET video == world.videos[v]
  IN video.captions = NoDay \/ video.captions >= video.published + Grace

BurialInv ==
  /\ \A v \in DOMAIN dead : Hopeless(v)
  /\ job.step = "roster" =>
       /\ \A item \in job.pool : item.id \in DOMAIN world.videos
       /\ \A v \in DOMAIN job.registry : Hopeless(v)

\* What a night is to work through are videos there are.
LEMMA WorklistIsListed ==
  ASSUME WorldInv, NEW targets, NEW item \in Worklist(targets)
  PROVE  item.id \in DOMAIN world.videos
<1>1. PICK t \in targets :
        item \in {[id |-> world.listed[i], person |-> t.person, age |-> t.max_age_days] :
                    i \in ResolveRecent(t.tabs, Listing(t.channel), t.max_videos)}
  BY DEF Worklist
<1>2. PICK i \in ResolveRecent(t.tabs, Listing(t.channel), t.max_videos) :
        item.id = world.listed[i]
  BY <1>1
<1>3. PICK tab \in DOMAIN Listing(t.channel) : i \in Listing(t.channel)[tab]
  BY <1>2 DEF ResolveRecent
<1>4. i \in DOMAIN world.listed
  BY <1>3 DEF Listing
<1>5. world.listed \in Seq(DOMAIN world.videos)
  BY WorldsAssumption DEF WorldInv
<1>. QED
  BY <1>2, <1>4, <1>5

\* A video is buried for a refusal that stands, given by a sound answer, once
\* the days of grace are over: no captions came in those days.
LEMMA OnlyHopelessDie ==
  ASSUME WorldInv, NEW id \in DOMAIN world.videos, NEW answer \in Answers(id),
         NEW stored, NEW registry, NEW age,
         Bucket(id, answer, stored, registry, age, today) = "dead"
  PROVE  Hopeless(id)
<1> DEFINE video == world.videos[id]
           honest == Honest(video)
<1>1. /\ answer.published # NoDay /\ answer.fetch \in Permanent
      /\ ~(today - answer.published < Grace)
  BY DEF Bucket, TranscriptVerdict, MetadataVerdict
<1>2. answer.published = honest.published /\ answer.fetch = honest.fetch
  BY <1>1 DEF Answers, Permanent, Honest
<1>3. /\ video.published = answer.published
      /\ video.captions = NoDay \/ video.captions > today
  BY <1>1, <1>2, WorldsAssumption DEF Honest, Permanent, WorldInv
<1>4. video.published \in Nat /\ video.captions \in Nat /\ today \in Nat /\ Grace \in Nat
  BY WorldsAssumption DEF WorldInv
<1>. QED
  BY <1>1, <1>3, <1>4 DEF Hopeless

\* The registry goes from disk to the sweep and back with what the sweep adds.
LEMMA BurialStep ==
  ASSUME WorldInv, BurialInv, [Next]_vars
  PROVE  BurialInv'
<1>1. world' = world /\ JobShape
  BY WorldStep DEF WorldInv
<1>2. \A v : Hopeless(v) => Hopeless(v)'
  BY <1>1 DEF Hopeless
<1>3. CASE NightStarts
  <2>1. PICK listed : job' = [Idle EXCEPT !.step = "roster", !.pool = Worklist(listed), !.registry = dead]
    BY <1>3 DEF NightStarts
  <2>2. job'.pool = Worklist(listed) /\ job'.registry = dead /\ dead' = dead
    BY <1>3, <2>1, IdleShape DEF NightStarts, corpusVars
  <2>. QED
    BY <1>1, <1>2, <2>2, WorklistIsListed DEF BurialInv
<1>4. CASE SweepVideo
  <2>1. PICK item \in job.pool : \E answer \in Answers(item.id) :
          Buried(item, answer) \/ PassedOver \/ TakenIn(item)
    BY <1>1, <1>4, SweepOutcomes
  <2>2. PICK answer \in Answers(item.id) : Buried(item, answer) \/ PassedOver \/ TakenIn(item)
    BY <2>1
  <2>3. job.step = "roster" /\ dead' = dead /\ job'.pool \subseteq job.pool
    BY <1>1, <1>4, SweepOutcomes DEF SweepVideo
  <2>4. item.id \in DOMAIN world.videos
    BY <2>3 DEF BurialInv
  <2>5. CASE Buried(item, answer)
    <3>1. Hopeless(item.id)
      BY <2>4, <2>5, OnlyHopelessDie DEF Buried
    <3>2. \A v \in DOMAIN job'.registry : Hopeless(v)
      BY <2>3, <2>5, <3>1 DEF Buried, BurialInv, Put
    <3>. QED
      BY <1>1, <1>2, <2>3, <3>2 DEF BurialInv
  <2>6. CASE PassedOver \/ TakenIn(item)
    BY <1>1, <1>2, <2>3, <2>6 DEF BurialInv, PassedOver, TakenIn
  <2>. QED
    BY <2>2, <2>5, <2>6
<1>5. CASE SaveCard
  BY <1>1, <1>2, <1>5 DEF SaveCard, JobShape, BurialInv
<1>6. CASE SweepEnds
  BY <1>1, <1>2, <1>6, JobMoves DEF SweepEnds, BurialInv
<1>7. ASSUME UNCHANGED dead, job'.step # "roster" \/ UNCHANGED job
      PROVE  BurialInv'
  BY <1>1, <1>2, <1>7 DEF BurialInv
<1>8. CASE ~(NightStarts \/ SweepVideo \/ SaveCard \/ SweepEnds)
  <2>1. UNCHANGED dead
    <3>1. CASE SearchFails \/ SearchAnswers \/ RecordSpend \/ StorePost \/ PullEnds
      BY <3>1 DEF SearchFails, SearchAnswers, RecordSpend, StorePost, PullEnds, corpusVars
    <3>2. CASE Distill \/ DistillEnds \/ Extract \/ ExtractEnds
      BY <3>2 DEF Distill, DistillEnds, Extract, ExtractEnds, corpusVars
    <3>3. CASE SkipIndexed \/ ClearRows \/ Upsert \/ RecordIndexed \/ IndexEnds
      BY <3>3 DEF SkipIndexed, ClearRows, Upsert, RecordIndexed, IndexEnds, corpusVars
    <3>4. CASE DayPasses \/ PullByHand \/ ReconcileSpend
      BY <3>4 DEF DayPasses, PullByHand, ReconcileSpend, corpusVars
    <3>5. CASE ForceIndex \/ RebuildIndex \/ Killed \/ UNCHANGED vars
      BY <3>5 DEF ForceIndex, RebuildIndex, Killed, vars, corpusVars
    <3>. QED
      BY <1>8, <3>1, <3>2, <3>3, <3>4, <3>5 DEF Next, Onward
  <2>2. job'.step # "roster" \/ UNCHANGED job
    BY <1>1, <1>8, JobMoves DEF Next, Onward, vars
  <2>. QED
    BY <1>7, <2>1, <2>2
<1>. QED
  BY <1>3, <1>4, <1>5, <1>6, <1>8

\* A video in the registry of the dead is one whose captions never come, or
\* came only after the days allowed for them, whatever the connection did on
\* the nights it was met (ingestion.roster, ingestion.deadletters).
THEOREM OnlyTheHopelessAreBuried == Spec => []OnlyHopelessBuried
<1>1. Init => WorldInv /\ BurialInv
  <2> SUFFICES ASSUME Init PROVE WorldInv /\ BurialInv
    OBVIOUS
  <2>1. WorldInv /\ job.step # "roster"
    BY IdleShape DEF Init, WorldInv, JobShape, Idle
  <2>2. DOMAIN dead = {}
    BY DEF Init
  <2>. QED
    BY <2>1, <2>2 DEF BurialInv
<1>2. WorldInv /\ BurialInv /\ [Next]_vars => (WorldInv /\ BurialInv)'
  BY WorldStep, BurialStep
<1>3. BurialInv => OnlyHopelessBuried
  BY DEF BurialInv, OnlyHopelessBuried, Hopeless
<1>. QED
  BY <1>1, <1>2, <1>3, PTL DEF Spec
-----------------------------------------------------------------------------
(* The index.  Only one command is at work, so nothing is written while a    *)
(* pass reads; and a write always raises a document's fingerprint over what  *)
(* it was indexed at.  What a pass may leave half done is a document its     *)
(* ledger does not vouch for.                                                *)

Files  == {"text", "card", "stance"}
Stamps == [text : Nat, card : Nat, stance : Nat]

FilesInv ==
  /\ \A d \in DOMAIN stamp : stamp[d] \in Stamps
  /\ DOMAIN indexed \subseteq Docs /\ Docs \subseteq DOMAIN stamp /\ Docs \subseteq DOMAIN text
  /\ job.step # "filling" /\ job.half # <<>> => job.half[1] \in DOMAIN text
  /\ \A d \in DOMAIN indexed : indexed[d] \in Nat /\ indexed[d] <= Fingerprint(stamp[d])

RowsOn(d) == {r \in rows : r.doc = d}
Fresh(d)  == d \in DOMAIN indexed /\ indexed[d] = Fingerprint(stamp[d])

PassInv ==
  /\ job.step \in {"index", "filling"} =>
       /\ job.todo \subseteq Paths
       /\ ~job.solo => \A d \in job.todo \cap DOMAIN indexed :
                         d \in DOMAIN job.registry /\ job.registry[d] = indexed[d]
  /\ job.step = "filling" =>
       LET d == First(job.todo)
       IN /\ job.todo # {} /\ job.half = <<Fingerprint(stamp[d])>>
          /\ job.pool \subseteq CurrentRows(d)
          /\ RowsOn(d) \cup job.pool = CurrentRows(d)
          /\ ~job.solo => ~Fresh(d)

\* The document a pass is at is one of those it has left.
LEMMA FirstIsLeft ==
  ASSUME WorldInv, NEW docs \in SUBSET Paths, docs # {}
  PROVE  First(docs) \in docs
<1> DEFINE Places == {Place(d) : d \in docs}
<1>1. world.paths \in Seq(AllDocs)
  BY WorldsAssumption DEF WorldInv
<1>2. \A d \in docs : Place(d) \in DOMAIN world.paths
  BY DEF Paths, ToSet, Place
<1>3. DOMAIN world.paths \subseteq Nat
  BY <1>1
<1>4. Places \in SUBSET Nat /\ Places # {}
  BY <1>2, <1>3
<1>5. PICK m \in Places : \A p \in Places : m <= p
  BY <1>4, LeastExists
<1>6. \E d \in docs : \A e \in docs : Place(d) <= Place(e)
  BY <1>5
<1>. QED
  BY <1>6, Zenon DEF First

\* The fingerprint is the newest of a document's three stamps.
LEMMA FingerprintIsNewest ==
  ASSUME NEW s \in Stamps
  PROVE  /\ Fingerprint(s) \in Nat
         /\ \A file \in Files : s[file] <= Fingerprint(s)
<1> DEFINE S == {s.text, s.card, s.stance}
<1>1. \E x \in S : \A y \in S : x >= y
  BY DEF Stamps
<1>2. Max(S) \in S /\ \A y \in S : Max(S) >= y
  BY <1>1, Zenon DEF Max
<1>. QED
  BY <1>2 DEF Fingerprint, Stamps, Files

\* A write puts a document's fingerprint over what it was.
LEMMA TouchRaises ==
  ASSUME \A d \in DOMAIN stamp : stamp[d] \in Stamps, NEW doc, NEW file \in Files,
         stamp' = Touched(doc, file)
  PROVE  /\ DOMAIN stamp' = DOMAIN stamp \cup {doc}
         /\ \A d \in DOMAIN stamp' : stamp'[d] \in Stamps
         /\ \A d \in DOMAIN stamp : d # doc => stamp'[d] = stamp[d]
         /\ doc \in DOMAIN stamp => Fingerprint(stamp[doc]) < Fingerprint(stamp'[doc])
<1> DEFINE old == Stamped(doc)
           new == [old EXCEPT ![file] = 1 + Fingerprint(old)]
<1>1. old \in Stamps /\ Fingerprint(old) \in Nat
  <2>1. old \in Stamps
    BY DEF Stamped, Stamps
  <2>. QED
    BY <2>1, FingerprintIsNewest
<1>2. new \in Stamps /\ new[file] = 1 + Fingerprint(old)
  BY <1>1 DEF Stamps, Files
<1>3. Fingerprint(old) < Fingerprint(new)
  BY <1>1, <1>2, FingerprintIsNewest
<1>4. stamp' = Put(stamp, doc, new)
  BY DEF Touched
<1>5. doc \in DOMAIN stamp => old = stamp[doc]
  BY DEF Stamped
<1> HIDE DEF old, new
<1>. QED
  BY <1>2, <1>3, <1>4, <1>5 DEF Put

\* A document's rows are told apart by their passages.
LEMMA RowsAreItsOwn ==
  ASSUME NEW d
  PROVE  /\ \A r \in CurrentRows(d) : r.doc = d
         /\ \A r, s \in CurrentRows(d) : r.id = s.id => r = s
BY DEF CurrentRows, RowsOf

\* The four steps that write to the corpus: one document's file, by a command
\* that is not indexing.
Saves(doc, file) ==
  /\ file \in Files /\ stamp' = Touched(doc, file)
  /\ text' = text \/ \E v : text' = Put(text, doc, v)
  /\ card' = card \/ \E v : card' = Put(card, doc, v)
  /\ stances' = stances \/ \E v : stances' = Put(stances, doc, v)
  /\ UNCHANGED indexVars
  /\ {job.step, job'.step} \cap {"index", "filling"} = {}
  /\ job'.half # <<>> => job'.half[1] \in DOMAIN text'
  /\ DOMAIN card' \subseteq DOMAIN text'

KeepsHalf ==
  \/ job'.half = <<>> \/ job'.step = "filling"
  \/ job'.half = job.half /\ job.step # "filling"

KeepsFiles == UNCHANGED <<text, card, stances, stamp>> /\ KeepsHalf

\* Writing leaves every other document's rows and stamps what they are.
LEMMA SavesOne ==
  ASSUME FilesInv, NEW doc, NEW file, Saves(doc, file)
  PROVE  \A d \in Docs : d # doc =>
           /\ stamp'[d] = stamp[d]
           /\ CurrentRows(d)' = CurrentRows(d)
<1> SUFFICES ASSUME NEW d \in Docs, d # doc
             PROVE  stamp'[d] = stamp[d] /\ CurrentRows(d)' = CurrentRows(d)
  OBVIOUS
<1>1. d \in DOMAIN stamp /\ d \in DOMAIN text /\ d \in DOMAIN card
  BY DEF FilesInv, Docs
<1>2. stamp'[d] = stamp[d]
  BY <1>1, TouchRaises DEF Saves, FilesInv
<1>3. text'[d] = text[d]
  BY <1>1 DEF Saves, Put
<1>4. card'[d] = card[d]
  BY <1>1 DEF Saves, Put
<1>5. StancesOf(d)' = StancesOf(d)
  BY DEF Saves, Put, StancesOf
<1>. QED
  BY <1>2, <1>3, <1>4, <1>5 DEF CurrentRows

\* What is half saved is let go of, kept, or replaced by a pass's fingerprint.
LEMMA OthersKeepHalf ==
  ASSUME JobShape, [Next]_vars, ~(SweepVideo \/ SaveCard \/ StorePost \/ Extract)
  PROVE  KeepsHalf
<1>. USE IdleShape, JobMoves DEF KeepsHalf, JobShape
<1>1. CASE SweepEnds
  BY <1>1 DEF SweepEnds, Reading, Pulling, Idle
<1>2. CASE PullEnds
  <2>1. job'.half = <<>> \/ job'.half = job.half
    BY <1>2 DEF PullEnds, Reading, Idle
  <2>. QED
    BY <1>2, <2>1
<1>3. CASE PullByHand
  BY <1>3 DEF PullByHand, Pulling, Idle
<1>4. CASE DistillEnds
  BY <1>4 DEF DistillEnds, Idle
<1>5. CASE NightStarts
  BY <1>5 DEF NightStarts, Idle
<1>6. CASE ExtractEnds
  BY <1>6 DEF ExtractEnds, Indexing, Idle
<1>7. CASE ForceIndex \/ RebuildIndex
  BY <1>7 DEF ForceIndex, RebuildIndex, Indexing, Idle
<1>8. CASE IndexEnds \/ Killed
  BY <1>8 DEF IndexEnds, Killed, Idle
<1>9. CASE SearchFails \/ SearchAnswers
  BY <1>9 DEF SearchFails, SearchAnswers, Idle
<1>10. CASE RecordSpend
  <2>1. job'.half = <<>> \/ job'.half = job.half
    BY <1>10 DEF RecordSpend, Idle
  <2>. QED
    BY <1>10, <2>1
<1>11. CASE Distill
  BY <1>11 DEF Distill, Idle
<1>12. CASE SkipIndexed
  BY <1>12 DEF SkipIndexed, Idle
<1>13. CASE RecordIndexed
  BY <1>13 DEF RecordIndexed, Idle
<1>14. CASE ClearRows \/ Upsert \/ DayPasses \/ ReconcileSpend
  BY <1>14
<1>15. CASE UNCHANGED vars
  <2>1. job' = job
    BY <1>15 DEF vars
  <2>. QED
    BY <2>1
<1>. QED
  BY <1>1, <1>2, <1>3, <1>4, <1>5, <1>6, <1>7, <1>8, <1>9, <1>10, <1>11, <1>12, <1>13, <1>14, <1>15
  DEF Next, Onward

\* Whatever a step does, it writes one document's files or none.
LEMMA WhoWrites ==
  ASSUME WorldInv, FilesInv, [Next]_vars
  PROVE  KeepsFiles \/ \E doc, file : Saves(doc, file)
<1>. USE JobMoves DEF WorldInv
<1>1. CASE SweepVideo
  <2>1. PICK item : PassedOver \/ TakenIn(item) \/ \E answer : Buried(item, answer)
    BY <1>1, SweepOutcomes
  <2>2. job.step = "roster" /\ job'.step = "roster" /\ UNCHANGED <<card, stances, indexVars>>
    BY <1>1 DEF SweepVideo
  <2>3. CASE PassedOver \/ \E answer : Buried(item, answer)
    BY <2>2, <2>3 DEF KeepsFiles, KeepsHalf, PassedOver, Buried
  <2>4. CASE TakenIn(item)
    <3>1. <<item.id, 0>> \in DOMAIN text' /\ DOMAIN card' \subseteq DOMAIN text'
      BY <2>2, <2>4 DEF TakenIn, FilesInv, Docs, Put
    <3>. QED
      BY <2>2, <2>4, <3>1 DEF TakenIn, Saves, Files
  <2>. QED
    BY <2>1, <2>3, <2>4
<1>2. CASE SaveCard
  <2>1. /\ card' = Put(card, job.half[1], job.half[2]) /\ stamp' = Touched(job.half[1], "card")
        /\ job'.half = <<>> /\ job.half # <<>>
        /\ job.step \in {"roster", "x"} /\ job'.step = job.step
        /\ UNCHANGED <<text, stances, indexVars>>
    BY <1>2 DEF SaveCard, JobShape
  <2>2. job.half[1] \in DOMAIN text
    BY <2>1 DEF FilesInv
  <2>3. DOMAIN card' \subseteq DOMAIN text'
    BY <2>1, <2>2 DEF FilesInv, Docs, Put
  <2>. QED
    BY <2>1, <2>2, <2>3 DEF Saves, Files
<1>3. CASE StorePost
  <2>1. PICK write \in job.pool :
          /\ text' = Put(text, write.doc, write.text) /\ stamp' = Touched(write.doc, "text")
          /\ \E sidecar : job' = [[job EXCEPT !.pool = @ \ {write}]
                                    EXCEPT !.half = <<write.doc, sidecar>>]
    BY <1>3 DEF StorePost, JobShape
  <2>2. job.step = "x" /\ job'.step = "x" /\ UNCHANGED <<card, stances, indexVars>>
    BY <1>3 DEF StorePost
  <2>3. job'.half[1] = write.doc
    BY <2>1 DEF JobShape
  <2>4. write.doc \in DOMAIN text' /\ DOMAIN card' \subseteq DOMAIN text'
    BY <2>1, <2>2 DEF FilesInv, Docs, Put
  <2>. QED
    BY <2>1, <2>2, <2>3, <2>4 DEF Saves, Files
<1>4. CASE Extract
  <2>1. /\ job.step = "extract" /\ job'.step = "extract" /\ job'.half = job.half
        /\ UNCHANGED <<text, card, indexVars>>
        /\ \/ UNCHANGED <<stances, stamp>>
           \/ \E doc \in job.pool : \E v :
                /\ stances' = Put(stances, doc, v)
                /\ stamp' = Touched(doc, "stance")
    BY <1>4 DEF Extract, JobShape
  <2>2. /\ job'.half # <<>> => job'.half[1] \in DOMAIN text'
        /\ DOMAIN card' \subseteq DOMAIN text'
    BY <2>1 DEF FilesInv, Docs
  <2>. QED
    BY <2>1, <2>2 DEF Saves, Files, KeepsFiles, KeepsHalf
<1>5. CASE ~(SweepVideo \/ SaveCard \/ StorePost \/ Extract)
  <2>0. KeepsHalf
    BY <1>5, OthersKeepHalf
  <2>1. CASE SweepEnds \/ SearchFails \/ SearchAnswers \/ RecordSpend \/ PullEnds
    BY <2>0, <2>1 DEF SweepEnds, SearchFails, SearchAnswers, RecordSpend, PullEnds, corpusVars, KeepsFiles
  <2>2. CASE Distill \/ DistillEnds \/ ExtractEnds
    BY <2>0, <2>2 DEF Distill, DistillEnds, ExtractEnds, corpusVars, KeepsFiles
  <2>3. CASE SkipIndexed \/ ClearRows \/ Upsert \/ RecordIndexed \/ IndexEnds
    BY <2>0, <2>3 DEF SkipIndexed, ClearRows, Upsert, RecordIndexed, IndexEnds, corpusVars, KeepsFiles
  <2>4. CASE NightStarts \/ DayPasses \/ PullByHand \/ ReconcileSpend
    BY <2>0, <2>4 DEF NightStarts, DayPasses, PullByHand, ReconcileSpend, corpusVars, KeepsFiles
  <2>5. CASE ForceIndex \/ RebuildIndex \/ Killed \/ UNCHANGED vars
    BY <2>0, <2>5 DEF ForceIndex, RebuildIndex, Killed, vars, corpusVars, KeepsFiles
  <2>. QED
    BY <1>5, <2>1, <2>2, <2>3, <2>4, <2>5 DEF Next, Onward
<1>. QED
  BY <1>1, <1>2, <1>3, <1>4, <1>5

\* The index is written by four steps and no others.
LEMMA WhoIndexes ==
  ASSUME [Next]_vars, ~(RecordIndexed \/ Upsert \/ ClearRows \/ RebuildIndex)
  PROVE  UNCHANGED indexVars
<1>1. CASE SweepVideo \/ SaveCard \/ SweepEnds \/ StorePost \/ PullEnds
  BY <1>1 DEF SweepVideo, SaveCard, SweepEnds, StorePost, PullEnds
<1>2. CASE SearchFails \/ SearchAnswers \/ RecordSpend
  BY <1>2 DEF SearchFails, SearchAnswers, RecordSpend
<1>3. CASE Distill \/ DistillEnds \/ Extract \/ ExtractEnds \/ SkipIndexed \/ IndexEnds
  BY <1>3 DEF Distill, DistillEnds, Extract, ExtractEnds, SkipIndexed, IndexEnds
<1>4. CASE NightStarts \/ DayPasses \/ PullByHand \/ ReconcileSpend
  BY <1>4 DEF NightStarts, DayPasses, PullByHand, ReconcileSpend
<1>5. CASE ForceIndex \/ Killed \/ UNCHANGED vars
  BY <1>5 DEF ForceIndex, Killed, vars
<1>. QED
  BY <1>1, <1>2, <1>3, <1>4, <1>5 DEF Next, Onward

\* What holds of the files holds on: stamps only rise, and the ledger is of what
\* was there to be read.
LEMMA FilesStep ==
  ASSUME WorldInv, FilesInv, PassInv, [Next]_vars
  PROVE  FilesInv'
<1>1. ASSUME NEW doc, NEW file, Saves(doc, file)
      PROVE  FilesInv'
  <2>1. /\ DOMAIN stamp' = DOMAIN stamp \cup {doc}
        /\ \A d \in DOMAIN stamp' : stamp'[d] \in Stamps
        /\ \A d \in DOMAIN stamp : d # doc => stamp'[d] = stamp[d]
        /\ doc \in DOMAIN stamp => Fingerprint(stamp[doc]) < Fingerprint(stamp'[doc])
    BY <1>1, TouchRaises DEF Saves, FilesInv
  <2>2. Docs \subseteq Docs' /\ Docs' \subseteq Docs \cup {doc} /\ Docs' \subseteq DOMAIN text'
    BY <1>1 DEF Saves, Docs, Put
  <2>3. indexed' = indexed /\ job'.step # "filling"
    BY <1>1 DEF Saves, indexVars
  <2>4. job'.half # <<>> => job'.half[1] \in DOMAIN text'
    BY <1>1 DEF Saves
  <2>5. ASSUME NEW d \in DOMAIN indexed
        PROVE  indexed[d] \in Nat /\ indexed[d] <= Fingerprint(stamp'[d])
    <3>1. d \in DOMAIN stamp /\ indexed[d] \in Nat /\ indexed[d] <= Fingerprint(stamp[d])
      BY DEF FilesInv
    <3>2. Fingerprint(stamp[d]) \in Nat /\ Fingerprint(stamp'[d]) \in Nat
      BY <2>1, <3>1, FingerprintIsNewest DEF FilesInv
    <3>. QED
      BY <2>1, <3>1, <3>2
  <2>. QED
    BY <2>1, <2>2, <2>3, <2>4, <2>5 DEF FilesInv
<1>2. CASE KeepsFiles /\ (indexed' = indexed \/ DOMAIN indexed' = {})
  <2>1. UNCHANGED <<text, card, stamp>>
    BY <1>2 DEF KeepsFiles
  <2>2. job'.step # "filling" /\ job'.half # <<>> => job'.half[1] \in DOMAIN text'
    BY <1>2 DEF KeepsFiles, KeepsHalf, FilesInv
  <2>. QED
    BY <1>2, <2>1, <2>2 DEF FilesInv, Docs
<1>3. CASE KeepsFiles /\ RecordIndexed
  <2> DEFINE d == First(job.todo)
  <2>1. /\ job.step = "filling" /\ job'.half = <<>>
        /\ indexed' = Put(indexed, d, job.half[1])
    BY <1>3 DEF RecordIndexed, WorldInv, JobShape
  <2>2. UNCHANGED <<text, card, stamp>>
    BY <1>3 DEF KeepsFiles
  <2>3. job.half[1] = Fingerprint(stamp[d]) /\ job.todo # {} /\ job.todo \subseteq Paths
    BY <2>1 DEF PassInv
  <2>4. d \in Docs
    BY <2>3, FirstIsLeft DEF Paths
  <2>5. Fingerprint(stamp[d]) \in Nat
    BY <2>4, FingerprintIsNewest DEF FilesInv
  <2> HIDE DEF d
  <2>. QED
    BY <2>1, <2>2, <2>3, <2>4, <2>5 DEF FilesInv, Docs, Put
<1>4. indexed' = indexed \/ DOMAIN indexed' = {} \/ RecordIndexed
  <2>1. RebuildIndex => DOMAIN indexed' = {}
    BY DEF RebuildIndex
  <2>2. ClearRows \/ Upsert => indexed' = indexed
    BY DEF ClearRows, Upsert
  <2>. QED
    BY <2>1, <2>2, WhoIndexes DEF indexVars
<1>. QED
  BY <1>1, <1>2, <1>3, <1>4, WhoWrites

\* Where a pass stands is a matter of the paths, which do not change.
LEMMA FirstStays ==
  ASSUME world' = world
  PROVE  \A docs : First(docs)' = First(docs)
BY DEF First, Place

\* And a document's rows are a matter of its files.
LEMMA RowsStay ==
  ASSUME UNCHANGED <<text, card, stances>>
  PROVE  \A d : CurrentRows(d)' = CurrentRows(d)
BY DEF CurrentRows, StancesOf

\* A batch lands where its document's rows are, over what had its id.
LEMMA UpsertFills ==
  ASSUME NEW d, NEW pool, pool \subseteq CurrentRows(d), RowsOn(d) \cup pool = CurrentRows(d),
         NEW new \in pool,
         rows' = {r \in rows : ~(r.doc = new.doc /\ r.id = new.id)} \cup {new}
  PROVE  /\ RowsOn(d)' \cup (pool \ {new}) = CurrentRows(d)
         /\ \A e : e # d => RowsOn(e)' = RowsOn(e)
<1>1. /\ new.doc = d /\ \A r \in CurrentRows(d) : r.doc = d
      /\ \A r \in CurrentRows(d) : r.id = new.id => r = new
  BY RowsAreItsOwn
<1>2. RowsOn(d)' = (RowsOn(d) \ {r \in rows : r.doc = d /\ r.id = new.id}) \cup {new}
  BY <1>1 DEF RowsOn
<1>3. \A r \in RowsOn(d) : r \in CurrentRows(d) /\ (r.id = new.id => r = new)
  BY <1>1
<1>4. \A r \in RowsOn(d) : r # new => r \in RowsOn(d)'
  BY <1>1, <1>2, <1>3 DEF RowsOn
<1>5. RowsOn(d)' \subseteq CurrentRows(d) /\ new \in RowsOn(d)'
  BY <1>2
<1>6. ASSUME NEW r \in CurrentRows(d) PROVE r \in RowsOn(d)' \cup (pool \ {new})
  BY <1>4, <1>5
<1>7. \A e : e # d => RowsOn(e)' = RowsOn(e)
  BY <1>1 DEF RowsOn
<1>. QED
  BY <1>5, <1>6, <1>7

\* A pass in progress stays one whose unfinished document is not vouched for.
LEMMA PassStep ==
  ASSUME WorldInv, FilesInv, PassInv, [Next]_vars
  PROVE  PassInv'
<1>1. world' = world /\ JobShape
  BY WorldStep DEF WorldInv
<1>2. \A docs : First(docs)' = First(docs)
  BY <1>1, FirstStays
<1>3. CASE ExtractEnds
  <2>1. /\ job' = Indexing(indexed, FALSE) /\ UNCHANGED <<card, indexed>>
    BY <1>3 DEF ExtractEnds, corpusVars, indexVars
  <2>2. job'.step = "index" /\ job'.todo = Paths /\ job'.registry = indexed
    BY <2>1, IdleShape DEF Indexing
  <2>. QED
    BY <1>1, <2>1, <2>2 DEF PassInv, Paths, Docs
<1>4. CASE ForceIndex
  <2>1. /\ job' = Indexing(<<>>, TRUE) /\ UNCHANGED card
    BY <1>4 DEF ForceIndex, corpusVars
  <2>2. job'.step = "index" /\ job'.todo = Paths /\ job'.solo = TRUE
    BY <2>1, IdleShape DEF Indexing
  <2>. QED
    BY <1>1, <2>1, <2>2 DEF PassInv, Paths, Docs
<1>5. CASE RebuildIndex
  <2>1. /\ job' = Indexing(<<>>, FALSE) /\ indexed' = <<>> /\ UNCHANGED card
    BY <1>5 DEF RebuildIndex, corpusVars
  <2>2. job'.step = "index" /\ job'.todo = Paths /\ DOMAIN indexed' = {}
    BY <2>1, IdleShape DEF Indexing
  <2>. QED
    BY <1>1, <2>1, <2>2 DEF PassInv, Paths, Docs
<1>6. CASE SkipIndexed
  <2>1. /\ job.step = "index" /\ job'.step = "index" /\ job'.todo \subseteq job.todo
        /\ job'.registry = job.registry /\ job'.solo = job.solo /\ UNCHANGED <<card, indexed>>
    BY <1>1, <1>6 DEF SkipIndexed, JobShape, corpusVars, indexVars
  <2>. QED
    BY <1>1, <2>1 DEF PassInv, Paths, Docs
<1>7. CASE ClearRows
  <2>0. PICK d : d = First(job.todo)
    OBVIOUS
  <2>1. /\ job.step = "index" /\ job'.step = "filling" /\ job'.todo = job.todo /\ job.todo # {}
        /\ job'.registry = job.registry /\ job'.solo = job.solo
        /\ job'.half = <<Fingerprint(stamp[d])>> /\ job'.pool = CurrentRows(d)
        /\ rows' = {r \in rows : r.doc # d} /\ ~Unchanged(d)
        /\ UNCHANGED <<text, card, stances, stamp, indexed>>
    BY <1>1, <1>7, <2>0 DEF ClearRows, JobShape, corpusVars
  <2>2. First(job.todo)' = d /\ CurrentRows(d)' = CurrentRows(d) /\ d \in job.todo
    BY <1>2, <2>0, <2>1, RowsStay, FirstIsLeft DEF PassInv
  <2>3. RowsOn(d)' = {}
    BY <2>1 DEF RowsOn
  <2>4. ~job.solo => ~(d \in DOMAIN indexed /\ indexed[d] = Fingerprint(stamp[d]))
    BY <2>0, <2>1, <2>2 DEF PassInv, Unchanged
  <2>5. /\ job'.todo \subseteq Paths'
        /\ ~job'.solo => \A e \in job'.todo \cap DOMAIN indexed' :
                           e \in DOMAIN job'.registry /\ job'.registry[e] = indexed'[e]
    BY <1>1, <2>1 DEF PassInv, Paths, Docs
  <2>. QED
    BY <2>1, <2>2, <2>3, <2>4, <2>5 DEF PassInv, Fresh
<1>8. CASE Upsert
  <2>0. PICK d : d = First(job.todo)
    OBVIOUS
  <2>6. PICK new : new = CHOOSE r \in job.pool : TRUE
    OBVIOUS
  <2>1. /\ job.step = "filling" /\ job'.step = "filling" /\ job'.todo = job.todo
        /\ job'.registry = job.registry /\ job'.solo = job.solo /\ job'.half = job.half
        /\ job'.pool = job.pool \ {new}
        /\ rows' = {r \in rows : ~(r.doc = new.doc /\ r.id = new.id)} \cup {new}
        /\ UNCHANGED <<text, card, stances, stamp, indexed>>
    BY <1>1, <1>8, <2>6 DEF Upsert, JobShape, corpusVars
  <2>2. First(job.todo)' = d /\ CurrentRows(d)' = CurrentRows(d) /\ new \in job.pool
    BY <1>2, <1>8, <2>0, <2>6, <2>1, RowsStay DEF Upsert
  <2>3. /\ job.todo # {} /\ job.half = <<Fingerprint(stamp[d])>>
        /\ job.pool \subseteq CurrentRows(d) /\ RowsOn(d) \cup job.pool = CurrentRows(d)
        /\ ~job.solo => ~Fresh(d)
    BY <2>0, <2>1 DEF PassInv
  <2>4. RowsOn(d)' \cup job'.pool = CurrentRows(d)
    BY <2>1, <2>2, <2>3, UpsertFills
  <2>5. /\ job'.todo \subseteq Paths'
        /\ ~job'.solo => \A e \in job'.todo \cap DOMAIN indexed' :
                           e \in DOMAIN job'.registry /\ job'.registry[e] = indexed'[e]
    BY <1>1, <2>1 DEF PassInv, Paths, Docs
  <2>. QED
    BY <2>1, <2>2, <2>3, <2>4, <2>5 DEF PassInv, Fresh
<1>9. CASE RecordIndexed
  <2> DEFINE d == First(job.todo)
  <2>1. /\ job.step = "filling" /\ job'.step = "index" /\ job'.todo = job.todo \ {d}
        /\ job'.registry = job.registry /\ job'.solo = job.solo
        /\ indexed' = Put(indexed, d, job.half[1]) /\ UNCHANGED card
    BY <1>1, <1>9 DEF RecordIndexed, JobShape, corpusVars
  <2>2. \A e \in DOMAIN indexed' : e # d => e \in DOMAIN indexed /\ indexed'[e] = indexed[e]
    BY <2>1 DEF Put
  <2> HIDE DEF d
  <2>. QED
    BY <1>1, <2>1, <2>2 DEF PassInv, Paths, Docs
<1>10. CASE UNCHANGED vars
  <2>1. UNCHANGED <<text, card, stances, stamp, rows, indexed, job>>
    BY <1>10 DEF vars, corpusVars, indexVars
  <2>2. /\ First(job.todo)' = First(job.todo) /\ Paths' = Paths
        /\ \A d : CurrentRows(d)' = CurrentRows(d) /\ RowsOn(d)' = RowsOn(d)
    BY <1>1, <1>2, <2>1, RowsStay DEF Paths, Docs, RowsOn
  <2>. QED
    BY <2>1, <2>2 DEF PassInv, Fresh
<1>11. CASE job'.step \notin {"index", "filling"}
  BY <1>11 DEF PassInv
<1>. QED
  BY <1>1, <1>3, <1>4, <1>5, <1>6, <1>7, <1>8, <1>9, <1>10, <1>11, JobMoves DEF Next, Onward

Filling(d) == job.step = "filling" /\ First(job.todo) = d

\* The index is right about what is vouched for and not being written.
LEMMA CurrentStep ==
  ASSUME ~KillsForced, WorldInv, FilesInv, PassInv, IndexIsCurrent, [Next]_vars
  PROVE  IndexIsCurrent'
<1>1. world' = world /\ JobShape /\ FilesInv'
  BY WorldStep, FilesStep DEF WorldInv
<1>2. \A docs : First(docs)' = First(docs)
  BY <1>1, FirstStays
<1>3. \A d : Fresh(d) /\ ~Filling(d) => RowsOn(d) = CurrentRows(d)
  BY DEF IndexIsCurrent, Fresh, Filling, RowsOn
<1>4. SUFFICES ASSUME NEW d, Fresh(d)', ~Filling(d)'
               PROVE  RowsOn(d)' = CurrentRows(d)'
  BY DEF IndexIsCurrent, Fresh, Filling, RowsOn
<1>5. ASSUME NEW doc, NEW file, Saves(doc, file)
      PROVE  RowsOn(d)' = CurrentRows(d)'
  <2>1. UNCHANGED <<rows, indexed>> /\ job.step # "filling"
    BY <1>5 DEF Saves, indexVars
  <2>2. /\ d \in DOMAIN indexed /\ d \in Docs /\ d \in DOMAIN stamp
        /\ indexed[d] = Fingerprint(stamp'[d])
        /\ indexed[d] \in Nat /\ indexed[d] <= Fingerprint(stamp[d])
    BY <1>4, <2>1 DEF Fresh, FilesInv
  <2>3. d # doc
    <3>1. d = doc => Fingerprint(stamp[d]) < Fingerprint(stamp'[d])
      BY <1>5, <2>2, TouchRaises DEF Saves, FilesInv
    <3>2. Fingerprint(stamp[d]) \in Nat
      BY <2>2, FingerprintIsNewest DEF FilesInv
    <3>. QED
      BY <2>2, <3>1, <3>2
  <2>4. stamp'[d] = stamp[d] /\ CurrentRows(d)' = CurrentRows(d)
    BY <1>5, <2>2, <2>3, SavesOne
  <2>. QED
    BY <1>3, <2>1, <2>2, <2>4 DEF Fresh, Filling, RowsOn
<1>6. CASE KeepsFiles
  <2>1. CurrentRows(d)' = CurrentRows(d) /\ stamp' = stamp
    BY <1>6, RowsStay DEF KeepsFiles
  <2>2. CASE RecordIndexed
    <3>0. PICK at : at = First(job.todo)
      OBVIOUS
    <3>1. /\ job.step = "filling" /\ job.pool = {} /\ rows' = rows
          /\ indexed' = Put(indexed, at, job.half[1])
      BY <2>2, <3>0 DEF RecordIndexed
    <3>2. RowsOn(at) = CurrentRows(at)
      BY <3>0, <3>1 DEF PassInv
    <3>3. d # at => Fresh(d) /\ ~Filling(d)
      BY <1>4, <2>1, <3>0, <3>1 DEF Fresh, Filling, Put
    <3>. QED
      BY <1>3, <2>1, <3>1, <3>2, <3>3 DEF RowsOn
  <2>3. CASE Upsert
    <3>0. PICK at, new : at = First(job.todo) /\ new = CHOOSE r \in job.pool : TRUE
      OBVIOUS
    <3>1. /\ job.step = "filling" /\ job'.step = "filling" /\ job'.todo = job.todo
          /\ rows' = {r \in rows : ~(r.doc = new.doc /\ r.id = new.id)} \cup {new}
          /\ new \in job.pool /\ indexed' = indexed
      BY <1>1, <2>3, <3>0 DEF Upsert, JobShape
    <3>2. d # at /\ Fresh(d) /\ ~Filling(d)
      BY <1>2, <1>4, <2>1, <3>0, <3>1 DEF Fresh, Filling
    <3>3. job.pool \subseteq CurrentRows(at) /\ RowsOn(at) \cup job.pool = CurrentRows(at)
      BY <3>0, <3>1 DEF PassInv
    <3>4. RowsOn(d)' = RowsOn(d)
      BY <3>1, <3>2, <3>3, UpsertFills
    <3>. QED
      BY <1>3, <2>1, <3>2, <3>4
  <2>4. CASE ClearRows
    <3>0. PICK at : at = First(job.todo)
      OBVIOUS
    <3>1. /\ job.step = "index" /\ job'.step = "filling" /\ job'.todo = job.todo
          /\ rows' = {r \in rows : r.doc # at} /\ indexed' = indexed
      BY <1>1, <2>4, <3>0 DEF ClearRows, JobShape
    <3>2. d # at /\ Fresh(d) /\ ~Filling(d)
      BY <1>2, <1>4, <2>1, <3>0, <3>1 DEF Fresh, Filling
    <3>. QED
      BY <1>3, <2>1, <3>1, <3>2 DEF RowsOn
  <2>5. CASE RebuildIndex
    BY <1>4, <2>5 DEF RebuildIndex, Fresh
  <2>6. ASSUME UNCHANGED indexVars, job.step # "filling" \/ Killed \/ UNCHANGED job
        PROVE  RowsOn(d)' = CurrentRows(d)'
    <3>1. UNCHANGED <<rows, indexed>> /\ Fresh(d)
      BY <1>4, <2>1, <2>6 DEF indexVars, Fresh
    <3>2. ~Filling(d)
      <4>1. CASE job.step # "filling"
        BY <4>1 DEF Filling
      <4>2. CASE Killed
        BY <3>1, <4>2 DEF Killed, PassInv, Filling
      <4>3. CASE UNCHANGED job
        BY <1>2, <1>4, <4>3 DEF Filling
      <4>. QED
        BY <2>6, <4>1, <4>2, <4>3
    <3>. QED
      BY <1>3, <2>1, <3>1, <3>2 DEF RowsOn
  <2>7. CASE ~(RecordIndexed \/ Upsert \/ ClearRows \/ RebuildIndex)
    <3>1. UNCHANGED indexVars
      BY <2>7, WhoIndexes
    <3>2. job.step # "filling" \/ Killed \/ UNCHANGED job
      BY <1>1, <2>7, JobMoves DEF Next, Onward, vars
    <3>. QED
      BY <2>6, <3>1, <3>2
  <2>. QED
    BY <2>2, <2>3, <2>4, <2>5, <2>7
<1>. QED
  BY <1>5, <1>6, WhoWrites

\* Before the first night there is nothing to be wrong about.
LEMMA IndexInit ==
  ASSUME Init
  PROVE  WorldInv /\ FilesInv /\ PassInv /\ IndexIsCurrent
<1>1. WorldInv
  BY IdleShape DEF Init, WorldInv, JobShape
<1>2. job.step = "idle" /\ job.half = <<>>
  BY DEF Init, Idle
<1>3. DOMAIN stamp = {} /\ DOMAIN indexed = {} /\ DOMAIN card = {}
  BY DEF Init
<1>. QED
  BY <1>1, <1>2, <1>3 DEF FilesInv, PassInv, IndexIsCurrent, Docs

\* Unless a forced pass may be killed, a document the next pass would skip has
\* in the index exactly the passages its files give today, and one whose rows
\* are not so is one the next pass would do again: whatever else is killed, and
\* whenever it is written (brain.index_cli.index_all, index_cli.py:170).
THEOREM IndexStaysCurrent ==
  ASSUME ~KillsForced
  PROVE  Spec => []IndexIsCurrent
<1>1. Init => WorldInv /\ FilesInv /\ PassInv /\ IndexIsCurrent
  BY IndexInit
<1>2. WorldInv /\ FilesInv /\ PassInv /\ IndexIsCurrent /\ [Next]_vars
        => (WorldInv /\ FilesInv /\ PassInv /\ IndexIsCurrent)'
  BY WorldStep, FilesStep, PassStep, CurrentStep
<1>. QED
  BY <1>1, <1>2, PTL DEF Spec

\* So the promise of index_cli.py:170 is kept by every pass but a forced one.
THEOREM InterruptedPassIsRedone ==
  ASSUME ~KillsForced
  PROVE  Spec => []KilledIndexIsRedone
<1>1. IndexIsCurrent => KilledIndexIsRedone
  BY DEF IndexIsCurrent, KilledIndexIsRedone
<1>. QED
  BY <1>1, IndexStaysCurrent, PTL
=============================================================================
