--------------------------- MODULE SittingProofs ---------------------------
(***************************************************************************)
(* Theorems about Sitting, for any candidates, venues, cap, draws and any  *)
(* number of days, moves and deaths.                                       *)
(***************************************************************************)
EXTENDS Sitting, DataProofs, SequenceTheorems

\* The sidecar has one entry a candidate, the note is a sequence of what is in
\* it, and what is approved is noted or known not to be.  Which row is current
\* plays no part: a verdict and its note are of the same one.
NoteInv ==
  /\ note \in Seq(ToSet(note))
  /\ decided = [k \in Keys |-> decided[k]]
  /\ ApprovedIsNoted

LEMMA NoteInit == Init => NoteInv
BY DEF Init, NoteInv, ApprovedIsNoted, Undecided, ToSet

\* A verdict other than an approval approves nobody.
LEMMA QuietVerdict ==
  ASSUME NoteInv, NEW verdict \in {"later", "buried"}, Settle(verdict), UNCHANGED <<note, unnoted>>
  PROVE  NoteInv'
<1> DEFINE row == Row(verdict, Current)
<1>1. row.verdict # "approved"
  BY DEF Row, Undecided
<1>2. decided' = [decided EXCEPT ![Current.key] = row]
  BY DEF Settle
<1> HIDE DEF row
<1>3. decided' = [k \in Keys |-> decided'[k]]
  BY <1>2 DEF NoteInv
<1>4. \A k \in Keys : decided'[k] = decided[k] \/ decided'[k] = row
  BY <1>2 DEF NoteInv
<1>. QED
  BY <1>1, <1>3, <1>4 DEF NoteInv, ApprovedIsNoted

\* A section more at the end is all that an appended one changes.
LEMMA SectionMore ==
  ASSUME NEW s, s \in Seq(ToSet(s)), NEW k
  PROVE  /\ Append(s, k) \in Seq(ToSet(s) \cup {k})
         /\ Len(Append(s, k)) = Len(s) + 1 /\ Len(s) \in Nat
         /\ ToSet(Append(s, k)) = ToSet(s) \cup {k}
<1> DEFINE T == ToSet(s) \cup {k}
           longer == Append(s, k)
<1>1. s \in Seq(T) /\ k \in T /\ DOMAIN s = 1 .. Len(s) /\ Len(s) \in Nat
  BY LenProperties
<1> HIDE DEF T
<1>2. /\ longer \in Seq(T) /\ Len(longer) = Len(s) + 1 /\ DOMAIN longer = 1 .. Len(s) + 1
      /\ \A i \in 1 .. Len(s) : longer[i] = s[i]
      /\ longer[Len(s) + 1] = k
  BY <1>1
<1> HIDE DEF longer
<1>3. ToSet(longer) = ToSet(s) \cup {k}
  BY <1>1, <1>2 DEF ToSet
<1>. QED
  BY <1>1, <1>2, <1>3 DEF T, longer

\* A section more takes no approval out of the note, and the approval it is of is
\* in it, or counted as one without.
LEMMA NotedMore ==
  ASSUME NoteInv, Noted
  PROVE  /\ note' \in Seq(ToSet(note'))
         /\ ToSet(note) \cup unnoted \subseteq ToSet(note') \cup unnoted'
         /\ Current.key \in ToSet(note') \cup unnoted'
<1> DEFINE c == Current.key
<1>1. note \in Seq(ToSet(note))
  BY DEF NoteInv
<1>2. CASE sitting.filing
  <2>1. note' = Append(note, c) /\ unnoted' = unnoted
    BY <1>2 DEF Noted
  <2> HIDE DEF c
  <2>2. note' \in Seq(ToSet(note) \cup {c}) /\ ToSet(note') = ToSet(note) \cup {c}
    BY <1>1, <2>1, SectionMore
  <2>. QED
    BY <2>1, <2>2 DEF c
<1>3. CASE ~sitting.filing
  <2>1. note' = note /\ unnoted' = unnoted \cup {c}
    BY <1>3 DEF Noted
  <2> HIDE DEF c
  <2>. QED
    BY <1>1, <2>1 DEF c
<1>. QED
  BY <1>2, <1>3

LEMMA ApproveStep == NoteInv /\ Approve => NoteInv'
<1>. SUFFICES ASSUME NoteInv, Approve PROVE NoteInv'
  OBVIOUS
<1> DEFINE row == Row("approved", Current)
<1>1. /\ note' \in Seq(ToSet(note'))
      /\ ToSet(note) \cup unnoted \subseteq ToSet(note') \cup unnoted'
      /\ Current.key \in ToSet(note') \cup unnoted'
  BY NotedMore DEF Approve
<1>2. decided' = [decided EXCEPT ![Current.key] = row]
  BY DEF Approve, Settle
<1> HIDE DEF row
<1>3. decided' = [k \in Keys |-> decided'[k]]
  BY <1>2 DEF NoteInv
<1>4. \A k \in Keys : k # Current.key => decided'[k] = decided[k]
  BY <1>2 DEF NoteInv
<1>. QED
  BY <1>1, <1>3, <1>4 DEF NoteInv, ApprovedIsNoted

\* A death while the note is rewritten leaves a beginning of it; what that takes
\* away is counted.
LEMMA DeathStep == NoteInv /\ DiesBeforeApprovalLands => NoteInv'
<1>. SUFFICES ASSUME NoteInv, DiesBeforeApprovalLands PROVE NoteInv'
  OBVIOUS
<1> DEFINE c == Current.key
<1>1. PICK n \in 0 .. Len(note) + 1 :
        /\ note' = SubSeq(Append(note, c), 1, n)
        /\ unnoted' = unnoted \cup (ToSet(note) \ ToSet(note'))
  BY DEF DiesBeforeApprovalLands
<1>2. note \in Seq(ToSet(note))
  BY DEF NoteInv
<1> HIDE DEF c
<1>3. /\ Append(note, c) \in Seq(ToSet(note) \cup {c})
      /\ Len(Append(note, c)) = Len(note) + 1 /\ Len(note) \in Nat
  BY <1>2, SectionMore
<1>4. note' \in Seq(ToSet(note'))
  <2> DEFINE longer == Append(note, c)
  <2>1. n \in Nat /\ n <= Len(longer)
    BY <1>3
  <2>2. Len(SubSeq(longer, 1, n)) = n /\ SubSeq(longer, 1, n) \in Seq(ToSet(note) \cup {c})
    <3> HIDE DEF longer
    <3>1. longer \in Seq(ToSet(note) \cup {c})
      BY <1>3 DEF longer
    <3>. QED
      BY <2>1, <3>1, SubSeqProperties
  <2>3. note' = [i \in 1 .. n |-> note'[i]] /\ DOMAIN note' = 1 .. n
    BY <1>1, <2>1, <2>2, LenProperties
  <2>4. \A i \in 1 .. n : note'[i] \in ToSet(note')
    BY <2>3 DEF ToSet
  <2>. QED
    BY <2>1, <2>3, <2>4, SeqDef
<1>. QED
  BY <1>1, <1>4 DEF DiesBeforeApprovalLands, NoteInv, ApprovedIsNoted

LEMMA NoteStep == NoteInv /\ [Next]_vars => NoteInv'
<1>. SUFFICES ASSUME NoteInv, [Next]_vars PROVE NoteInv'
  OBVIOUS
<1>1. CASE UNCHANGED <<decided, note, unnoted>>
  BY <1>1 DEF NoteInv, ApprovedIsNoted
<1>2. CASE Defer
  BY <1>2, QuietVerdict DEF Defer
<1>3. CASE Pass
  BY <1>3, QuietVerdict DEF Pass
<1>4. CASE Never
  BY <1>4, QuietVerdict DEF Never
<1>5. CASE \E k \in Keys : PriceCrosses(k) \/ SupportGrows(k)
  BY <1>1, <1>5 DEF PriceCrosses, SupportGrows, fileVars
<1>6. CASE DayTurns \/ VaultReturns \/ OpenSitting \/ CloseSitting
  BY <1>1, <1>6 DEF DayTurns, VaultReturns, OpenSitting, CloseSitting, fileVars
<1>7. CASE Offer
  BY <1>1, <1>7 DEF Offer, OfferUnroutable, OfferEnds
<1>8. CASE DiesBeforeArchiveLands \/ DiesBeforeTheOffer
  BY <1>1, <1>8 DEF DiesBeforeArchiveLands, DiesBeforeTheOffer, fileVars
<1>9. CASE UNCHANGED vars
  BY <1>1, <1>9 DEF vars
<1>. QED
  BY <1>2, <1>3, <1>4, <1>5, <1>6, <1>7, <1>8, <1>9, ApproveStep, DeathStep DEF Next, Answer

\* An approval in the sidecar is in the vault's note, whatever died in between:
\* append_note runs before append_decision, and nothing takes a section out but a
\* rewrite of the note that is cut off.  Approvals given under --no-vault-note
\* have none, and are counted apart.
THEOREM ApprovalsAreNoted == Spec => []ApprovedIsNoted
<1>1. NoteInv => ApprovedIsNoted
  BY DEF NoteInv
<1>. QED
  BY <1>1, NoteInit, NoteStep, PTL DEF Spec
-----------------------------------------------------------------------------
(* Approved and sent.  Rows are places of the build's population, one to a   *)
(* key, so what a later row settles is never what an earlier one was.        *)

Gone(p) == p < sitting.at \/ sitting.phase = "done"

Traced(k) == decided[k].verdict = "approved" =>
               \E o \in orders :
                 /\ o.key = k
                 /\ \/ o.network = Target(k, sitting)
                    \/ o.status = "unroutable" /\ Target(k, sitting) \notin sitting.desk

SittingInv ==
  sitting # NoSitting =>
    /\ DOMAIN sitting = {"phase", "at", "desk", "short", "filing", "rows"}
    /\ sitting.phase \in {"prompt", "offer", "done"}
    /\ sitting.at \in DOMAIN sitting.rows /\ DOMAIN sitting.rows \subseteq DOMAIN Pop
    /\ \A p \in DOMAIN sitting.rows : sitting.rows[p].key = Pop[p]

TraceInv == NoteInv /\ SittingInv /\ ApprovalLeavesATrace

\* Places are numbers, and no two hold one key.
LEMMA PlacesAreKeys ==
  /\ DOMAIN Pop \subseteq Nat /\ IsFiniteSet(DOMAIN Pop)
  /\ \A p \in DOMAIN Pop : Pop[p] \in Keys
  /\ \A p, q \in DOMAIN Pop : Pop[p] = Pop[q] => p = q
<1>1. Len(Pop) \in Nat /\ DOMAIN Pop = 1 .. Len(Pop)
  BY SittingConstants, LenProperties
<1>2. IsFiniteSet(1 .. Len(Pop))
  BY <1>1, FS_Interval
<1>3. \A p \in DOMAIN Pop : Pop[p] \in Keys
  BY DEF Keys, ToSet
<1>4. \A p, q \in DOMAIN Pop : Pop[p] = Pop[q] => p = q
  BY SittingConstants DEF IsInjective
<1>. QED
  BY <1>1, <1>2, <1>3, <1>4

\* A queue shows places of the population it is built from.
LEMMA QueueShowsPop ==
  ASSUME NEW pop, IsFiniteSet(pop), NEW score, NEW draw
  PROVE  DOMAIN BuildQueue(pop, score, Limit, Stratified, draw).rows \subseteq pop
<1>1. Cardinality(pop) \in Nat /\ Limit \in Nat /\ HeadSize \in Nat /\ Stratified \in BOOLEAN
  BY FS_CardinalityType, SittingConstants, QueueConstants
<1> DEFINE total == Cardinality(pop)
<1>2. CASE Limit = 0 \/ total <= Limit
  BY <1>2 DEF BuildQueue, Rows
<1>3. CASE Limit > 0 /\ total > Limit /\ (~Stratified \/ Limit <= HeadSize)
  BY <1>1, <1>3 DEF BuildQueue, Rows
<1>4. CASE Limit > 0 /\ total > Limit /\ Stratified /\ Limit > HeadSize
  BY <1>1, <1>4 DEF BuildQueue, Rows
<1>. QED
  BY <1>1, <1>2, <1>3, <1>4

\* A sitting opens on the first of tonight's rows, with none gone past.
LEMMA OpenTraced == TraceInv /\ OpenSitting => SittingInv' /\ ApprovalLeavesATrace'
<1>. SUFFICES ASSUME TraceInv, OpenSitting PROVE SittingInv' /\ ApprovalLeavesATrace'
  OBVIOUS
<1>1. PICK queue, desk, short, filing :
        /\ queue = Tonight.rows /\ DOMAIN queue # {}
        /\ sitting' = [phase |-> "prompt", at |-> Min(DOMAIN queue), desk |-> desk,
                       short |-> short, filing |-> filing,
                       rows |-> [p \in DOMAIN queue |-> Snapshot(Pop[p], queue[p])]]
  BY DEF OpenSitting
<1>2. Qualified \subseteq DOMAIN Pop /\ IsFiniteSet(Qualified)
  BY PlacesAreKeys, FS_Subset DEF Qualified
<1>3. DOMAIN queue \subseteq DOMAIN Pop
  BY <1>1, <1>2, QueueShowsPop DEF Tonight
<1>4. Min(DOMAIN queue) \in DOMAIN queue /\ \A p \in DOMAIN queue : Min(DOMAIN queue) <= p
  BY <1>1, <1>3, MinIsLeast, PlacesAreKeys
<1>5. \A p \in DOMAIN queue : Snapshot(Pop[p], queue[p]).key = Pop[p]
  BY DEF Snapshot
<1>6. /\ DOMAIN sitting' = {"phase", "at", "desk", "short", "filing", "rows"}
      /\ sitting'.phase = "prompt" /\ sitting'.at = Min(DOMAIN queue)
      /\ sitting'.rows = [p \in DOMAIN queue |-> Snapshot(Pop[p], queue[p])]
  BY <1>1
<1>7. SittingInv'
  BY <1>3, <1>4, <1>5, <1>6 DEF SittingInv
<1>8. \A p \in DOMAIN sitting'.rows : p \in Nat /\ sitting'.at \in Nat /\ sitting'.at <= p
  BY <1>3, <1>4, <1>6, PlacesAreKeys
<1>9. \A p \in DOMAIN sitting'.rows : ~(p < sitting'.at \/ sitting'.phase = "done")
  BY <1>6, <1>8
<1>. QED
  BY <1>7, <1>9 DEF ApprovalLeavesATrace

\* What an advance goes past is what it had gone past, and the row it was at.
LEMMA AdvanceGoesOn ==
  ASSUME SittingInv, sitting # NoSitting, sitting' = Advance
  PROVE  /\ SittingInv'
         /\ UNCHANGED <<sitting.desk, sitting.short, sitting.rows>>
         /\ \A p \in DOMAIN sitting.rows : Gone(p)' => Gone(p) \/ p = sitting.at
<1>1. /\ DOMAIN sitting = {"phase", "at", "desk", "short", "filing", "rows"}
      /\ sitting.at \in DOMAIN sitting.rows /\ DOMAIN sitting.rows \subseteq DOMAIN Pop
      /\ \A p \in DOMAIN sitting.rows : sitting.rows[p].key = Pop[p]
  BY DEF SittingInv
<1>2. /\ DOMAIN sitting.rows \subseteq Nat /\ ToCome \subseteq Nat /\ sitting.at \in Nat
  BY <1>1, PlacesAreKeys DEF ToCome
<1>3. CASE ToCome = {}
  <2>1. sitting' = [sitting EXCEPT !.phase = "done"]
    BY <1>3 DEF Advance
  <2>2. /\ UNCHANGED <<sitting.desk, sitting.short, sitting.rows, sitting.at, DOMAIN sitting>>
        /\ sitting'.phase = "done"
    BY <1>1, <2>1
  <2>3. \A p \in DOMAIN sitting.rows : p < sitting.at \/ p = sitting.at
    BY <1>2, <1>3 DEF ToCome
  <2>. QED
    BY <1>1, <2>2, <2>3 DEF SittingInv, Gone
<1>4. CASE ToCome # {}
  <2>1. sitting' = [sitting EXCEPT !.phase = "prompt", !.at = Min(ToCome)]
    BY <1>4 DEF Advance
  <2>2. /\ UNCHANGED <<sitting.desk, sitting.short, sitting.rows, DOMAIN sitting>>
        /\ sitting'.phase = "prompt" /\ sitting'.at = Min(ToCome)
    BY <1>1, <2>1
  <2>3. Min(ToCome) \in ToCome /\ \A p \in ToCome : Min(ToCome) <= p
    BY <1>2, <1>4, MinIsLeast
  <2>4. Min(ToCome) \in DOMAIN sitting.rows /\ Min(ToCome) \in Nat
    BY <1>2, <2>3 DEF ToCome
  <2>5. \A p \in DOMAIN sitting.rows : p < Min(ToCome) => p < sitting.at \/ p = sitting.at
    BY <1>2, <2>3, <2>4 DEF ToCome
  <2>. QED
    BY <1>1, <2>2, <2>4, <2>5 DEF SittingInv, Gone
<1>. QED
  BY <1>3, <1>4

\* The row a verdict settles is of no other key, and only an approval with a
\* desk is owed an order.
LEMMA OthersKeepVerdict ==
  ASSUME TraceInv, sitting # NoSitting, NEW row,
         decided' = [decided EXCEPT ![Current.key] = row]
  PROVE  /\ \A p \in DOMAIN sitting.rows : p # sitting.at => decided'[Pop[p]] = decided[Pop[p]]
         /\ decided'[Current.key] = row /\ Current.key = Pop[sitting.at]
<1>1. /\ sitting.at \in DOMAIN sitting.rows /\ DOMAIN sitting.rows \subseteq DOMAIN Pop
      /\ Current.key = Pop[sitting.at]
  BY DEF TraceInv, SittingInv, Current
<1>2. \A p \in DOMAIN sitting.rows :
        /\ Pop[p] \in Keys
        /\ p # sitting.at => Pop[p] # Pop[sitting.at]
  BY <1>1, PlacesAreKeys
<1>3. decided = [k \in Keys |-> decided[k]]
  BY DEF TraceInv, NoteInv
<1> HIDE DEF Current
<1>. QED
  BY <1>1, <1>2, <1>3

\* The property a row at a time: the model's own, with rows named by their keys.
LEMMA TraceByRow ==
  ASSUME SittingInv
  PROVE  ApprovalLeavesATrace <=>
           (sitting # NoSitting /\ HasDesk(sitting) =>
              \A p \in DOMAIN sitting.rows : Gone(p) => Traced(Pop[p]))
BY DEF SittingInv, ApprovalLeavesATrace, Gone, Traced

LEMMA TraceByRowNext ==
  ASSUME SittingInv', \A p \in DOMAIN sitting'.rows : HasDesk(sitting)' /\ Gone(p)' => Traced(Pop[p])'
  PROVE  ApprovalLeavesATrace'
BY DEF SittingInv, ApprovalLeavesATrace, Gone, Traced

\* An order on the log stays, and so does the venue a row was shown.
LEMMA TraceStays ==
  ASSUME NEW k, Traced(k), decided'[k] = decided[k], orders \subseteq orders',
         UNCHANGED <<sitting.desk, sitting.short>>
  PROVE  Traced(k)'
BY DEF Traced, Target

\* Nothing is owed by a verdict that approves nothing.
LEMMA QuietTraced ==
  ASSUME TraceInv, Prompted, NEW verdict \in {"later", "buried"}, Settle(verdict),
         sitting' = Advance, UNCHANGED orders
  PROVE  SittingInv' /\ ApprovalLeavesATrace'
<1> DEFINE row == Row(verdict, Current)
<1>0. row.verdict # "approved"
  BY DEF Row, Undecided
<1>1. sitting # NoSitting /\ SittingInv
  BY DEF Prompted, NoSitting, TraceInv
<1>2. /\ SittingInv'
      /\ UNCHANGED <<sitting.desk, sitting.short, sitting.rows>>
      /\ \A p \in DOMAIN sitting.rows : Gone(p)' => Gone(p) \/ p = sitting.at
  BY <1>1, AdvanceGoesOn
<1>3. /\ \A p \in DOMAIN sitting.rows : p # sitting.at => decided'[Pop[p]] = decided[Pop[p]]
      /\ decided'[Current.key] = row /\ Current.key = Pop[sitting.at]
  BY <1>1, OthersKeepVerdict DEF Settle
<1> HIDE DEF row
<1>4. ASSUME HasDesk(sitting)', NEW p \in DOMAIN sitting.rows, Gone(p)' PROVE Traced(Pop[p])'
  <2>1. CASE p = sitting.at
    BY <1>0, <1>3, <2>1 DEF Traced
  <2>2. CASE p # sitting.at
    <3>1. Traced(Pop[p])
      BY <1>1, <1>2, <1>4, <2>2, TraceByRow DEF TraceInv, HasDesk
    <3>. QED
      BY <1>2, <1>3, <2>2, <3>1, TraceStays
  <2>. QED
    BY <2>1, <2>2
<1>5. sitting'.rows = sitting.rows
  BY <1>2
<1>. QED
  BY <1>2, <1>4, <1>5, TraceByRowNext

\* An approval is offered before its row is gone past.
LEMMA ApproveTraced == TraceInv /\ Approve => SittingInv' /\ ApprovalLeavesATrace'
<1>. SUFFICES ASSUME TraceInv, Approve PROVE SittingInv' /\ ApprovalLeavesATrace'
  OBVIOUS
<1>1. sitting # NoSitting /\ SittingInv /\ sitting.phase = "prompt" /\ orders' = orders
  BY DEF Approve, Prompted, NoSitting, TraceInv
<1>2. CASE ~HasDesk(sitting)
  <2>1. SittingInv' /\ sitting'.desk = sitting.desk
    BY <1>1, <1>2, AdvanceGoesOn DEF Approve
  <2>. QED
    BY <1>2, <2>1 DEF ApprovalLeavesATrace, HasDesk
<1>3. CASE HasDesk(sitting)
  <2>1. sitting' = [sitting EXCEPT !.phase = "offer"]
    BY <1>3 DEF Approve
  <2>2. /\ UNCHANGED <<sitting.desk, sitting.short, sitting.rows, sitting.at, DOMAIN sitting>>
        /\ sitting'.phase = "offer"
    BY <1>1, <2>1 DEF SittingInv
  <2>3. SittingInv'
    BY <1>1, <2>2 DEF SittingInv
  <2>4. \A p \in DOMAIN sitting.rows : p # sitting.at => decided'[Pop[p]] = decided[Pop[p]]
    BY <1>1, OthersKeepVerdict DEF Approve, Settle
  <2>5. ASSUME NEW p \in DOMAIN sitting.rows, Gone(p)' PROVE Traced(Pop[p])'
    <3>1. Gone(p) /\ p # sitting.at
      <4>1. p \in Nat /\ sitting.at \in Nat /\ p < sitting.at
        BY <1>1, <2>2, <2>5, PlacesAreKeys DEF Gone, SittingInv
      <4>. QED
        BY <4>1 DEF Gone
    <3>2. Traced(Pop[p])
      BY <1>1, <1>3, <3>1, TraceByRow DEF TraceInv
    <3>. QED
      BY <1>1, <2>2, <2>4, <3>1, <3>2, TraceStays
  <2>. QED
    BY <2>2, <2>3, <2>5, TraceByRowNext
<1>. QED
  BY <1>2, <1>3

\* However an offer ends it leaves a row, of the network of the venue the queue
\* had named, or saying that this one is out of reach.
LEMMA OfferTraced == TraceInv /\ Offer => SittingInv' /\ ApprovalLeavesATrace'
<1>. SUFFICES ASSUME TraceInv, Offer PROVE SittingInv' /\ ApprovalLeavesATrace'
  OBVIOUS
<1>1. /\ sitting # NoSitting /\ SittingInv /\ sitting' = Advance /\ decided' = decided
      /\ \/ Record("offered", Target(Current.key, sitting))
         \/ ~Reachable /\ Record("unroutable", DefaultVenue)
  BY DEF Offer, OfferUnroutable, OfferEnds, Offering, NoSitting, TraceInv
<1>2. /\ SittingInv'
      /\ UNCHANGED <<sitting.desk, sitting.short, sitting.rows>>
      /\ \A p \in DOMAIN sitting.rows : Gone(p)' => Gone(p) \/ p = sitting.at
  BY <1>1, AdvanceGoesOn
<1>3. /\ orders \subseteq orders'
      /\ \E o \in orders' :
           /\ o.key = Current.key
           /\ \/ o.network = Target(Current.key, sitting)
              \/ o.status = "unroutable" /\ Target(Current.key, sitting) \notin sitting.desk
  <2>1. PICK status, venue :
          /\ Record(status, venue)
          /\ \/ venue = Target(Current.key, sitting)
             \/ status = "unroutable" /\ Target(Current.key, sitting) \notin sitting.desk
    BY <1>1 DEF Reachable
  <2> DEFINE o == [key |-> Current.key, network |-> venue, status |-> status]
  <2>2. orders' = orders \cup {o}
    BY <2>1 DEF Record
  <2>3. o.key = Current.key /\ o.network = venue /\ o.status = status
    OBVIOUS
  <2> HIDE DEF o
  <2>. QED
    BY <2>1, <2>2, <2>3
<1>4. Current.key = Pop[sitting.at]
  BY <1>1 DEF SittingInv, Current
<1>5. ASSUME HasDesk(sitting)', NEW p \in DOMAIN sitting.rows, Gone(p)' PROVE Traced(Pop[p])'
  <2>1. CASE p = sitting.at
    <3>1. Target(Pop[p], sitting)' = Target(Pop[p], sitting)
      BY <1>2 DEF Target
    <3>. QED
      BY <1>2, <1>3, <1>4, <2>1, <3>1 DEF Traced
  <2>2. CASE p # sitting.at
    <3>1. Traced(Pop[p])
      BY <1>1, <1>2, <1>5, <2>2, TraceByRow DEF TraceInv, HasDesk
    <3>. QED
      BY <1>1, <1>2, <1>3, <3>1, TraceStays
  <2>. QED
    BY <2>1, <2>2
<1>6. sitting'.rows = sitting.rows
  BY <1>2
<1>. QED
  BY <1>2, <1>5, <1>6, TraceByRowNext

LEMMA TraceStep == TraceInv /\ [Next]_vars => TraceInv'
<1>. SUFFICES ASSUME TraceInv, [Next]_vars PROVE TraceInv'
  OBVIOUS
<1>1. NoteInv'
  BY NoteStep DEF TraceInv
<1>2. SUFFICES SittingInv' /\ ApprovalLeavesATrace'
  BY <1>1 DEF TraceInv
<1>3. CASE UNCHANGED <<decided, orders, sitting>>
  <2>1. \A k : Target(k, sitting)' = Target(k, sitting)
    BY <1>3 DEF Target
  <2>. QED
    BY <1>3, <2>1 DEF TraceInv, SittingInv, ApprovalLeavesATrace, HasDesk
<1>4. CASE sitting' = NoSitting
  BY <1>4 DEF SittingInv, ApprovalLeavesATrace
<1>5. CASE \E k \in Keys : PriceCrosses(k) \/ SupportGrows(k)
  BY <1>3, <1>5 DEF PriceCrosses, SupportGrows, fileVars
<1>6. CASE DayTurns \/ VaultReturns \/ UNCHANGED vars
  BY <1>3, <1>6 DEF DayTurns, VaultReturns, fileVars, vars
<1>7. CASE Defer \/ Pass \/ Never
  BY <1>7, QuietTraced DEF Defer, Pass, Never
<1>8. CASE CloseSitting \/ DiesBeforeApprovalLands \/ DiesBeforeArchiveLands \/ DiesBeforeTheOffer
  BY <1>4, <1>8 DEF CloseSitting, DiesBeforeApprovalLands, DiesBeforeArchiveLands,
                    DiesBeforeTheOffer, Dies
<1>. QED
  BY <1>5, <1>6, <1>7, <1>8, OpenTraced, ApproveTraced, OfferTraced DEF Next, Answer

\* Within a sitting with a desk, every approval already gone past left a row in
\* the order log: for the venue the queue had shown for it, or the refusal that
\* says the desk does not reach that one (execute.offer_routed, offer;
\* setups_cli.triage).
THEOREM ApprovalsAreSent == Spec => []ApprovalLeavesATrace
<1>1. Init => TraceInv
  <2>1. Init => NoteInv
    BY NoteInit
  <2>2. Init => SittingInv /\ ApprovalLeavesATrace
    BY DEF Init, SittingInv, ApprovalLeavesATrace
  <2>. QED
    BY <2>1, <2>2 DEF TraceInv
<1>2. TraceInv => ApprovalLeavesATrace
  BY DEF TraceInv
<1>. QED
  BY <1>1, <1>2, TraceStep, PTL DEF Spec
=============================================================================
