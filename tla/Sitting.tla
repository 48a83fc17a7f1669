------------------------------ MODULE Sitting ------------------------------
(***************************************************************************)
(* One triage sitting after another (setups, setups --execute): which      *)
(* candidates come up, what each verdict causes and in which order it      *)
(* reaches the four files a sitting writes - the approvals note in the     *)
(* vault, cfg/exclusions.yaml, the decisions sidecar and the order log.    *)
(*                                                                         *)
(* The vault copy of the sidecar is MirrorSync's subject, sizing is        *)
(* RiskBook's and the life of an order OrderLifecycle's; here an order is  *)
(* the row its offer left.                                                 *)
(***************************************************************************)
EXTENDS VenueRouting, Queue

CONSTANTS
  Pop,           \* the candidates of the build, in collapse order
  About,         \* [key -> asset, aliases, direction, entry, stop, score]
  Router,        \* what oracle.venue_routing.build read
  Limit,         \* --limit
  Stratified,    \* --sample stratified, or top
  DefaultVenue,  \* cfg/execution.yaml's venue
  Adapters,      \* venues this repository has a broker for
  Draws,         \* the random streams a day may be seeded with
  MaxDays,       \* bound: days that pass
  MaxMoves,      \* bound: times a price crosses a zone's edge or support grows
  MaxKills,      \* bound: sittings that die mid-step
  MaxUpsets      \* bound: moves and deaths together

Keys == ToSet(Pop)

ASSUME SittingConstants ==
  /\ Pop \in Seq(DOMAIN About) /\ IsInjective(Pop)
  /\ Limit \in Nat /\ Stratified \in BOOLEAN
  /\ DefaultVenue \in Adapters /\ Adapters \subseteq DOMAIN Terms
  /\ Draws # {} /\ {MaxDays, MaxMoves, MaxKills, MaxUpsets} \subseteq Nat

VARIABLES
  market,    \* [key -> price inside the zone, people behind it]
  moves,     \* how often the market has moved
  day,       \* the date, and the random stream it seeds
  decided,   \* [key -> its latest row in the decisions sidecar, or Undecided]
  excluded,  \* assets cfg/exclusions.yaml names
  note,      \* the vault's approvals note: the keys of its sections, in order
  unnoted,   \* history: approvals taken with the note switched off, and
             \* sections a rewrite that was cut off took away
  orders,    \* rows of the order log
  vaultUp,   \* the directory of the approvals note is there
  sitting,   \* the open sitting, or NoSitting
  kills      \* sittings that died so far

worldVars == <<market, moves, day, vaultUp>>
fileVars  == <<decided, excluded, note, unnoted, orders>>
vars      == <<market, moves, day, decided, excluded, note, unnoted, orders, vaultUp, sitting, kills>>

Verdicts  == {"approved", "later", "buried"}
Undecided == [verdict |-> "none", inside |-> FALSE, support |-> 0]
NoSitting == [phase |-> "closed"]
NoDesk    == {"no desk"}

Score == [p \in DOMAIN Pop |-> About[Pop[p]].score]

(***************************************************************************)
(* Tonight's queue.                                                        *)
(***************************************************************************)
\* The slip of bringing every deferral back.
ResurfacesAlways(k, record) == record.verdict \in {"none", "later"}

\* A deferral returns when the price has come in or support has grown since.
Resurfaces(k, record) ==
  \/ record = Undecided
  \/ /\ record.verdict = "later"
     /\ \/ market[k].inside /\ ~record.inside
        \/ market[k].support > record.support

\* Excluded under its own name or under any name it also goes by.
IsExcluded(k) == ({About[k].asset} \cup About[k].aliases) \cap excluded # {}

Qualified == {p \in DOMAIN Pop : ~IsExcluded(Pop[p]) /\ Resurfaces(Pop[p], decided[Pop[p]])}

Tonight == BuildQueue(Qualified, Score, Limit, Stratified, day.draw)

(***************************************************************************)
(* The desk.                                                               *)
(***************************************************************************)
QuotedAt == [k \in Keys |-> CandidateVenues(Router, {About[k]})]

Wanted(queue) == {DefaultVenue} \cup UNION {QuotedAt[Pop[p]] : p \in DOMAIN queue}

\* A venue may be declined at the real-money prompt, lack credentials or not
\* answer; a desk none of whose venues can be reached does not open.
Desks(queue) == (SUBSET (Wanted(queue) \cap Adapters)) \ {{}}

\* Alpaca's account is asked once a sitting whether it may short; one that
\* does not say is as unknown as one nobody asked.
Shortable(desk) == IF "alpaca" \in desk THEN {"yes", "no"} ELSE {"unknown"}

\* Where the queue said this candidate would go; the configured venue when
\* routing has no answer.
WinnerFor == [k \in Keys |-> [short \in {"yes", "no", "unknown"} |->
                 Winner(Route(Router, About[k], short))]]

Target(k, s) ==
  IF WinnerFor[k][s.short] = "none" THEN DefaultVenue ELSE WinnerFor[k][s.short]

Current    == sitting.rows[sitting.at]
HasDesk(s) == s.desk # NoDesk

\* The next row comes up, or the sitting has been through them all.
ToCome == {p \in DOMAIN sitting.rows : p > sitting.at}

Advance ==
  IF ToCome = {} THEN [sitting EXCEPT !.phase = "done"]
  ELSE [sitting EXCEPT !.phase = "prompt", !.at = Min(ToCome)]

\* Only a deferral is ever compared with the market again.
Row(verdict, r) ==
  IF verdict = "later" THEN [verdict |-> verdict, inside |-> r.inside, support |-> r.support]
  ELSE [Undecided EXCEPT !.verdict = verdict]

Init ==
  /\ market = [k \in Keys |-> [inside |-> FALSE, support |-> 1]] /\ moves = 0
  /\ day \in [date : {0}, draw : Draws]
  /\ decided = [k \in Keys |-> Undecided] /\ excluded = {}
  /\ note = <<>> /\ unnoted = {} /\ orders = {}
  /\ vaultUp = TRUE /\ sitting = NoSitting /\ kills = 0

(***************************************************************************)
(* The world.                                                              *)
(***************************************************************************)
MayUpset == moves + kills < MaxUpsets

MarketMoves == MayUpset /\ moves < MaxMoves /\ moves' = moves + 1

PriceCrosses(k) ==
  /\ MarketMoves
  /\ market' = [market EXCEPT ![k].inside = ~@]
  /\ UNCHANGED <<fileVars, day, vaultUp, sitting, kills>>

SupportGrows(k) ==
  /\ MarketMoves
  /\ market' = [market EXCEPT ![k].support = @ + 1]
  /\ UNCHANGED <<fileVars, day, vaultUp, sitting, kills>>

DayTurns ==
  /\ day.date < MaxDays
  /\ \E draw \in Draws : day' = [date |-> day.date + 1, draw |-> draw]
  /\ vaultUp' \in BOOLEAN
  /\ UNCHANGED <<fileVars, market, moves, sitting, kills>>

VaultReturns ==
  /\ ~vaultUp
  /\ vaultUp' = TRUE
  /\ UNCHANGED <<fileVars, market, moves, day, sitting, kills>>

\* What a row carries into the sitting, and from there into its decision.
Snapshot(k, band) == [key |-> k, band |-> band, inside |-> market[k].inside,
                      support |-> market[k].support]

(***************************************************************************)
(* The sitting.  A vault that is not there refuses it before any prompt,   *)
(* unless the note is switched off (--no-vault-note); a desk on which no   *)
(* venue answers refuses it in any case.                                   *)
(***************************************************************************)
OpenSitting ==
  /\ sitting = NoSitting
  /\ \E queue \in {Tonight.rows}, filing \in BOOLEAN :
       /\ DOMAIN queue # {}
       /\ filing => vaultUp
       /\ \E desk \in {NoDesk} \cup Desks(queue) :
          \E short \in Shortable(desk) :
            sitting' = [phase |-> "prompt", at |-> Min(DOMAIN queue), desk |-> desk,
                        short |-> short, filing |-> filing,
                        rows |-> [p \in DOMAIN queue |-> Snapshot(Pop[p], queue[p])]]
  /\ UNCHANGED <<worldVars, fileVars, kills>>

Prompted == sitting.phase = "prompt"

Settle(verdict) ==
  decided' = [decided EXCEPT ![Current.key] = Row(verdict, Current)]

\* The section goes at the note's end, when the sitting files one.
Noted ==
  IF sitting.filing
  THEN note' = Append(note, Current.key) /\ UNCHANGED unnoted
  ELSE UNCHANGED note /\ unnoted' = unnoted \cup {Current.key}

\* Note first, then the sidecar, and only then is an order offered.
Approve ==
  /\ Prompted
  /\ Noted
  /\ Settle("approved")
  /\ sitting' = IF HasDesk(sitting) THEN [sitting EXCEPT !.phase = "offer"] ELSE Advance
  /\ UNCHANGED <<worldVars, excluded, orders, kills>>

\* Also what an empty answer, a retired key and a key nobody knows do.
Defer ==
  /\ Prompted
  /\ Settle("later")
  /\ sitting' = Advance
  /\ UNCHANGED <<worldVars, excluded, note, unnoted, orders, kills>>

\* Stale, far, a duplicate, a bad setup, a view not shared: the zone is buried.
Pass ==
  /\ Prompted
  /\ Settle("buried")
  /\ sitting' = Advance
  /\ UNCHANGED <<worldVars, excluded, note, unnoted, orders, kills>>

\* The asset is buried with its zone, when a reason was given and the file could
\* be written; otherwise this is no more than Pass.
Never ==
  /\ Prompted
  /\ excluded' = excluded \cup {About[Current.key].asset}
  /\ Settle("buried")
  /\ sitting' = Advance
  /\ UNCHANGED <<worldVars, note, unnoted, orders, kills>>

\* Quitting, or running out of rows: the sidecar goes to the mirror and main returns.
CloseSitting ==
  /\ sitting.phase \in {"prompt", "done"}
  /\ sitting' = NoSitting
  /\ UNCHANGED <<worldVars, fileVars, kills>>

(***************************************************************************)
(* The offer, once the approval is on disk.                                *)
(***************************************************************************)
Offering == sitting.phase = "offer"

\* A row names no venue: it carries the network it was for, and a run has one
\* to a venue.
Record(status, venue) ==
  orders' = orders \cup {[key |-> Current.key, network |-> venue, status |-> status]}

Reachable == Target(Current.key, sitting) \in sitting.desk

\* The slip of only printing the refusal.
OfferDropped ==
  /\ Offering /\ ~Reachable
  /\ sitting' = Advance
  /\ UNCHANGED <<worldVars, fileVars, kills>>

\* The venue the queue named is out of reach: recorded against the run's own
\* network, never replaced.
OfferUnroutable ==
  /\ Offering /\ ~Reachable
  /\ Record("unroutable", DefaultVenue)
  /\ sitting' = Advance
  /\ UNCHANGED <<worldVars, decided, excluded, note, unnoted, kills>>

\* However else an offer ends - placed, dormant, refused by sizing or a gate,
\* declined at the prompt, an error - its row is of the venue's own network.
OfferEnds ==
  /\ Offering /\ Reachable
  /\ Record("offered", Target(Current.key, sitting))
  /\ sitting' = Advance
  /\ UNCHANGED <<worldVars, decided, excluded, note, unnoted, kills>>

(***************************************************************************)
(* Deaths: between the note and the sidecar, between the exclusion and the *)
(* sidecar, between the sidecar and the order; and a venue that raises     *)
(* while the plan is prepared.                                             *)
(***************************************************************************)
Dies == MayUpset /\ kills < MaxKills /\ kills' = kills + 1 /\ sitting' = NoSitting

\* The slip of writing the sidecar before the note.
DiesBeforeNoteLands ==
  /\ Prompted /\ sitting.filing /\ Dies
  /\ Settle("approved")
  /\ UNCHANGED <<worldVars, note, unnoted, excluded, orders>>

\* The note is rewritten whole and in place: what is on disk then is any
\* beginning of it.
DiesBeforeApprovalLands ==
  /\ Prompted /\ sitting.filing /\ Dies
  /\ \E n \in 0 .. Len(note) + 1 :
       /\ note' = SubSeq(Append(note, Current.key), 1, n)
       /\ unnoted' = unnoted \cup (ToSet(note) \ ToSet(note'))
  /\ UNCHANGED <<worldVars, decided, excluded, orders>>

DiesBeforeArchiveLands ==
  /\ Prompted /\ Dies
  /\ excluded' = excluded \cup {About[Current.key].asset}
  /\ UNCHANGED <<worldVars, decided, note, unnoted, orders>>

DiesBeforeTheOffer ==
  /\ Offering /\ Dies
  /\ UNCHANGED <<worldVars, fileVars>>

Answer == Approve \/ Defer \/ Pass \/ Never

Offer == OfferUnroutable \/ OfferEnds

Next ==
  \/ \E k \in Keys : PriceCrosses(k) \/ SupportGrows(k)
  \/ DayTurns \/ VaultReturns
  \/ OpenSitting \/ Answer \/ CloseSitting \/ Offer
  \/ DiesBeforeApprovalLands \/ DiesBeforeArchiveLands \/ DiesBeforeTheOffer

Spec == Init /\ [][Next]_vars

EndSitting == sitting.phase = "done" /\ CloseSitting

\* The operator keeps sitting down and, however often they quit, also answers.
FairSpec ==
  /\ Spec
  /\ WF_vars(VaultReturns) /\ WF_vars(OpenSitting)
  /\ SF_vars(Answer) /\ WF_vars(Offer) /\ WF_vars(EndSitting)

(***************************************************************************)
(* Properties.                                                             *)
(***************************************************************************)
\* However small the cap and however many candidates are put off, every one
\* of them is settled or waiting for its price in the end: a row shown once
\* makes room for the next (drop_decided), so the cap starves nobody.
EveryCandidateIsReviewed ==
  <>[](\A k \in Keys : IsExcluded(k) \/ ~Resurfaces(k, decided[k]))

\* An approval in the sidecar has its section in the vault note, whatever died
\* in between (append_note runs first), but for approvals given in a sitting
\* with the note switched off, and for sections lost from a note whose rewrite
\* was cut off (append_note writes the whole file in place).
ApprovedIsNoted ==
  \A k \in Keys : decided[k].verdict = "approved" => k \in ToSet(note) \cup unnoted

\* Within a sitting with a desk, every approval already gone past left a row
\* in the order log: for the venue the queue had shown for it, or, when the desk
\* does not reach that one, the refusal that says so.  "Approved and not sent" is
\* never silent (offer_routed, offer).
ApprovalLeavesATrace ==
  sitting # NoSitting /\ HasDesk(sitting) =>
    \A p \in DOMAIN sitting.rows : p < sitting.at \/ sitting.phase = "done" =>
      LET k == sitting.rows[p].key
      IN decided[k].verdict = "approved" =>
           \E o \in orders :
             /\ o.key = k
             /\ \/ o.network = Target(k, sitting)
                \/ o.status = "unroutable" /\ Target(k, sitting) \notin sitting.desk
=============================================================================
