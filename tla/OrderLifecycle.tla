--------------------------- MODULE OrderLifecycle ---------------------------
(***************************************************************************)
(* One machine, one venue, one network: the life of a bracket order from   *)
(* the approval that sends it to the row that says how it ended.           *)
(*                                                                         *)
(*   - a triage session (setups --execute) reads the log and the venue     *)
(*     when it opens, sizes one candidate at a time, asks, and places;     *)
(*   - the venue (external) fills, kills and exits brackets at any time;   *)
(*   - a book pass (book --reconcile, book --cancel) settles what the log  *)
(*     calls placed, then records exits, then offers resting entries for   *)
(*     cancellation.  It reads first and appends row by row afterwards.    *)
(*                                                                         *)
(* The log is the only durable state the program has.  What a session or a *)
(* pass has read lives in memory and grows stale while the venue moves.    *)
(***************************************************************************)
EXTENDS OrderLog, FiniteSetsExt

CONSTANTS
  SymbolOf,     \* [Keys -> symbols]: two candidates may share an instrument
  DirectionOf,  \* [Keys -> {"long", "short"}]
  Venue,        \* "alpaca" or "hyperliquid"
  Named,        \* brackets whose three leg ids the log comes to hold: Alpaca
                \* returns them, Hyperliquid as the children of a settled entry
  Lot,          \* units of every bracket; 2 lets an entry fill in part
  Want,         \* the risk a full-size bracket carries
  MinFit,       \* the least of it worth sending once the ceiling bites
  MaxRisk,      \* the pooled ceiling on risk at stake
  MaxBrackets,  \* bound: brackets the venue ever accepts
  MaxNoise,     \* bound: refused and failed rows the log ever holds
  Faults        \* which of AllFaults the environment may commit

AllFaults ==
  {"again",      \* an approved candidate comes back and is approved again
   "partial",    \* the venue rests the entry but refuses a leg of the bracket
   "unnamed",    \* the venue accepts and names no order id
   "lost",       \* the venue accepts and the reply never arrives
   "killed",     \* the session dies between the reply and the log write
   "crash",      \* a book pass dies between two appends
   "concurrent"} \* a book pass runs while a triage session is open

ASSUME ConstantsAssumption ==
  /\ IsFiniteSet(Keys)
  /\ SymbolOf \in [Keys -> Keys]
  /\ DirectionOf \in [Keys -> {"long", "short"}]
  /\ Venue \in {"alpaca", "hyperliquid"}
  /\ Named \subseteq Nat /\ (Venue = "alpaca" => 1 .. MaxBrackets \subseteq Named)
  /\ Lot \in Nat \ {0} /\ Want \in Nat \ {0} /\ MinFit \in 1 .. Want
  /\ MaxRisk \in Nat /\ MaxBrackets \in Nat /\ MaxNoise \in Nat
  /\ Faults \subseteq AllFaults

\* Hyperliquid holds one net position a coin, and a print that opens the one side
\* may close the other; a model of it has one side to a coin.
ASSUME OneSidePerCoin ==
  Venue = "hyperliquid" =>
    \A j, k \in Keys : SymbolOf[j] = SymbolOf[k] => DirectionOf[j] = DirectionOf[k]

VARIABLES
  log,      \* orders.jsonl
  orders,   \* venue: brackets in the order they were accepted
  fills,    \* venue: the account-wide fill feed, one unit a print, oldest first
  session,  \* the open triage session: what it read, what it has at stake
  prompt,   \* {} or {the plan shown at "execute? [y/N]"}
  pass,     \* the phase of the book pass
  todo      \* rows the pass has decided on and not yet appended

venueVars   == <<orders, fills>>
sessionVars == <<session, prompt>>
passVars    == <<pass, todo>>
vars == <<log, orders, fills, session, prompt, pass, todo>>

Bracket == [key : Keys, risk : Nat, filled : 0 .. Lot, exited : 0 .. Lot,
            status : {"working", "filled", "canceled"}, legs : {"working", "done"}]
Fill    == [order : Nat, leg : Legs \cup {"entry"}]
Plan    == [key : Keys, risk : Nat]

NoSession == [open |-> FALSE, placed |-> {}, atStake |-> [k \in Keys |-> 0]]

(***************************************************************************)
(* The shape of every variable: what the log, the venue, the session's     *)
(* guard and its risk book, and the pass's list of decided rows can hold.  *)
(***************************************************************************)
TypeOK ==
  /\ log \in Seq(Row)
  /\ orders \in Seq(Bracket)
  /\ fills \in Seq(Fill)
  /\ session \in [open : BOOLEAN, placed : SUBSET Keys, atStake : [Keys -> Nat]]
  /\ prompt \in SUBSET Plan
  /\ pass \in {"idle", "settling", "closing"}
  /\ todo \in SUBSET Row

Init ==
  /\ log = <<>> /\ orders = <<>> /\ fills = <<>>
  /\ session = NoSession /\ prompt = {}
  /\ pass = "idle" /\ todo = {}

-----------------------------------------------------------------------------
(* The venue.  External: what the code in src/ assumes the broker does.    *)

\* Alpaca takes the candidate key as client_order_id and refuses a second
\* order under it; Hyperliquid is sent no such id and accepts again.
VenueRefuses(k) ==
  Venue = "alpaca" /\ \E b \in DOMAIN orders : orders[b].key = k

NewBracket(plan, legs) ==
  [key |-> plan.key, risk |-> plan.risk, filled |-> 0, exited |-> 0,
   status |-> "working", legs |-> legs]

Accept(plan, legs) ==
  /\ Len(orders) < MaxBrackets
  /\ ~VenueRefuses(plan.key)
  /\ orders' = Append(orders, NewBracket(plan, legs))
  /\ UNCHANGED fills

FillEntry(b) ==
  /\ orders[b].status = "working"
  /\ orders' = [orders EXCEPT ![b].filled = @ + 1,
                  ![b].status = IF orders[b].filled + 1 = Lot THEN "filled" ELSE @]
  /\ fills' = Append(fills, [order |-> b, leg |-> "entry"])

\* Rejected at the open, expired, margin-canceled: the remainder is dead.
KillEntry(b) ==
  /\ orders[b].status = "working"
  /\ orders' = [orders EXCEPT ![b].status = "canceled", ![b].legs = "done"]
  /\ UNCHANGED fills

Exit(b, leg) ==
  /\ orders[b].exited < orders[b].filled
  /\ orders' = [orders EXCEPT ![b].exited = @ + 1,
                  ![b].legs = IF orders[b].exited + 1 = orders[b].filled
                              THEN "done" ELSE @]
  /\ fills' = Append(fills, [order |-> b, leg |-> leg])

\* The legs trigger once the entry has filled whole.
ExitLeg(b, leg) ==
  /\ orders[b].status = "filled" /\ orders[b].legs = "working"
  /\ Exit(b, leg)

\* The operator sells by hand, under an order id no bracket owns.
ExitByHand(b) ==
  /\ orders[b].status # "working"
  /\ Exit(b, "manual")

\* Both exit legs expire or are cancelled with the position still open.
LapseLegs(b) ==
  /\ orders[b].status = "filled" /\ orders[b].legs = "working"
  /\ orders' = [orders EXCEPT ![b].legs = "done"]
  /\ UNCHANGED fills

VenueStep ==
  /\ \E b \in DOMAIN orders :
       \/ FillEntry(b)
       \/ KillEntry(b)
       \/ \E leg \in {"target", "stop"} : ExitLeg(b, leg)
       \/ ExitByHand(b)
       \/ LapseLegs(b)
  /\ UNCHANGED <<log, sessionVars, passVars>>

-----------------------------------------------------------------------------
(* What the broker adapter reports.                                        *)

\* The bracket the venue answers with when asked about k: Alpaca looks up the
\* key itself, Hyperliquid the order id the log recorded.  {}: no answer.
Answer(k) ==
  IF Venue = "alpaca"
  THEN {b \in DOMAIN orders : orders[b].key = k}
  ELSE {OrderOf(log, k)} \cap DOMAIN orders

\* Mutation: an entry that has begun to fill is taken for settled.
settledOnceTraded(b) == orders[b].filled > 0 \/ orders[b].status # "working"

settled(b) == orders[b].status # "working"

\* Mutation: no leg statuses is read as no legs.
is_liveByLegs(b) ==
  CASE orders[b].status = "canceled" -> FALSE
    [] orders[b].status = "filled"   -> Venue = "alpaca" /\ orders[b].legs = "working"
    [] OTHER                         -> TRUE

is_live(b) ==
  CASE orders[b].status = "canceled" -> FALSE
    [] orders[b].status = "filled"   -> Venue = "hyperliquid" \/ orders[b].legs = "working"
    [] OTHER                         -> TRUE

\* Mutation: a key the venue does not answer for is taken for dead.
AnsweredLiveKeys(keys, readable) ==
  {k \in keys \cap readable : \E b \in Answer(k) : is_live(b)}

\* live_keys, when the venue answers for the keys in readable only.
LiveKeys(keys, readable) ==
  {k \in keys : k \notin readable \/ Answer(k) = {} \/ \E b \in Answer(k) : is_live(b)}

-----------------------------------------------------------------------------
(* The triage session.                                                     *)

Noise == {i \in DOMAIN log : log[i].outcome \in {"refused", "failed"}}
RoomForNoise == Cardinality(Noise) < MaxNoise

OpenSession ==
  /\ ~session.open
  /\ "concurrent" \in Faults \/ pass = "idle"
  /\ \E readable \in SUBSET PlacedKeys(log) :
       LET live == LiveKeys(PlacedKeys(log), readable) IN
       session' = [open |-> TRUE, placed |-> live,
                   atStake |-> [k \in Keys |-> IF k \in live THEN RiskByKey(log, k) ELSE 0]]
  /\ UNCHANGED <<log, venueVars, prompt, passVars>>

\* The operator quits, or the process dies at a prompt.
CloseSession ==
  /\ session.open
  /\ session' = NoSession /\ prompt' = {}
  /\ UNCHANGED <<log, venueVars, passVars>>

\* Mutation: a decided candidate comes back to the queue.
OfferableAgain(k) == session.open /\ prompt = {}

\* An approval takes the candidate off the queue for good, whatever became of
\* its order; only a sidecar that has lost the approval offers it again.
Offerable(k) ==
  /\ session.open /\ prompt = {}
  /\ "again" \in Faults \/ RowsOf(log, k) = {}

Refuse(k) ==
  /\ RoomForNoise
  /\ log' = Append(log, RefusalRow(k))

RiskAtStake == SumFunction(session.atStake)

\* The size build settles on: the full budget, or what the ceiling leaves.
Sized(risk) ==
  \/ risk = Want /\ RiskAtStake + Want <= MaxRisk
  \/ risk < Want /\ RiskAtStake + risk = MaxRisk

\* Approve a candidate that the guards refuse: a live duplicate, a dormant
\* asset, any check of build, a ceiling that leaves too little.
OfferRefused(k) ==
  /\ Offerable(k)
  /\ Refuse(k)
  /\ UNCHANGED <<venueVars, sessionVars, passVars>>

\* Approve a candidate that passes the guards: the plan is shown.
OfferPlanned(k) ==
  /\ Offerable(k)
  /\ k \notin session.placed
  /\ \E risk \in MinFit .. Want :
       Sized(risk) /\ prompt' = {[key |-> k, risk |-> risk]}
  /\ UNCHANGED <<log, venueVars, session, passVars>>

\* The operator answers anything but y.
Declined(plan) ==
  /\ Refuse(plan.key)
  /\ prompt' = {}
  /\ UNCHANGED <<venueVars, session, passVars>>

\* Mutation: the plan itself joins the guard, not its key.
CommittedPlan(plan) ==
  session' = [session EXCEPT !.placed = @ \cup {plan},
                             !.atStake[plan.key] = @ + plan.risk]

\* Mutation: the session forgets what it has just put at risk.
CommittedUncounted(plan) ==
  session' = [session EXCEPT !.placed = @ \cup {plan.key}]

Committed(plan) ==
  session' = [session EXCEPT !.placed = @ \cup {plan.key},
                             !.atStake[plan.key] = @ + plan.risk]

\* The venue accepts every leg.  The reply may name no order id.
Placed(plan) ==
  /\ Accept(plan, "working")
  /\ \E order \in {Len(orders) + 1} \cup (IF "unnamed" \in Faults THEN {0} ELSE {}) :
       log' = Append(log, PlacementRow(plan.key, order, plan.risk, TRUE))
  /\ Committed(plan)
  /\ prompt' = {}
  /\ UNCHANGED passVars

\* The venue refuses the bracket whole.
Rejected(plan) ==
  /\ RoomForNoise
  /\ log' = Append(log, PlacementRow(plan.key, 0, plan.risk, FALSE))
  /\ prompt' = {}
  /\ UNCHANGED <<venueVars, session, passVars>>

\* The entry rests and a leg is refused: not ok, though order ids came back.
PartlyPlaced(plan) ==
  /\ "partial" \in Faults /\ RoomForNoise
  /\ Accept(plan, "done")
  /\ log' = Append(log, PlacementRow(plan.key, Len(orders) + 1, plan.risk, FALSE))
  /\ prompt' = {}
  /\ UNCHANGED <<session, passVars>>

\* place() raises, whether or not the venue took the order: declined as error.
Raised(plan) ==
  /\ \/ UNCHANGED venueVars
     \/ "lost" \in Faults /\ Accept(plan, "working")
  /\ Refuse(plan.key)
  /\ prompt' = {}
  /\ UNCHANGED <<session, passVars>>

\* The process dies after the venue took the order, before the row is written.
KilledAfterPlace(plan) ==
  /\ "killed" \in Faults
  /\ Accept(plan, "working")
  /\ session' = NoSession /\ prompt' = {}
  /\ UNCHANGED <<log, passVars>>

SessionStep ==
  \/ OpenSession
  \/ CloseSession
  \/ \E k \in Keys : OfferRefused(k) \/ OfferPlanned(k)
  \/ \E plan \in prompt : \/ Declined(plan)
                          \/ Placed(plan)
                          \/ Rejected(plan)
                          \/ PartlyPlaced(plan)
                          \/ Raised(plan)
                          \/ KilledAfterPlace(plan)

-----------------------------------------------------------------------------
(* The book pass.                                                          *)

MayRun == "concurrent" \in Faults \/ ~session.open

\* reconcile asks about every unsettled key and keeps the settled answers.
BeginReconcile(readable) ==
  /\ pass = "idle" /\ MayRun
  /\ readable \subseteq UnsettledKeys(log)
  /\ todo' = {ReconciliationRow(orders[b].key, orders[b].status, orders[b].filled) :
                b \in {c \in UNION {Answer(k) : k \in readable} : settled(c)}}
  /\ pass' = "settling"
  /\ UNCHANGED <<log, venueVars, sessionVars>>

Write(row) ==
  /\ log' = Append(log, row)
  /\ todo' = todo \ {row}
  /\ UNCHANGED <<venueVars, sessionVars, pass>>

WriteReconciliation(row) == pass = "settling" /\ Write(row)

\* The index of the last print of b's entry: when the position was fully open.
EntryPrints(b) == {i \in DOMAIN fills : fills[i].order = b /\ fills[i].leg = "entry"}
EntryEnd(b)    == Last(EntryPrints(b))

\* Does the i-th print take off a position on k's side?  A long is sold: by the
\* exits of longs and by the entries of shorts.  (Hyperliquid says it of the
\* print itself; with one side to a coin that is the same.)
IsExitSide(i, k) ==
  (fills[i].leg # "entry") <=> (DirectionOf[orders[fills[i].order].key] = DirectionOf[k])

\* The prints on k's symbol that can have taken its position off, whoever they
\* belong to.  Prints bear distinct stamps, so since its entry ended is after it.
ExitFills(k, b) ==
  {i \in DOMAIN fills : /\ SymbolOf[orders[fills[i].order].key] = SymbolOf[k]
                        /\ ~(fills[i].order = b /\ fills[i].leg = "entry")
                        /\ IsExitSide(i, k)
                        /\ i > EntryEnd(b)}

\* Mutations: any exit closes the trade; only an exit beyond the entry does.
IsTouched(exits, entryQty) == exits # {}
IsOversold(exits, entryQty) == Cardinality(exits) > entryQty

IsFlat(exits, entryQty) == Cardinality(exits) >= entryQty

\* Mutation: the positions are counted candidate by candidate.
HoldersOnce(symbol) == Cardinality({symbol : k \in AwaitingExitKeys(log)})

Holders(symbol) == Cardinality({k \in AwaitingExitKeys(log) : SymbolOf[k] = symbol})

\* Which leg of bracket b a print is of, as far as the log's leg ids tell.
OwnLeg(b, i) == b \in Named /\ fills[i].order = b /\ fills[i].leg \in {"target", "stop"}

ExitReason(b, i) ==
  IF b \notin Named THEN "unknown" ELSE IF OwnLeg(b, i) THEN fills[i].leg ELSE "manual"

Stray(k, b) == {i \in ExitFills(k, b) : ~OwnLeg(b, i)}

\* One row per exit order id, once the prints cover what was entered.
Closes(k) ==
  LET b == OrderOf(log, k)
      exits == ExitFills(k, b)
  IN  IF \/ b = 0 \/ EntryPrints(b) = {}
         \/ Holders(SymbolOf[k]) > 1 /\ Stray(k, b) # {}
         \/ exits = {}
         \/ ~IsFlat(exits, LatestWith(log, k, "reconciled").filled)
      THEN {}
      ELSE {CloseRow(k, fills[i].order, fills[i].leg,
                     Cardinality({j \in exits : fills[j] = fills[i]}), ExitReason(b, i)) :
              i \in exits}

\* close_out reads the exit list and the fill feed (which may not answer).
BeginCloseOut(answered) ==
  /\ pass = "settling" /\ todo = {}
  /\ todo' = IF answered THEN UNION {Closes(k) : k \in AwaitingExitKeys(log)} ELSE {}
  /\ pass' = "closing"
  /\ UNCHANGED <<log, venueVars, sessionVars>>

WriteClose(row) == pass = "closing" /\ Write(row)

EndPass ==
  /\ pass = "closing" /\ todo = {}
  /\ pass' = "idle"
  /\ UNCHANGED <<log, venueVars, sessionVars, todo>>

CrashPass ==
  /\ "crash" \in Faults /\ pass # "idle"
  /\ pass' = "idle" /\ todo' = {}
  /\ UNCHANGED <<log, venueVars, sessionVars>>

PassStep ==
  \/ \E readable \in SUBSET UnsettledKeys(log) : BeginReconcile(readable)
  \/ \E row \in todo : WriteReconciliation(row) \/ WriteClose(row)
  \/ \E answered \in BOOLEAN : BeginCloseOut(answered)
  \/ EndPass
  \/ CrashPass

-----------------------------------------------------------------------------
(* book --cancel: the operator picks numbered entries off a listing.  The  *)
(* listing may be old when the cancel is sent; the venue then refuses it,  *)
(* so only an entry still working is ever touched, never a position.       *)

CancelResting(b) ==
  /\ KillEntry(b)
  /\ UNCHANGED <<log, sessionVars, passVars>>

Next ==
  \/ VenueStep
  \/ SessionStep
  \/ PassStep
  \/ \E b \in DOMAIN orders : CancelResting(b)

Spec == Init /\ [][Next]_vars

-----------------------------------------------------------------------------
(* Safety.                                                                 *)

Live(b) ==
  \/ orders[b].status = "working"
  \/ orders[b].status = "filled" /\ orders[b].exited < orders[b].filled
HasOpenPosition(b) == orders[b].exited < orders[b].filled
LiveBrackets == {b \in DOMAIN orders : Live(b)}
RowOfBracket(b) == {i \in DOMAIN log : log[i].outcome = "placed" /\ log[i].order = b}

(***************************************************************************)
(* The duplicate guard's purpose: never two live brackets (an entry that   *)
(* can still fill, or a whole fill not yet exited) on one candidate.       *)
(***************************************************************************)
OneBracketPerKey ==
  \A b, c \in LiveBrackets : orders[b].key = orders[c].key => b = c

(***************************************************************************)
(* While a session is open, every key with a position the log knows it     *)
(* placed is in the session's duplicate guard.                             *)
(***************************************************************************)
GuardCoversPosition ==
  session.open =>
    \A b \in DOMAIN orders :
      HasOpenPosition(b) /\ RowOfBracket(b) # {} => orders[b].key \in session.placed

(***************************************************************************)
(* The pooled ceiling: the risk of every bracket that can still be stopped *)
(* out, taken together, never exceeds MaxRisk, however sessions, fills and *)
(* exits interleave.  A position whose legs have lapsed is outside it: the *)
(* code stops counting it, and no stop bounds what it can lose.            *)
(***************************************************************************)
CanStopOut(b) ==
  \/ orders[b].status = "working"
  \/ orders[b].status = "filled" /\ orders[b].legs = "working"

CeilingHolds ==
  SumFunctionOnSet([b \in DOMAIN orders |-> orders[b].risk],
                   {b \in DOMAIN orders : CanStopOut(b)}) <= MaxRisk

(***************************************************************************)
(* A verdict the reconcile pass wrote is still the venue's own verdict on  *)
(* the bracket of the candidate's LATEST placement.                        *)
(***************************************************************************)
SettledIsTrue ==
  \A k \in Keys :
    LET b == OrderOf(log, k) IN
    (RowsOf(log, k) # {} /\ LatestRow(log, k).outcome = "reconciled") =>
      /\ b \in DOMAIN orders
      /\ LatestRow(log, k).status = orders[b].status
      /\ LatestRow(log, k).filled = orders[b].filled

(***************************************************************************)
(* A candidate leaves the exit list only when nothing is left of its       *)
(* position: once its latest row is a close, its bracket is flat.          *)
(***************************************************************************)
ClosedIsFlat ==
  \A k \in Keys :
    (RowsOf(log, k) # {} /\ LatestRow(log, k).outcome = "closed") =>
      ~HasOpenPosition(OrderOf(log, k))

(***************************************************************************)
(* With an instrument to each candidate, the realised history counts each  *)
(* exit order once and whole: no two close rows share one, and each        *)
(* carries all the quantity it ever traded.                                *)
(***************************************************************************)
ClosesMatchFeed ==
  \A i \in DOMAIN log : log[i].outcome = "closed" =>
    /\ log[i].filled = Cardinality({j \in DOMAIN fills : /\ fills[j].order = log[i].order
                                                         /\ fills[j].leg = log[i].leg})
    /\ \A j \in DOMAIN log :
         (/\ log[j].outcome = "closed" /\ log[j].order = log[i].order
          /\ log[j].leg = log[i].leg) => i = j

(***************************************************************************)
(* A placed order stays on the reconcile pass's list until a verdict on it *)
(* is written, whatever else is approved, refused or retried meanwhile.    *)
(***************************************************************************)
UnsettledUntilReconciled ==
  [][\A k \in UnsettledKeys(log) \ UnsettledKeys(log') :
       LatestRow(log', k).outcome = "reconciled"]_vars

(***************************************************************************)
(* A filled trade stays on the exit list until its close is written.       *)
(***************************************************************************)
AwaitingUntilClosed ==
  [][\A k \in AwaitingExitKeys(log) \ AwaitingExitKeys(log') :
       LatestRow(log', k).outcome = "closed"]_vars

(***************************************************************************)
(* The ambiguity guard's promise: while another trade on the exit list     *)
(* shares the instrument, a close is booked for a candidate only of an     *)
(* exit its own bracket's leg ids name, whoever filled or was placed       *)
(* between reading the list and writing the row (close_out: holders,       *)
(* stray).                                                                 *)
(***************************************************************************)
SharesWithAwaiting(k) == \E j \in AwaitingExitKeys(log) \ {k} : SymbolOf[j] = SymbolOf[k]

SharedExitsAreOwn ==
  [][\A i \in DOMAIN log' \ DOMAIN log :
       LET row == log'[i] IN
       row.outcome = "closed" /\ SharesWithAwaiting(row.key) =>
         orders[row.order].key = row.key /\ row.reason = row.leg /\ row.leg # "manual"]_vars

(***************************************************************************)
(* "This candidate gets a fabricated close built from someone else's fill" *)
(* (close_out, of what the guard is there to prevent).  It does not hold   *)
(* of candidates that share an instrument: the guard counts only trades on *)
(* the exit list, where a fill not yet reconciled and a trade already      *)
(* closed are not.                                                         *)
(***************************************************************************)
CloseNamesOwnExit ==
  \A i \in DOMAIN log :
    log[i].outcome = "closed" => orders[log[i].order].key = log[i].key

-----------------------------------------------------------------------------
(* Refinement.  The ledger a reader sees is the log without its refusals   *)
(* and failures, which say nothing of an order that was sent.              *)

LedgerRows(k) == {i \in RowsOf(log, k) : log[i].outcome \in {"placed", "reconciled", "closed"}}

Entry(row) ==
  CASE row.outcome = "placed" -> "sent"
    [] row.outcome = "closed" -> "booked"
    [] row.outcome = "reconciled" /\ row.status = "filled" -> "held"
    [] OTHER -> "dead"

LedgerState(k) ==
  IF LedgerRows(k) = {} THEN "none" ELSE Entry(log[Last(LedgerRows(k))])

Ledger == INSTANCE TradeLedger WITH books <- [k \in Keys |-> LedgerState(k)]

(***************************************************************************)
(* The log implements the ledger: held trades are never sent again before  *)
(* they are booked, and nothing is settled or booked out of turn, whatever *)
(* a session and a pass that overlap write in between.                     *)
(***************************************************************************)
LedgerSpec == Ledger!Spec

-----------------------------------------------------------------------------
(* Liveness.  The nightly runs book --reconcile every day and is started   *)
(* again after a crash; the venue answers infinitely often.                *)

NightlyFairness ==
  /\ WF_vars(CloseSession)
  /\ SF_vars(BeginReconcile(UnsettledKeys(log)))
  /\ SF_vars(BeginCloseOut(TRUE))
  /\ SF_vars(\E row \in todo : WriteReconciliation(row) \/ WriteClose(row))
  /\ WF_vars(EndPass)

FairSpec == Spec /\ NightlyFairness

Finished(b) ==
  orders[b].status = "filled" /\ ~HasOpenPosition(b) /\ RowOfBracket(b) # {}

Booked(b) == RowsWith(log, orders[b].key, "closed") # {}

\* Another candidate's bracket is on the instrument, and not every print since
\* b's entry is one of b's own legs: the guard may hold b back for good.
Unattributable(b) ==
  /\ Stray(orders[b].key, b) # {}
  /\ \E c \in DOMAIN orders :
       orders[c].key # orders[b].key /\ SymbolOf[orders[c].key] = SymbolOf[orders[b].key]

Unbooked == {b \in DOMAIN orders : Finished(b) /\ ~Booked(b)}

(***************************************************************************)
(* Every bracket that filled whole and came off is eventually booked: its  *)
(* candidate gets a close row, though passes crash and answers go missing, *)
(* unless its exits cannot be told from another candidate's on the same    *)
(* instrument.  (A trade once booked stays booked.)                        *)
(***************************************************************************)
EveryFinishedTradeIsBooked == []<>(\A b \in Unbooked : Unattributable(b))

(***************************************************************************)
(* "A fill on this candidate's OWN bracket leg names its owner exactly"    *)
(* (close_out, of the same guard): a trade whose instrument has seen no    *)
(* exit but known bracket legs is booked.  It does not hold: another       *)
(* candidate's leg counts as stray too, and two trades that each come off  *)
(* by their own leg after the other's entry hold each other back.          *)
(***************************************************************************)
KnownLegsAreBooked ==
  []<>(Unbooked = {} \/ \E i \in DOMAIN fills : fills[i].leg = "manual")
=============================================================================
