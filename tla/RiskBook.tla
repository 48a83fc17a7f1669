------------------------------ MODULE RiskBook ------------------------------
(***************************************************************************)
(* A Desk: one session per venue, one pooled ceiling on risk, one buying   *)
(* power per account.  Candidates are approved one at a time, routed to a  *)
(* venue, sized by plan.build, shown, and sent.                            *)
(*                                                                         *)
(* A size is counted in units whose stop-out costs 1, so size and risk are *)
(* one number; a unit's notional is Price.  What was not measured is {},   *)
(* what was is {n}: an unmeasured ceiling is not a ceiling of zero.        *)
(***************************************************************************)
EXTENDS Integers, FiniteSetsExt

Venues == {"alpaca", "hyperliquid"}

CONSTANTS
  Keys,        \* candidates
  Route,       \* [Keys -> Venues]: the venue the queue priced cheaper
  Allowance,   \* [Venues -> Nat]: equity * max_portfolio_risk; the equity stands still
  Budget,      \* [Venues -> Nat]: equity * risk_pct, the size a trade asks for
  Power,       \* the buying power of an Alpaca account that holds nothing
  Price,       \* notional of one unit of size
  Lot,         \* the venue's lot, in units
  MinFill,     \* min_budget_fill, in percent
  MinNotional, \* the venue's least order
  Caps,        \* what Kelly, leverage, concentration and participation allow
  Faults       \* which of AllFaults the environment may commit

AllFaults ==
  {"silent",      \* a venue does not answer for its equity
   "mute",        \* no venue does
   "broke",       \* a venue's equity reads zero: unreadable, or all committed
   "unreachable", \* a venue with brackets still live cannot be opened
   "unstated",    \* Alpaca's account does not say what its buying power is
   "samenight"}   \* a sitting opens before the last one's orders cost buying power

ASSUME ConstantsAssumption ==
  /\ Route \in [Keys -> Venues]
  /\ Allowance \in [Venues -> Nat] /\ Budget \in [Venues -> Nat]
  /\ Power \in Nat /\ Price \in Nat \ {0} /\ Lot \in Nat \ {0}
  /\ MinFill \in 0 .. 100 /\ MinNotional \in Nat /\ Caps \subseteq Nat
  /\ Faults \subseteq AllFaults

VARIABLES
  exposed,   \* [Venues -> recorded risk of the brackets still live there]
  power,     \* the buying power Alpaca reports
  desk,      \* the venues with an open session; {}: no desk is open
  risk,      \* [Venues -> Session._risk]
  committed, \* [Venues -> Session._committed]
  equity,    \* [Venues -> Session._equity]: "unread" until a venue has answered
  approved,  \* candidates whose approval is in the decisions sidecar
  recorded,  \* candidates the order log has a row of
  prompt     \* {} or {the plan shown at "execute? [y/N]"}

venueVars == <<exposed, power>>
deskVars  == <<desk, risk, committed>>
vars == <<exposed, power, desk, risk, committed, equity, approved, recorded, prompt>>

Inputs == [wanted : Nat, others : SUBSET Caps, left : SUBSET Nat, room : SUBSET Nat]

Plan == [key : Keys, size : Nat, inputs : Inputs]

(***************************************************************************)
(* The shape of every variable: running totals never go negative, a        *)
(* session is open only at a venue, and no plan of no size is ever shown.  *)
(***************************************************************************)
TypeOK ==
  /\ exposed \in [Venues -> Nat] /\ power \in Nat
  /\ desk \subseteq Venues
  /\ risk \in [Venues -> Nat] /\ committed \in [Venues -> Nat]
  /\ equity \in [Venues -> {"unread", "zero", "funded"}]
  /\ approved \subseteq Keys /\ recorded \subseteq Keys
  /\ prompt \subseteq Plan
  /\ \A plan \in prompt : plan.size > 0

Unread == [v \in Venues |-> "unread"]
Nought == [v \in Venues |-> 0]

Init ==
  /\ exposed = Nought /\ power = Power
  /\ desk = {} /\ risk = Nought /\ committed = Nought /\ equity = Unread
  /\ approved = {} /\ recorded = {} /\ prompt = {}

-----------------------------------------------------------------------------
(* plan.build and the modules it calls.                                    *)

Floored(n) == IF n < 0 THEN 0 ELSE n

\* The sum of f over the venues in S.
Total(f, S) ==
  LET Share(v) == IF v \in S THEN f[v] ELSE 0
  IN  Share("alpaca") + Share("hyperliquid")

round_sz(size) == size - (size % Lot)

\* The smallest ceiling that was measured wins.
apply_caps(wanted, ceilings) == Min(ceilings \cup {wanted})

WorthSending(fitted, wanted) == wanted = 0 \/ 100 * fitted >= MinFill * wanted

\* Mutation: an order of no size passes.
check_sizeDustToo(size) == size = 0 \/ size * Price >= MinNotional

check_size(size) == size > 0 /\ size * Price >= MinNotional

\* Mutation: buying power is held against what was wanted, not what is allowed.
FitAskedFor(inputs, allowed) ==
  round_sz(apply_caps(inputs.wanted, {n \div Price : n \in inputs.room}))

\* What the remaining buying power pays for, of what every other ceiling allows.
Fit(inputs, allowed) == round_sz(apply_caps(allowed, {n \div Price : n \in inputs.room}))

\* The pooled ceiling is the one that bound, and the reader will notice.
BookBinds(inputs, asked, capped) ==
  /\ capped < asked
  /\ \E left \in inputs.left : \A other \in inputs.others \cup {inputs.wanted} : left < other

\* {the size to send}, or {} for any refusal.
build(inputs) ==
  LET allowed == apply_caps(inputs.wanted, inputs.others \cup inputs.left)
      asked   == round_sz(inputs.wanted)
      capped  == round_sz(allowed)
      fitted  == Fit(inputs, allowed)
  IN  IF /\ BookBinds(inputs, asked, capped) => WorthSending(capped, asked)
         /\ inputs.room # {} => WorthSending(fitted, capped)
         /\ check_size(fitted)
      THEN {fitted}
      ELSE {}

-----------------------------------------------------------------------------
(* The venues.  External.                                                  *)

\* Entries are stopped out, exit at their target, or die unfilled.
Ended(v) ==
  /\ \E part \in 1 .. exposed[v] : exposed' = [exposed EXCEPT ![v] = @ - part]
  /\ UNCHANGED <<power, deskVars, equity, approved, recorded, prompt>>

\* Alpaca's figure catches up with what it has accepted: at the open, say.
PowerCatchesUp ==
  /\ power' = Floored(Power - Price * exposed["alpaca"])
  /\ UNCHANGED <<exposed, deskVars, equity, approved, recorded, prompt>>

-----------------------------------------------------------------------------
(* The desk.                                                               *)

\* Mutation: every sitting starts from an empty book.
opening_riskReset(v) == 0

\* Seeded from the log's rows of what the venue still calls live.
opening_risk(v) == exposed[v]

OpenDesk ==
  /\ desk = {}
  /\ "samenight" \in Faults \/ power <= Power - Price * exposed["alpaca"]
  /\ desk' \in SUBSET Venues \ {{}}
  /\ "unreachable" \in Faults \/ \A v \in Venues \ desk' : exposed[v] = 0
  /\ risk' = [v \in Venues |-> IF v \in desk' THEN opening_risk(v) ELSE 0]
  /\ committed' = Nought /\ equity' = Unread
  /\ UNCHANGED <<venueVars, approved, recorded, prompt>>

\* The process ends and its sessions with it.
Ending == desk' = {} /\ risk' = Nought /\ committed' = Nought /\ equity' = Unread

CloseDesk ==
  /\ desk # {} /\ prompt = {}
  /\ Ending
  /\ UNCHANGED <<venueVars, approved, recorded, prompt>>

\* Desk.equity_by_venue: what is cached stays, the rest is asked again.
EquityReads ==
  {read \in [Venues -> {"unread", "zero", "funded"}] :
     /\ \A v \in Venues :
          /\ v \notin desk => read[v] = "unread"
          /\ equity[v] # "unread" => read[v] = equity[v]
          /\ read[v] = "zero" => "broke" \in Faults
          /\ v \in desk /\ read[v] = "unread" => Faults \cap {"silent", "mute"} # {}
     /\ "mute" \in Faults \/ \E v \in Venues : read[v] # "unread"}

Funded(read) == {v \in desk : read[v] = "funded"}

\* Book.remaining: {} when no venue answered.
Left(read) ==
  IF \A v \in desk : read[v] = "unread"
  THEN {}
  ELSE {Floored(Total(Allowance, Funded(read)) - Total(risk, desk))}

\* Mutation: the venue's figure is taken at its word.
headroomAsReported(v) == power

headroom(v) == Floored(power - committed[v])

\* Only Alpaca reports an account, and a figure it leaves out is no ceiling.
Rooms(v) ==
  IF v = "alpaca"
  THEN {{headroom(v)}} \cup (IF "unstated" \in Faults THEN {{}} ELSE {})
  ELSE {{}}

Approve(k) ==
  /\ desk # {} /\ prompt = {} /\ k \notin approved
  /\ approved' = approved \cup {k}

Record(k) == recorded' = recorded \cup {k}

\* The venue the queue chose is not open: refused, never sent elsewhere.
Unroutable(k) ==
  /\ Approve(k) /\ Route[k] \notin desk
  /\ Record(k)
  /\ UNCHANGED <<venueVars, deskVars, equity, prompt>>

\* Refused by a guard: dormant, duplicate, or any check of build.
Refused(k) ==
  /\ Approve(k) /\ Route[k] \in desk
  /\ equity' \in EquityReads
  /\ Record(k)
  /\ UNCHANGED <<venueVars, deskVars, prompt>>

\* prepare raises on a venue that does not answer, size_for_risk on an equity
\* of zero, and nothing between there and main catches it.
Raised(k) ==
  /\ Approve(k) /\ Route[k] \in desk
  /\ \E read \in EquityReads : read[Route[k]] # "funded"
  /\ Ending
  /\ UNCHANGED <<venueVars, recorded, prompt>>

\* What prepare gathers for build, the book having been read already.
prepare(k, read, others, room) ==
  [wanted |-> Budget[Route[k]], others |-> others, left |-> Left(read), room |-> room]

\* The book is read first; prepare's own read of the equity may then succeed.
Planned(k) ==
  /\ Approve(k) /\ Route[k] \in desk
  /\ \E read \in EquityReads, others \in SUBSET Caps, room \in Rooms(Route[k]) :
       LET inputs == prepare(k, read, others, room) IN
       /\ read[Route[k]] # "zero"
       /\ equity' = [read EXCEPT ![Route[k]] = "funded"]
       /\ \E size \in build(inputs) :
            prompt' = {[key |-> k, size |-> size, inputs |-> inputs]}
  /\ UNCHANGED <<venueVars, deskVars, recorded>>

\* The operator declines, or the venue rejects the bracket.
NotSent(plan) ==
  /\ Record(plan.key)
  /\ prompt' = {}
  /\ UNCHANGED <<venueVars, deskVars, equity, approved>>

Sent(plan) ==
  LET v == Route[plan.key] IN
  /\ exposed' = [exposed EXCEPT ![v] = @ + plan.size]
  /\ risk' = [risk EXCEPT ![v] = @ + plan.size]
  /\ committed' = [committed EXCEPT ![v] = @ + plan.size * Price]
  /\ Record(plan.key)
  /\ prompt' = {}
  /\ UNCHANGED <<power, desk, equity, approved>>

Next ==
  \/ \E v \in Venues : Ended(v)
  \/ PowerCatchesUp
  \/ OpenDesk
  \/ CloseDesk
  \/ \E k \in Keys : Unroutable(k) \/ Refused(k) \/ Raised(k) \/ Planned(k)
  \/ \E plan \in prompt : NotSent(plan) \/ Sent(plan)

Spec == Init /\ [][Next]_vars

-----------------------------------------------------------------------------
(* Safety.                                                                 *)

(***************************************************************************)
(* One risk number for the whole book: what every venue together would     *)
(* lose if all of it stopped out never exceeds the pooled ceiling, from    *)
(* one sitting to the next and with a venue that does not answer.          *)
(***************************************************************************)
PooledCeiling == Total(exposed, Venues) <= Total(Allowance, Venues)

(***************************************************************************)
(* Buying power is never promised twice: all that is at Alpaca fits what   *)
(* the account could buy, although the venue's own figure may stand still  *)
(* for a whole sitting.                                                    *)
(***************************************************************************)
PowerCoversOrders == Price * exposed["alpaca"] <= Power

\* Every ceiling there is, in units of size.
Ceilings(inputs) ==
  {inputs.wanted} \cup inputs.others \cup inputs.left
    \cup {n \div Price : n \in inputs.room}

(***************************************************************************)
(* The size on the wire is the smallest of all the ceilings, rounded down  *)
(* to the lot once: no ceiling escapes, and no shrinking is done twice.    *)
(***************************************************************************)
SizeIsSmallestCeiling ==
  \A plan \in prompt : plan.size = round_sz(Min(Ceilings(plan.inputs)))

(***************************************************************************)
(* Every approval ends in a row of the order log: sent, refused, declined  *)
(* or failed.  Nothing is approved and then silently dropped.              *)
(***************************************************************************)
EveryApprovalIsOnRecord == prompt = {} => approved \subseteq recorded
=============================================================================
