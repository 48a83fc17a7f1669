----------------------- MODULE OrderLifecycleProofs -----------------------
(***************************************************************************)
(* Theorems about OrderLifecycle, for every number of candidates and       *)
(* brackets, every lot, every ceiling and every sequence of steps: that an *)
(* order is not sent twice nor past the ceiling, and what the log comes to *)
(* say of a candidate.  The book pass's verdicts are the venue's and its   *)
(* closes count the candidate's own exits once and whole, on a venue that  *)
(* is handed the candidate key and names every order it takes; a close     *)
(* written while two candidates of one instrument wait for theirs names    *)
(* the candidate's own exit; and what a reader sees of a candidate moves   *)
(* as TradeLedger says it may.                                             *)
(***************************************************************************)
EXTENDS OrderLifecycle, DataProofs, SequenceTheorems

-----------------------------------------------------------------------------
(* The order log: what one append does to its views.  Every view is "the    *)
(* last row that ...", so one append changes the views of one candidate.    *)

\* Any non-empty set of row numbers of a finite log has a last one.
LEMMA LastIsLargest ==
  ASSUME NEW n \in Nat, NEW S \in SUBSET (1 .. n), S # {}
  PROVE  Last(S) \in S /\ \A j \in S : j <= Last(S)
<1> DEFINE T == {m \in Nat : n - m \in S}
<1>1. T # {} /\ T \in SUBSET Nat
  <2>1. PICK i \in S : TRUE
    OBVIOUS
  <2>2. n - i \in Nat /\ n - (n - i) = i
    BY <2>1
  <2>. QED
    BY <2>1, <2>2
<1>2. PICK m \in T : \A y \in T : m <= y
  <2> HIDE DEF T
  <2>. QED
    BY <1>1, LeastExists
<1>3. ASSUME NEW j \in S PROVE j <= n - m
  <2>1. n - j \in Nat /\ n - (n - j) = j
    OBVIOUS
  <2>2. m \in Nat /\ m <= n - j
    BY <1>2, <2>1
  <2>. QED
    BY <2>2
<1>. QED
  BY <1>2, <1>3 DEF Last

\* A set that holds the largest number of a range has it as its last.
LEMMA LastOfTop ==
  ASSUME NEW n \in Nat, NEW S \in SUBSET (1 .. n), n \in S
  PROVE  Last(S) = n
<1>1. Last(S) \in S /\ \A j \in S : j <= Last(S)
  BY LastIsLargest
<1>2. Last(S) \in 1 .. n /\ n <= Last(S)
  BY <1>1
<1>. QED
  BY <1>2

\* The row numbers a view looks at are numbers of the log.
LEMMA RowsInLog ==
  ASSUME NEW past \in Seq(Row), NEW k, NEW outcome
  PROVE  /\ Len(past) \in Nat
         /\ RowsOf(past, k) \in SUBSET (1 .. Len(past))
         /\ RowsWith(past, k, outcome) \in SUBSET (1 .. Len(past))
BY LenProperties DEF RowsOf, RowsWith

\* One append adds its own number to the rows of its own candidate.
LEMMA RowsAfterAppend ==
  ASSUME NEW past \in Seq(Row), NEW row \in Row, NEW k, NEW outcome
  PROVE  /\ RowsOf(Append(past, row), k) =
              IF row.key = k THEN RowsOf(past, k) \cup {Len(past) + 1} ELSE RowsOf(past, k)
         /\ RowsWith(Append(past, row), k, outcome) =
              IF row.key = k /\ row.outcome = outcome
              THEN RowsWith(past, k, outcome) \cup {Len(past) + 1}
              ELSE RowsWith(past, k, outcome)
<1> DEFINE new == Append(past, row)
<1>1. /\ new \in Seq(Row) /\ Len(new) = Len(past) + 1 /\ Len(past) \in Nat
      /\ \A i \in 1 .. Len(past) : new[i] = past[i]
      /\ new[Len(past) + 1] = row
      /\ DOMAIN past = 1 .. Len(past) /\ DOMAIN new = 1 .. Len(past) + 1
  BY AppendProperties, LenProperties
<1>2. \A i : i \in DOMAIN new <=> i \in DOMAIN past \/ i = Len(past) + 1
  BY <1>1
<1> HIDE DEF new
<1>3. RowsOf(new, k) =
        IF row.key = k THEN RowsOf(past, k) \cup {Len(past) + 1} ELSE RowsOf(past, k)
  BY <1>1, <1>2 DEF RowsOf
<1>4. \A i \in RowsOf(past, k) : new[i] = past[i] /\ i # Len(past) + 1
  BY <1>1 DEF RowsOf
<1>5. RowsWith(new, k, outcome) =
        IF row.key = k /\ row.outcome = outcome
        THEN RowsWith(past, k, outcome) \cup {Len(past) + 1}
        ELSE RowsWith(past, k, outcome)
  BY <1>1, <1>3, <1>4 DEF RowsWith
<1>. QED
  BY <1>3, <1>5 DEF new

\* The candidates ever placed grow by the key of a placed row, and by no other.
LEMMA PlacedAfterAppend ==
  ASSUME NEW past \in Seq(Row), NEW row \in Row
  PROVE  PlacedKeys(Append(past, row)) =
           IF row.outcome = "placed" THEN PlacedKeys(past) \cup {row.key} ELSE PlacedKeys(past)
<1>1. row.key \in Keys
  BY DEF Row
<1>2. \A k \in Keys : RowsWith(Append(past, row), k, "placed") # {} <=>
                      \/ RowsWith(past, k, "placed") # {}
                      \/ row.key = k /\ row.outcome = "placed"
  <2>. TAKE k \in Keys
  <2>1. RowsWith(Append(past, row), k, "placed") =
          IF row.key = k /\ row.outcome = "placed"
          THEN RowsWith(past, k, "placed") \cup {Len(past) + 1}
          ELSE RowsWith(past, k, "placed")
    BY RowsAfterAppend
  <2>. QED
    BY <2>1
<1>. QED
  BY <1>1, <1>2 DEF PlacedKeys

\* A placed row names its candidate's order; every other row leaves all names be.
LEMMA OrderAfterAppend ==
  ASSUME NEW past \in Seq(Row), NEW row \in Row, NEW k \in Keys
  PROVE  OrderOf(Append(past, row), k) =
           IF row.outcome = "placed" /\ row.key = k THEN row.order ELSE OrderOf(past, k)
<1> DEFINE new == Append(past, row)
           S == RowsWith(past, k, "placed")
<1>1. /\ new \in Seq(Row) /\ Len(new) = Len(past) + 1 /\ Len(past) \in Nat
      /\ \A i \in 1 .. Len(past) : new[i] = past[i]
      /\ new[Len(past) + 1] = row
  BY AppendProperties, LenProperties
<1>2. S \in SUBSET (1 .. Len(past))
  BY RowsInLog
<1>3. CASE row.outcome = "placed" /\ row.key = k
  <2>1. RowsWith(new, k, "placed") = S \cup {Len(past) + 1}
    BY <1>3, RowsAfterAppend
  <2>2. Last(S \cup {Len(past) + 1}) = Len(past) + 1
    <3>1. S \cup {Len(past) + 1} \in SUBSET (1 .. Len(past) + 1) /\ Len(past) + 1 \in Nat
      BY <1>1, <1>2
    <3>. QED
      BY <3>1, LastOfTop
  <2>. QED
    BY <1>1, <1>3, <2>1, <2>2 DEF OrderOf, LatestWith, PlacedKeys
<1>4. CASE ~(row.outcome = "placed" /\ row.key = k)
  <2>1. RowsWith(new, k, "placed") = S
    BY <1>4, RowsAfterAppend
  <2>2. CASE S = {}
    BY <1>4, <2>1, <2>2 DEF OrderOf, PlacedKeys
  <2>3. CASE S # {}
    <3>1. Last(S) \in 1 .. Len(past)
      BY <1>1, <1>2, <2>3, LastIsLargest
    <3>. QED
      BY <1>1, <1>4, <2>1, <2>3, <3>1 DEF OrderOf, LatestWith, PlacedKeys
  <2>. QED
    BY <2>2, <2>3
<1>. QED
  BY <1>3, <1>4

\* And so with the risk it was sent with.
LEMMA RiskAfterAppend ==
  ASSUME NEW past \in Seq(Row), NEW row \in Row, NEW k \in Keys
  PROVE  /\ row.outcome = "placed" /\ row.key = k => RiskByKey(Append(past, row), k) = row.risk
         /\ k \in PlacedKeys(past) /\ ~(row.outcome = "placed" /\ row.key = k) =>
              RiskByKey(Append(past, row), k) = RiskByKey(past, k)
<1> DEFINE new == Append(past, row)
           S == RowsWith(past, k, "placed")
<1>1. /\ Len(past) \in Nat /\ S \in SUBSET (1 .. Len(past))
      /\ \A i \in 1 .. Len(past) : new[i] = past[i]
      /\ new[Len(past) + 1] = row
  BY AppendProperties, LenProperties, RowsInLog
<1>2. ASSUME row.outcome = "placed", row.key = k
      PROVE  RiskByKey(new, k) = row.risk
  <2>1. RowsWith(new, k, "placed") = S \cup {Len(past) + 1}
    BY <1>2, RowsAfterAppend
  <2>2. S \cup {Len(past) + 1} \in SUBSET (1 .. Len(past) + 1) /\ Len(past) + 1 \in S \cup {Len(past) + 1}
    BY <1>1
  <2>3. Last(S \cup {Len(past) + 1}) = Len(past) + 1
    BY <1>1, <2>2, LastOfTop
  <2>. QED
    BY <1>1, <2>1, <2>3 DEF RiskByKey, LatestWith
<1>3. ASSUME k \in PlacedKeys(past), ~(row.outcome = "placed" /\ row.key = k)
      PROVE  RiskByKey(new, k) = RiskByKey(past, k)
  <2>1. RowsWith(new, k, "placed") = S
    BY <1>3, RowsAfterAppend
  <2>2. Last(S) \in 1 .. Len(past)
    BY <1>1, <1>3, LastIsLargest DEF PlacedKeys
  <2>. QED
    BY <1>1, <2>1, <2>2 DEF RiskByKey, LatestWith
<1>. QED
  BY <1>2, <1>3

\* What a candidate's latest placement says is data of the right kind.
LEMMA PlacementViewsType ==
  ASSUME NEW past \in Seq(Row), NEW k \in Keys
  PROVE  /\ OrderOf(past, k) \in Nat
         /\ k \in PlacedKeys(past) => RiskByKey(past, k) \in Nat
<1>1. ASSUME k \in PlacedKeys(past) PROVE LatestWith(past, k, "placed") \in Row
  <2>1. Last(RowsWith(past, k, "placed")) \in 1 .. Len(past)
    BY <1>1, RowsInLog, LastIsLargest DEF PlacedKeys
  <2>. QED
    BY <2>1, ElementOfSeq DEF LatestWith
<1>. QED
  BY <1>1 DEF OrderOf, RiskByKey, Row

-----------------------------------------------------------------------------
(* Type correctness.  A fill never takes an entry past its lot because an  *)
(* entry that is still working is not yet whole.                           *)

WorkingHasRoom ==
  \A b \in DOMAIN orders : orders[b].status = "working" => orders[b].filled < Lot

TypeInv == TypeOK /\ WorkingHasRoom

LEMMA InitType == Init => TypeInv
<1>1. <<>> \in Seq(Row) /\ <<>> \in Seq(Bracket) /\ <<>> \in Seq(Fill)
  OBVIOUS
<1>2. DOMAIN <<>> = {}
  OBVIOUS
<1>. QED
  BY <1>1, <1>2 DEF Init, TypeInv, TypeOK, WorkingHasRoom, NoSession

\* The rows the program writes are rows.
LEMMA RowTypes ==
  ASSUME NEW k \in Keys, NEW n \in Nat, NEW q \in Nat
  PROVE  /\ \A ok \in BOOLEAN : PlacementRow(k, n, q, ok) \in Row
         /\ RefusalRow(k) \in Row
         /\ \A status \in {"filled", "canceled"} : ReconciliationRow(k, status, q) \in Row
         /\ \A leg \in Legs \cup {"entry"}, reason \in Reasons :
              CloseRow(k, n, leg, q, reason) \in Row
BY DEF PlacementRow, RefusalRow, ReconciliationRow, CloseRow, BlankRow, Row, Outcomes

\* Changing one bracket to another well-formed one keeps the venue well-formed.
LEMMA OneBracketChanged ==
  ASSUME TypeInv, NEW b \in DOMAIN orders, NEW o \in Bracket,
         o.status = "working" => o.filled < Lot,
         orders' = [orders EXCEPT ![b] = o]
  PROVE  /\ orders' \in Seq(Bracket) /\ WorkingHasRoom'
         /\ DOMAIN orders' = DOMAIN orders
         /\ \A c \in DOMAIN orders : orders'[c] = IF c = b THEN o ELSE orders[c]
<1>1. orders \in Seq(Bracket) /\ DOMAIN orders = 1 .. Len(orders)
  BY LenProperties DEF TypeInv, TypeOK
<1>2. /\ orders' \in Seq(Bracket) /\ Len(orders') = Len(orders)
      /\ \A c \in 1 .. Len(orders) : orders'[c] = IF c = b THEN o ELSE orders[c]
  BY <1>1, ExceptSeq
<1>3. DOMAIN orders' = DOMAIN orders
  BY <1>1, <1>2, LenProperties
<1>. QED
  BY <1>1, <1>2, <1>3 DEF TypeInv, WorkingHasRoom

\* What a venue step makes of the one bracket it touches.
LEMMA BracketSteps ==
  ASSUME TypeInv, NEW b \in DOMAIN orders,
         \/ FillEntry(b) \/ KillEntry(b) \/ LapseLegs(b) \/ ExitByHand(b)
         \/ \E leg \in {"target", "stop"} : ExitLeg(b, leg)
  PROVE  \E o \in Bracket :
           /\ orders' = [orders EXCEPT ![b] = o]
           /\ o.status = "working" => o.filled < Lot
           /\ o.key = orders[b].key /\ o.exited >= orders[b].exited
           /\ \/ /\ o.status = orders[b].status /\ o.filled = orders[b].filled
              \/ /\ orders[b].status = "working" /\ o.status = "canceled"
                 /\ o.filled = orders[b].filled
              \/ orders[b].status = "working" /\ o.status # "canceled"
<1>1. /\ orders[b] \in Bracket /\ Lot \in Nat
      /\ orders[b].status = "working" => orders[b].filled < Lot
  BY ElementOfSeq, LenProperties, ConstantsAssumption DEF TypeInv, TypeOK, WorkingHasRoom
<1>2. CASE FillEntry(b)
  <2> DEFINE o == [orders[b] EXCEPT !.filled = @ + 1,
                     !.status = IF orders[b].filled + 1 = Lot THEN "filled" ELSE @]
  <2>1. o \in Bracket /\ (o.status = "working" => o.filled < Lot)
    BY <1>1, <1>2 DEF FillEntry, Bracket
  <2>2. orders' = [orders EXCEPT ![b] = o]
    BY <1>2 DEF FillEntry
  <2>3. /\ o.key = orders[b].key /\ o.exited >= orders[b].exited
        /\ orders[b].status = "working" /\ o.status # "canceled"
    BY <1>1, <1>2 DEF FillEntry, Bracket
  <2>. QED
    BY <2>1, <2>2, <2>3
<1>3. CASE KillEntry(b)
  <2> DEFINE o == [orders[b] EXCEPT !.status = "canceled", !.legs = "done"]
  <2>1. o \in Bracket /\ o.status = "canceled" /\ o.filled = orders[b].filled
    BY <1>1 DEF Bracket
  <2>2. orders' = [orders EXCEPT ![b] = o]
    BY <1>3 DEF KillEntry
  <2>3. o.key = orders[b].key /\ o.exited >= orders[b].exited /\ orders[b].status = "working"
    BY <1>1, <1>3 DEF KillEntry, Bracket
  <2>. QED
    BY <2>1, <2>2, <2>3
<1>4. CASE LapseLegs(b)
  <2> DEFINE o == [orders[b] EXCEPT !.legs = "done"]
  <2>1. o \in Bracket /\ o.status = orders[b].status /\ o.filled = orders[b].filled
    BY <1>1 DEF Bracket
  <2>2. orders' = [orders EXCEPT ![b] = o]
    BY <1>4 DEF LapseLegs
  <2>3. o.key = orders[b].key /\ o.exited >= orders[b].exited
    BY <1>1 DEF Bracket
  <2>. QED
    BY <1>1, <2>1, <2>2, <2>3
<1>5. ASSUME NEW leg, Exit(b, leg)
      PROVE  \E o \in Bracket :
               /\ orders' = [orders EXCEPT ![b] = o]
               /\ o.status = "working" => o.filled < Lot
               /\ o.key = orders[b].key /\ o.exited >= orders[b].exited
               /\ o.status = orders[b].status /\ o.filled = orders[b].filled
  <2> DEFINE o == [orders[b] EXCEPT !.exited = @ + 1,
                     !.legs = IF orders[b].exited + 1 = orders[b].filled THEN "done" ELSE @]
  <2>1. o \in Bracket /\ o.status = orders[b].status /\ o.filled = orders[b].filled
    BY <1>1, <1>5 DEF Exit, Bracket
  <2>2. orders' = [orders EXCEPT ![b] = o]
    BY <1>5 DEF Exit
  <2>3. o.key = orders[b].key /\ o.exited >= orders[b].exited
    BY <1>1 DEF Bracket
  <2>. QED
    BY <1>1, <2>1, <2>2, <2>3
<1>6. CASE ExitByHand(b)
  BY <1>5, <1>6 DEF ExitByHand
<1>7. CASE \E leg \in {"target", "stop"} : ExitLeg(b, leg)
  BY <1>5, <1>7 DEF ExitLeg
<1>. QED
  BY <1>2, <1>3, <1>4, <1>6, <1>7

\* A print appended to the feed keeps it a feed.
LEMMA VenueStepType == TypeInv /\ VenueStep => TypeInv'
<1>. SUFFICES ASSUME TypeInv, VenueStep PROVE TypeInv'
  OBVIOUS
<1>1. PICK b \in DOMAIN orders :
        \/ FillEntry(b) \/ KillEntry(b) \/ LapseLegs(b) \/ ExitByHand(b)
        \/ \E leg \in {"target", "stop"} : ExitLeg(b, leg)
  BY DEF VenueStep
<1>2. PICK o \in Bracket : /\ orders' = [orders EXCEPT ![b] = o]
                           /\ o.status = "working" => o.filled < Lot
  BY <1>1, BracketSteps
<1>3. orders' \in Seq(Bracket) /\ WorkingHasRoom'
  BY <1>2, OneBracketChanged
<1>4. fills' \in Seq(Fill)
  <2>1. b \in Nat /\ fills \in Seq(Fill)
    BY LenProperties DEF TypeInv, TypeOK
  <2>2. \A leg \in Legs \cup {"entry"} : Append(fills, [order |-> b, leg |-> leg]) \in Seq(Fill)
    BY <2>1, AppendProperties DEF Fill
  <2>. QED
    BY <1>1, <2>1, <2>2
    DEF FillEntry, KillEntry, LapseLegs, ExitByHand, ExitLeg, Exit, Legs
<1>. QED
  BY <1>3, <1>4 DEF VenueStep, sessionVars, passVars, TypeInv, TypeOK

\* The venue accepts a plan as a bracket whose entry has not begun to fill.
LEMMA AcceptType ==
  ASSUME TypeInv, NEW plan \in Plan, NEW legs \in {"working", "done"}, Accept(plan, legs)
  PROVE  /\ orders' \in Seq(Bracket) /\ WorkingHasRoom' /\ fills' = fills
         /\ Len(orders) \in Nat /\ DOMAIN orders = 1 .. Len(orders)
         /\ DOMAIN orders' = 1 .. Len(orders) + 1
         /\ \A b \in DOMAIN orders : orders'[b] = orders[b]
         /\ orders'[Len(orders) + 1] = NewBracket(plan, legs)
<1>1. NewBracket(plan, legs) \in Bracket /\ 0 < Lot
  BY ConstantsAssumption DEF NewBracket, Bracket, Plan
<1>2. /\ orders' \in Seq(Bracket) /\ Len(orders') = Len(orders) + 1 /\ Len(orders) \in Nat
      /\ DOMAIN orders = 1 .. Len(orders) /\ DOMAIN orders' = 1 .. Len(orders')
      /\ \A b \in DOMAIN orders : orders'[b] = orders[b]
      /\ orders'[Len(orders) + 1] = NewBracket(plan, legs)
  BY <1>1, AppendProperties, LenProperties DEF Accept, TypeInv, TypeOK
<1>3. \A b \in DOMAIN orders' : b \in DOMAIN orders \/ b = Len(orders) + 1
  BY <1>2
<1>4. NewBracket(plan, legs).filled < Lot
  BY <1>1 DEF NewBracket
<1>5. WorkingHasRoom'
  BY <1>2, <1>3, <1>4 DEF WorkingHasRoom, TypeInv
<1>. QED
  BY <1>2, <1>5 DEF Accept

\* Appending a row keeps the log a log.
LEMMA LogType ==
  ASSUME TypeInv, NEW row \in Row, log' = Append(log, row)
  PROVE  log' \in Seq(Row)
BY AppendProperties DEF TypeInv, TypeOK

\* What the session adds to its own books when an order is placed.
LEMMA CommittedTyped ==
  ASSUME TypeInv, NEW plan \in Plan, Committed(plan)
  PROVE  /\ session' \in [open : BOOLEAN, placed : SUBSET Keys, atStake : [Keys -> Nat]]
         /\ session'.open = session.open
         /\ session'.placed = session.placed \cup {plan.key}
<1> DEFINE stake == [session.atStake EXCEPT ![plan.key] = @ + plan.risk]
<1>1. /\ session \in [open : BOOLEAN, placed : SUBSET Keys, atStake : [Keys -> Nat]]
      /\ plan.key \in Keys /\ plan.risk \in Nat
  BY DEF TypeInv, TypeOK, Plan
<1>2. stake \in [Keys -> Nat]
  BY <1>1
<1>3. session' = [session EXCEPT !.placed = @ \cup {plan.key}, !.atStake = stake]
  BY DEF Committed
<1> HIDE DEF stake
<1>. QED
  BY <1>1, <1>2, <1>3

LEMMA SessionStepType == TypeInv /\ SessionStep => TypeInv'
<1>. SUFFICES ASSUME TypeInv, SessionStep PROVE TypeInv'
  OBVIOUS
<1>. USE DEF TypeInv
<1>1. CASE OpenSession
  <2>1. PICK readable \in SUBSET PlacedKeys(log) :
          session' = [open |-> TRUE, placed |-> LiveKeys(PlacedKeys(log), readable),
                      atStake |-> [k \in Keys |-> IF k \in LiveKeys(PlacedKeys(log), readable)
                                                  THEN RiskByKey(log, k) ELSE 0]]
    BY <1>1 DEF OpenSession
  <2>2. LiveKeys(PlacedKeys(log), readable) \subseteq PlacedKeys(log) /\ PlacedKeys(log) \subseteq Keys
    BY DEF LiveKeys, PlacedKeys
  <2>3. \A k \in Keys : k \in PlacedKeys(log) => RiskByKey(log, k) \in Nat
    BY PlacementViewsType DEF TypeOK
  <2>. QED
    BY <1>1, <2>1, <2>2, <2>3 DEF OpenSession, TypeOK, WorkingHasRoom, venueVars, passVars
<1>2. CASE CloseSession
  BY <1>2 DEF CloseSession, NoSession, TypeOK, WorkingHasRoom, venueVars, passVars
<1>3. ASSUME NEW k \in Keys, OfferRefused(k) PROVE TypeInv'
  <2>1. log' \in Seq(Row)
    BY <1>3, LogType, RowTypes DEF OfferRefused, Refuse
  <2>. QED
    BY <1>3, <2>1 DEF OfferRefused, TypeOK, WorkingHasRoom, venueVars, sessionVars, passVars
<1>4. ASSUME NEW k \in Keys, OfferPlanned(k) PROVE TypeInv'
  <2>1. prompt' \in SUBSET Plan
    BY <1>4, ConstantsAssumption DEF OfferPlanned, Plan
  <2>. QED
    BY <1>4, <2>1 DEF OfferPlanned, TypeOK, WorkingHasRoom, venueVars, passVars
<1>5. ASSUME NEW plan \in prompt, NEW n \in Nat, NEW ok \in BOOLEAN,
             log' = Append(log, PlacementRow(plan.key, n, plan.risk, ok))
      PROVE  log' \in Seq(Row)
  <2>1. plan.key \in Keys /\ plan.risk \in Nat
    BY DEF TypeOK, Plan
  <2>. QED
    BY <1>5, <2>1, LogType, RowTypes
<1>6. ASSUME NEW plan \in prompt PROVE plan \in Plan /\ RefusalRow(plan.key) \in Row
  <2>1. plan \in Plan /\ plan.key \in Keys
    BY DEF TypeOK, Plan
  <2>. QED
    BY <2>1, RowTypes
<1>7. ASSUME NEW plan \in prompt, Declined(plan) PROVE TypeInv'
  <2>1. log' \in Seq(Row)
    BY <1>6, <1>7, LogType DEF Declined, Refuse
  <2>. QED
    BY <1>7, <2>1 DEF Declined, TypeOK, WorkingHasRoom, venueVars, passVars
<1>8. ASSUME NEW plan \in prompt, Placed(plan) PROVE TypeInv'
  <2>1. orders' \in Seq(Bracket) /\ WorkingHasRoom' /\ fills' = fills /\ Len(orders) \in Nat
    BY <1>6, <1>8, AcceptType DEF Placed
  <2>2. log' \in Seq(Row)
    <3>1. PICK order \in {Len(orders) + 1, 0} :
            log' = Append(log, PlacementRow(plan.key, order, plan.risk, TRUE))
      BY <1>8 DEF Placed
    <3>2. order \in Nat
      BY <2>1
    <3>. QED
      BY <1>5, <3>1, <3>2
  <2>3. session' \in [open : BOOLEAN, placed : SUBSET Keys, atStake : [Keys -> Nat]]
    BY <1>6, <1>8, CommittedTyped DEF Placed
  <2>. QED
    BY <1>8, <2>1, <2>2, <2>3 DEF Placed, TypeOK, passVars
<1>9. ASSUME NEW plan \in prompt, Rejected(plan) PROVE TypeInv'
  <2>1. log' \in Seq(Row)
    BY <1>5, <1>9 DEF Rejected
  <2>. QED
    BY <1>9, <2>1 DEF Rejected, TypeOK, WorkingHasRoom, venueVars, passVars
<1>10. ASSUME NEW plan \in prompt, PartlyPlaced(plan) PROVE TypeInv'
  <2>1. orders' \in Seq(Bracket) /\ WorkingHasRoom' /\ fills' = fills /\ Len(orders) \in Nat
    BY <1>6, <1>10, AcceptType DEF PartlyPlaced
  <2>2. log' \in Seq(Row)
    <3>1. Len(orders) + 1 \in Nat
      BY <2>1
    <3>. QED
      BY <1>5, <1>10, <3>1 DEF PartlyPlaced
  <2>. QED
    BY <1>10, <2>1, <2>2 DEF PartlyPlaced, TypeOK, passVars
<1>11. ASSUME NEW plan \in prompt, Raised(plan) PROVE TypeInv'
  <2>1. log' \in Seq(Row)
    BY <1>6, <1>11, LogType DEF Raised, Refuse
  <2>2. orders' \in Seq(Bracket) /\ WorkingHasRoom' /\ fills' = fills
    <3>1. CASE UNCHANGED venueVars
      BY <3>1 DEF venueVars, TypeOK, WorkingHasRoom
    <3>2. CASE Accept(plan, "working")
      BY <1>6, <3>2, AcceptType
    <3>. QED
      BY <1>11, <3>1, <3>2 DEF Raised
  <2>. QED
    BY <1>11, <2>1, <2>2 DEF Raised, TypeOK, passVars
<1>12. ASSUME NEW plan \in prompt, KilledAfterPlace(plan) PROVE TypeInv'
  <2>1. orders' \in Seq(Bracket) /\ WorkingHasRoom' /\ fills' = fills
    BY <1>6, <1>12, AcceptType DEF KilledAfterPlace
  <2>. QED
    BY <1>12, <2>1 DEF KilledAfterPlace, NoSession, TypeOK, passVars
<1>. QED
  BY <1>1, <1>2, <1>3, <1>4, <1>7, <1>8, <1>9, <1>10, <1>11, <1>12 DEF SessionStep

\* A count of prints is a number.
LEMMA CountOfPrints ==
  ASSUME NEW n \in Nat, NEW S \in SUBSET (1 .. n)
  PROVE  Cardinality(S) \in Nat
<1>1. IsFiniteSet(1 .. n)
  BY FS_Interval
<1>2. IsFiniteSet(S)
  BY <1>1, FS_Subset
<1>. QED
  BY <1>2, FS_CardinalityType

\* What is read off an exit is one of the four reasons.
LEMMA ReasonTypes ==
  ASSUME NEW b, NEW i
  PROVE  ExitReason(b, i) \in Reasons
BY DEF ExitReason, OwnLeg, Reasons, Legs

\* reconcile decides on reconciled rows, close_out on closed ones, and no other.
LEMMA TodoTypes ==
  ASSUME TypeInv
  PROVE  /\ \A readable \in SUBSET UnsettledKeys(log) :
              BeginReconcile(readable) =>
                todo' \in SUBSET Row /\ \A row \in todo' : row.outcome = "reconciled"
         /\ \A answered \in BOOLEAN :
              BeginCloseOut(answered) =>
                todo' \in SUBSET Row /\ \A row \in todo' : row.outcome = "closed"
<1>1. ASSUME NEW readable \in SUBSET UnsettledKeys(log), BeginReconcile(readable),
             NEW row \in todo'
      PROVE  row \in Row /\ row.outcome = "reconciled"
  <2>1. PICK b \in UNION {Answer(k) : k \in readable} :
          settled(b) /\ row = ReconciliationRow(orders[b].key, orders[b].status, orders[b].filled)
    BY <1>1 DEF BeginReconcile
  <2>2. b \in DOMAIN orders
    BY <2>1 DEF Answer
  <2>3. /\ orders[b].key \in Keys /\ orders[b].filled \in Nat
        /\ orders[b].status \in {"filled", "canceled"}
    <3>1. orders[b] \in Bracket /\ Lot \in Nat
      BY <2>2, LenProperties, ElementOfSeq, ConstantsAssumption DEF TypeInv, TypeOK
    <3>. QED
      BY <2>1, <3>1 DEF Bracket, settled
  <2>4. row \in Row
    BY <2>1, <2>3, RowTypes
  <2>. QED
    BY <2>1, <2>4 DEF ReconciliationRow, BlankRow
<1>2. ASSUME NEW k \in Keys, NEW row \in Closes(k)
      PROVE  row \in Row /\ row.outcome = "closed"
  <2> DEFINE exits == ExitFills(k, OrderOf(log, k))
  <2>1. PICK i \in exits :
          row = CloseRow(k, fills[i].order, fills[i].leg,
                         Cardinality({j \in exits : fills[j] = fills[i]}),
                         ExitReason(OrderOf(log, k), i))
    BY <1>2 DEF Closes
  <2>2. exits \in SUBSET (DOMAIN fills)
    BY DEF ExitFills
  <2>3. DOMAIN fills = 1 .. Len(fills) /\ Len(fills) \in Nat
    BY LenProperties DEF TypeInv, TypeOK
  <2>4. fills[i].order \in Nat /\ fills[i].leg \in Legs \cup {"entry"}
    <3>1. fills[i] \in Fill
      BY <2>2, <2>3, ElementOfSeq DEF TypeInv, TypeOK
    <3>. QED
      BY <2>2, <3>1 DEF Fill
  <2>5. {j \in exits : fills[j] = fills[i]} \in SUBSET (1 .. Len(fills))
    BY <2>2, <2>3
  <2>6. Cardinality({j \in exits : fills[j] = fills[i]}) \in Nat
    BY <2>3, <2>5, CountOfPrints
  <2> HIDE DEF exits
  <2>7. row \in Row
    BY <2>1, <2>4, <2>6, RowTypes, ReasonTypes
  <2>. QED
    BY <2>1, <2>7 DEF CloseRow, BlankRow
<1>3. ASSUME NEW answered \in BOOLEAN, BeginCloseOut(answered), NEW row \in todo'
      PROVE  row \in Row /\ row.outcome = "closed"
  <2>1. PICK k \in AwaitingExitKeys(log) : row \in Closes(k)
    BY <1>3 DEF BeginCloseOut
  <2>2. k \in Keys
    BY <2>1 DEF AwaitingExitKeys
  <2>. QED
    BY <1>2, <2>1, <2>2
<1>. QED
  BY <1>1, <1>3

LEMMA PassStepType == TypeInv /\ PassStep => TypeInv'
<1>. SUFFICES ASSUME TypeInv, PassStep PROVE TypeInv'
  OBVIOUS
<1>. USE DEF TypeInv
<1>1. CASE \E readable \in SUBSET UnsettledKeys(log) : BeginReconcile(readable)
  <2>1. todo' \in SUBSET Row
    BY <1>1, TodoTypes
  <2>. QED
    BY <1>1, <2>1 DEF BeginReconcile, TypeOK, WorkingHasRoom, venueVars, sessionVars
<1>2. CASE \E answered \in BOOLEAN : BeginCloseOut(answered)
  <2>1. todo' \in SUBSET Row
    BY <1>2, TodoTypes
  <2>. QED
    BY <1>2, <2>1 DEF BeginCloseOut, TypeOK, WorkingHasRoom, venueVars, sessionVars
<1>3. CASE \E row \in todo : WriteReconciliation(row) \/ WriteClose(row)
  <2>1. PICK row \in todo : Write(row)
    BY <1>3 DEF WriteReconciliation, WriteClose
  <2>2. row \in Row
    BY <2>1 DEF TypeOK
  <2>3. log' \in Seq(Row)
    BY <2>1, <2>2, LogType DEF Write
  <2>. QED
    BY <2>1, <2>3 DEF Write, TypeOK, WorkingHasRoom, venueVars, sessionVars
<1>4. CASE EndPass
  BY <1>4 DEF EndPass, TypeOK, WorkingHasRoom, venueVars, sessionVars
<1>5. CASE CrashPass
  BY <1>5 DEF CrashPass, TypeOK, WorkingHasRoom, venueVars, sessionVars
<1>. QED
  BY <1>1, <1>2, <1>3, <1>4, <1>5 DEF PassStep

LEMMA CancelType == TypeInv /\ (\E b \in DOMAIN orders : CancelResting(b)) => TypeInv'
<1>1. TypeInv /\ (\E b \in DOMAIN orders : CancelResting(b)) => VenueStep
  BY DEF CancelResting, VenueStep
<1>. QED
  BY <1>1, VenueStepType

LEMMA TypeStep == TypeInv /\ [Next]_vars => TypeInv'
<1>1. TypeInv /\ UNCHANGED vars => TypeInv'
  BY DEF TypeInv, TypeOK, WorkingHasRoom, vars
<1>. QED
  BY <1>1, VenueStepType, SessionStepType, PassStepType, CancelType DEF Next

(***************************************************************************)
(* Every state a session, a pass, the venue and the operator can reach is  *)
(* well typed: every row appended is a row the readers of the log accept,  *)
(* no entry fills beyond its lot, and no exit sells more than a lot.       *)
(***************************************************************************)
THEOREM TypeCorrect == Spec => []TypeOK
<1>1. TypeInv => TypeOK
  BY DEF TypeInv
<1>. QED
  BY <1>1, InitType, TypeStep, PTL DEF Spec

-----------------------------------------------------------------------------
(* The duplicate guard.  Two arguments, one per venue.                     *)
(*                                                                         *)
(* Alpaca is handed the candidate key as client_order_id, so the venue     *)
(* itself never holds two brackets on one candidate, whatever the faults.  *)
(*                                                                         *)
(* Hyperliquid is not, and there the log is the guard.  It is sound as     *)
(* long as every bracket the venue took left a placed row (nothing lost,   *)
(* nothing killed before the write, no bracket taken in part): the one     *)
(* bracket of a candidate the venue has not called dead is the one its     *)
(* latest placement names, or that placement names none and blocks for     *)
(* good.                                                                   *)

\* A bracket the venue has not called dead: it may trade, or it has traded.
Standing == {b \in DOMAIN orders : orders[b].status # "canceled"}

OneStandingPerKey ==
  \A b, c \in Standing : orders[b].key = orders[c].key => b = c

OneBracketEver ==
  \A b, c \in DOMAIN orders : orders[b].key = orders[c].key => b = c

StandingIsOnRecord ==
  \A b \in Standing :
    /\ orders[b].key \in PlacedKeys(log)
    /\ OrderOf(log, orders[b].key) \in {0, b}

OpenSessionKnows ==
  session.open => \A b \in Standing : orders[b].key \in session.placed

PromptIsUnplaced ==
  \A plan \in prompt : session.open /\ plan.key \notin session.placed

TodoPlacesNothing == \A row \in todo : row.outcome # "placed"

GuardInv ==
  /\ TypeInv /\ OneStandingPerKey /\ StandingIsOnRecord
  /\ OpenSessionKnows /\ PromptIsUnplaced /\ TodoPlacesNothing

\* A bracket that is over never comes back, and none changes its candidate.
LEMMA StandingOnlyShrinks ==
  ASSUME TypeInv, VenueStep
  PROVE  /\ DOMAIN orders' = DOMAIN orders
         /\ \A b \in DOMAIN orders : orders'[b].key = orders[b].key
         /\ \A b \in Standing' : b \in Standing
<1>1. PICK b \in DOMAIN orders :
        \/ FillEntry(b) \/ KillEntry(b) \/ LapseLegs(b) \/ ExitByHand(b)
        \/ \E leg \in {"target", "stop"} : ExitLeg(b, leg)
  BY DEF VenueStep
<1>2. PICK o \in Bracket :
        /\ orders' = [orders EXCEPT ![b] = o]
        /\ o.status = "working" => o.filled < Lot
        /\ o.key = orders[b].key /\ o.exited >= orders[b].exited
        /\ \/ /\ o.status = orders[b].status /\ o.filled = orders[b].filled
           \/ /\ orders[b].status = "working" /\ o.status = "canceled"
              /\ o.filled = orders[b].filled
           \/ orders[b].status = "working" /\ o.status # "canceled"
  BY <1>1, BracketSteps
<1>3. /\ DOMAIN orders' = DOMAIN orders
      /\ \A c \in DOMAIN orders : orders'[c] = IF c = b THEN o ELSE orders[c]
  BY <1>2, OneBracketChanged
<1>. QED
  BY <1>2, <1>3 DEF Standing

\* The log names the same orders after a row that is not a placement.
LEMMA OnlyPlacementsName ==
  ASSUME TypeInv, NEW row \in Row, row.outcome # "placed", log' = Append(log, row)
  PROVE  /\ PlacedKeys(log') = PlacedKeys(log)
         /\ \A k \in Keys : OrderOf(log', k) = OrderOf(log, k)
BY PlacedAfterAppend, OrderAfterAppend DEF TypeInv, TypeOK

\* Brackets change because the venue moves or because a plan was accepted.
LEMMA OrdersSteps ==
  ASSUME [Next]_vars
  PROVE  \/ VenueStep
         \/ \E plan \in prompt, legs \in {"working", "done"} : Accept(plan, legs)
         \/ UNCHANGED orders
<1>1. CASE SessionStep
  BY <1>1
  DEF SessionStep, OpenSession, CloseSession, OfferRefused, OfferPlanned, Declined, Placed,
      Rejected, PartlyPlaced, Raised, KilledAfterPlace, venueVars
<1>2. CASE PassStep
  BY <1>2 DEF PassStep, BeginReconcile, WriteReconciliation, WriteClose, Write,
      BeginCloseOut, EndPass, CrashPass, venueVars
<1>3. CASE \E b \in DOMAIN orders : CancelResting(b)
  BY <1>3 DEF CancelResting, VenueStep
<1>. QED
  BY <1>1, <1>2, <1>3 DEF Next, vars

\* The venue keeps one bracket per candidate when it refuses a second one.
LEMMA AlpacaStep ==
  ASSUME Venue = "alpaca"
  PROVE  TypeInv /\ OneBracketEver /\ [Next]_vars => OneBracketEver'
<1>. SUFFICES ASSUME TypeInv, OneBracketEver, [Next]_vars PROVE OneBracketEver'
  OBVIOUS
<1>1. CASE VenueStep
  BY <1>1, StandingOnlyShrinks DEF OneBracketEver
<1>2. ASSUME NEW plan \in prompt, NEW legs \in {"working", "done"}, Accept(plan, legs)
      PROVE  OneBracketEver'
  <2>1. plan \in Plan
    BY DEF TypeInv, TypeOK
  <2>2. \A b \in DOMAIN orders : orders[b].key # plan.key
    BY <1>2 DEF Accept, VenueRefuses
  <2>3. /\ Len(orders) \in Nat /\ DOMAIN orders = 1 .. Len(orders)
        /\ DOMAIN orders' = 1 .. Len(orders) + 1
        /\ \A b \in DOMAIN orders : orders'[b] = orders[b]
        /\ orders'[Len(orders) + 1] = NewBracket(plan, legs)
    BY <1>2, <2>1, AcceptType
  <2>5. NewBracket(plan, legs).key = plan.key
    BY DEF NewBracket
  <2>4. \A b \in DOMAIN orders' : b \in DOMAIN orders \/ b = Len(orders) + 1
    BY <2>3
  <2>. QED
    BY <2>2, <2>3, <2>4, <2>5 DEF OneBracketEver
<1>3. CASE UNCHANGED orders
  BY <1>3 DEF OneBracketEver
<1>. QED
  BY <1>1, <1>2, <1>3, OrdersSteps

\* A session that opens on Hyperliquid blocks every candidate that can trade:
\* its order is the one the log names, and the venue does not call it dead.
LEMMA OpenSessionReads ==
  ASSUME GuardInv, Venue = "hyperliquid", OpenSession
  PROVE  OpenSessionKnows'
<1>1. PICK readable \in SUBSET PlacedKeys(log) :
        session' = [open |-> TRUE, placed |-> LiveKeys(PlacedKeys(log), readable),
                    atStake |-> [k \in Keys |-> IF k \in LiveKeys(PlacedKeys(log), readable)
                                                THEN RiskByKey(log, k) ELSE 0]]
  BY DEF OpenSession
<1>2. ASSUME NEW b \in Standing
      PROVE  orders[b].key \in LiveKeys(PlacedKeys(log), readable)
  <2>1. /\ b \in DOMAIN orders /\ is_live(b)
        /\ orders[b].key \in PlacedKeys(log) /\ OrderOf(log, orders[b].key) \in {0, b}
    BY DEF GuardInv, StandingIsOnRecord, Standing, is_live
  <2>2. 0 \notin DOMAIN orders
    BY LenProperties DEF GuardInv, TypeInv, TypeOK
  <2>3. Answer(orders[b].key) \in {{}, {b}}
    BY <2>1, <2>2 DEF Answer
  <2>. QED
    BY <2>1, <2>3 DEF LiveKeys
<1>3. UNCHANGED orders
  BY DEF OpenSession, venueVars
<1>. QED
  BY <1>1, <1>2, <1>3 DEF OpenSessionKnows, Standing

\* An order that is sent goes to a candidate nothing is live on.
LEMMA PlacedStep ==
  ASSUME GuardInv, NEW plan \in prompt, Placed(plan)
  PROVE  GuardInv'
<1> DEFINE n == Len(orders) + 1
<1>1. plan \in Plan /\ plan.key \in Keys /\ plan.risk \in Nat /\ TypeInv
  BY DEF GuardInv, TypeInv, TypeOK, Plan
<1>2. /\ DOMAIN orders = 1 .. Len(orders) /\ DOMAIN orders' = 1 .. Len(orders) + 1
      /\ Len(orders) \in Nat
      /\ \A b \in DOMAIN orders : orders'[b] = orders[b]
      /\ orders'[n] = NewBracket(plan, "working")
  BY <1>1, AcceptType DEF Placed
<1>3. NewBracket(plan, "working").key = plan.key
  BY DEF NewBracket
<1>4. PICK order \in {n, 0} : log' = Append(log, PlacementRow(plan.key, order, plan.risk, TRUE))
  BY DEF Placed
<1>5. /\ PlacementRow(plan.key, order, plan.risk, TRUE) \in Row
      /\ PlacementRow(plan.key, order, plan.risk, TRUE).outcome = "placed"
      /\ PlacementRow(plan.key, order, plan.risk, TRUE).key = plan.key
      /\ PlacementRow(plan.key, order, plan.risk, TRUE).order = order
  <2>1. order \in Nat
    BY <1>2
  <2>2. PlacementRow(plan.key, order, plan.risk, TRUE) \in Row
    BY <1>1, <2>1, RowTypes
  <2>. QED
    BY <2>2 DEF PlacementRow, BlankRow
<1>6. /\ PlacedKeys(log') = PlacedKeys(log) \cup {plan.key}
      /\ \A k \in Keys : OrderOf(log', k) = IF k = plan.key THEN order ELSE OrderOf(log, k)
  BY <1>1, <1>4, <1>5, PlacedAfterAppend, OrderAfterAppend DEF TypeInv, TypeOK
<1>7. /\ session'.open = session.open
      /\ session'.placed = session.placed \cup {plan.key}
      /\ prompt' = {} /\ todo' = todo
  BY <1>1, CommittedTyped DEF Placed, passVars
<1>8. session.open /\ plan.key \notin session.placed
  BY DEF GuardInv, PromptIsUnplaced
<1>9. \A b \in Standing : orders[b].key # plan.key /\ orders[b].key \in Keys
  BY <1>8 DEF GuardInv, OpenSessionKnows, StandingIsOnRecord, PlacedKeys
<1>10. \A b \in Standing' : b # n => b \in Standing
  BY <1>2 DEF Standing
<1>11. \A b \in Standing : b # n /\ orders'[b] = orders[b]
  BY <1>2 DEF Standing
<1>12. TypeInv'
  BY <1>1, SessionStepType DEF SessionStep
<1> HIDE DEF n
<1>13. OneStandingPerKey'
  BY <1>2, <1>3, <1>9, <1>10, <1>11 DEF GuardInv, OneStandingPerKey
<1>14. StandingIsOnRecord'
  BY <1>1, <1>2, <1>3, <1>4, <1>6, <1>9, <1>10, <1>11 DEF GuardInv, StandingIsOnRecord
<1>15. OpenSessionKnows'
  BY <1>2, <1>3, <1>7, <1>8, <1>10, <1>11 DEF GuardInv, OpenSessionKnows
<1>. QED
  BY <1>7, <1>12, <1>13, <1>14, <1>15 DEF GuardInv, PromptIsUnplaced, TodoPlacesNothing

\* A step that moves no bracket and names no order leaves the guard standing.
LEMMA QuietStep ==
  ASSUME GuardInv, TypeInv', UNCHANGED orders, TodoPlacesNothing', PromptIsUnplaced',
         \/ UNCHANGED log
         \/ \E row \in Row : row.outcome # "placed" /\ log' = Append(log, row),
         \/ session'.open /\ session.open /\ session'.placed = session.placed
         \/ OpenSessionKnows'
  PROVE  GuardInv'
<1>1. Standing' = Standing
  BY DEF Standing
<1>2. /\ PlacedKeys(log') = PlacedKeys(log)
      /\ \A k \in Keys : OrderOf(log', k) = OrderOf(log, k)
  BY OnlyPlacementsName DEF GuardInv
<1>3. \A b \in Standing : orders[b].key \in Keys
  BY DEF GuardInv, StandingIsOnRecord, PlacedKeys
<1>. QED
  BY <1>1, <1>2, <1>3
  DEF GuardInv, OneStandingPerKey, StandingIsOnRecord, OpenSessionKnows

\* The faults under which an order at the venue leaves no placed row.
Unrecorded == {"partial", "lost", "killed"}

LEMMA GuardInit == Init => GuardInv
<1>1. Init => DOMAIN orders = {}
  BY DEF Init
<1>. QED
  BY <1>1, InitType DEF Init, NoSession, GuardInv, OneStandingPerKey, StandingIsOnRecord,
     OpenSessionKnows, PromptIsUnplaced, TodoPlacesNothing, Standing

LEMMA HyperliquidStep ==
  ASSUME Venue = "hyperliquid", Faults \cap Unrecorded = {}
  PROVE  GuardInv /\ [Next]_vars => GuardInv'
<1>. SUFFICES ASSUME GuardInv, [Next]_vars PROVE GuardInv'
  OBVIOUS
<1>0. TypeInv /\ TypeInv'
  BY TypeStep DEF GuardInv
<1>1. CASE VenueStep
  <2>1. /\ DOMAIN orders' = DOMAIN orders
        /\ \A b \in DOMAIN orders : orders'[b].key = orders[b].key
        /\ \A b \in Standing' : b \in Standing
    BY <1>0, <1>1, StandingOnlyShrinks
  <2>2. \A b \in Standing : b \in DOMAIN orders
    BY DEF Standing
  <2>3. UNCHANGED <<log, session, prompt, todo>>
    BY <1>1 DEF VenueStep, sessionVars, passVars
  <2>4. OneStandingPerKey'
    BY <2>1, <2>2 DEF GuardInv, OneStandingPerKey
  <2>5. StandingIsOnRecord'
    BY <2>1, <2>2, <2>3 DEF GuardInv, StandingIsOnRecord
  <2>6. OpenSessionKnows'
    BY <2>1, <2>2, <2>3 DEF GuardInv, OpenSessionKnows
  <2>. QED
    BY <1>0, <2>3, <2>4, <2>5, <2>6 DEF GuardInv, PromptIsUnplaced, TodoPlacesNothing
<1>2. CASE OpenSession
  <2>1. OpenSessionKnows'
    BY <1>2, OpenSessionReads
  <2>2. prompt = {} /\ UNCHANGED <<prompt, todo, orders, log>>
    BY <1>2 DEF OpenSession, GuardInv, PromptIsUnplaced, venueVars, passVars
  <2>. QED
    BY <1>0, <2>1, <2>2, QuietStep DEF GuardInv, PromptIsUnplaced, TodoPlacesNothing
<1>3. CASE CloseSession
  <2>1. OpenSessionKnows' /\ prompt' = {} /\ UNCHANGED <<todo, orders, log>>
    BY <1>3 DEF CloseSession, NoSession, OpenSessionKnows, venueVars, passVars
  <2>. QED
    BY <1>0, <2>1, QuietStep DEF GuardInv, PromptIsUnplaced, TodoPlacesNothing
<1>4. ASSUME NEW k \in Keys,
             log' = Append(log, RefusalRow(k)) \/ UNCHANGED log,
             UNCHANGED <<orders, session, todo>>, session.open, PromptIsUnplaced'
      PROVE  GuardInv'
  <2>1. RefusalRow(k) \in Row /\ RefusalRow(k).outcome # "placed"
    <3>1. RefusalRow(k) \in Row
      BY RowTypes, 0 \in Nat
    <3>. QED
      BY <3>1 DEF RefusalRow, BlankRow
  <2>2. TodoPlacesNothing'
    BY <1>4 DEF GuardInv, TodoPlacesNothing
  <2>3. session'.open /\ session'.placed = session.placed
    BY <1>4
  <2>. QED
    BY <1>0, <1>4, <2>1, <2>2, <2>3, QuietStep
<1>5. ASSUME NEW k \in Keys, OfferRefused(k) PROVE GuardInv'
  <2>1. PromptIsUnplaced'
    BY <1>5 DEF OfferRefused, sessionVars, GuardInv, PromptIsUnplaced
  <2>. QED
    BY <1>4, <1>5, <2>1 DEF OfferRefused, Offerable, Refuse, venueVars, sessionVars, passVars
<1>6. ASSUME NEW k \in Keys, OfferPlanned(k) PROVE GuardInv'
  <2>1. PromptIsUnplaced'
    BY <1>6 DEF OfferPlanned, Offerable, PromptIsUnplaced
  <2>. QED
    BY <1>4, <1>6, <2>1 DEF OfferPlanned, Offerable, venueVars, passVars
<1>7. \A plan \in prompt : plan.key \in Keys /\ plan.risk \in Nat /\ session.open
  BY <1>0 DEF TypeInv, TypeOK, Plan, GuardInv, PromptIsUnplaced
<1>8. ASSUME NEW plan \in prompt, Declined(plan) \/ Raised(plan) PROVE GuardInv'
  <2>1. UNCHANGED orders
    BY <1>8 DEF Declined, Raised, Unrecorded, venueVars
  <2>2. PromptIsUnplaced'
    BY <1>8 DEF Declined, Raised, PromptIsUnplaced
  <2>. QED
    BY <1>4, <1>7, <1>8, <2>1, <2>2 DEF Declined, Raised, Refuse, passVars
<1>9. ASSUME NEW plan \in prompt, Placed(plan) PROVE GuardInv'
  BY <1>9, PlacedStep
<1>10. ASSUME NEW plan \in prompt, Rejected(plan) PROVE GuardInv'
  <2> DEFINE row == PlacementRow(plan.key, 0, plan.risk, FALSE)
  <2>1. row \in Row
    BY <1>7, RowTypes, 0 \in Nat
  <2>2. row.outcome # "placed"
    BY <2>1 DEF PlacementRow, BlankRow
  <2>3. /\ log' = Append(log, row) /\ PromptIsUnplaced' /\ UNCHANGED <<orders, session, todo>>
    BY <1>10 DEF Rejected, PromptIsUnplaced, venueVars, passVars
  <2>4. TodoPlacesNothing'
    BY <2>3 DEF GuardInv, TodoPlacesNothing
  <2> HIDE DEF row
  <2>. QED
    BY <1>0, <1>7, <2>1, <2>2, <2>3, <2>4, QuietStep
<1>11. ASSUME NEW plan \in prompt, PartlyPlaced(plan) \/ KilledAfterPlace(plan) PROVE FALSE
  BY <1>11 DEF PartlyPlaced, KilledAfterPlace, Unrecorded
<1>12. CASE SessionStep
  BY <1>2, <1>3, <1>5, <1>6, <1>8, <1>9, <1>10, <1>11, <1>12 DEF SessionStep
<1>13. CASE PassStep
  <2>1. UNCHANGED <<orders, session, prompt>>
    BY <1>13 DEF PassStep, BeginReconcile, WriteReconciliation, WriteClose, Write,
       BeginCloseOut, EndPass, CrashPass, venueVars, sessionVars
  <2>2. PromptIsUnplaced' /\ OpenSessionKnows'
    BY <2>1 DEF GuardInv, PromptIsUnplaced, OpenSessionKnows, Standing
  <2>3. TodoPlacesNothing'
    BY <1>0, <1>13, TodoTypes DEF PassStep, WriteReconciliation, WriteClose, Write,
       EndPass, CrashPass, GuardInv, TodoPlacesNothing
  <2>4. \/ UNCHANGED log
        \/ \E row \in todo : log' = Append(log, row)
    BY <1>13 DEF PassStep, BeginReconcile, WriteReconciliation, WriteClose, Write,
       BeginCloseOut, EndPass, CrashPass
  <2>5. \A row \in todo : row \in Row /\ row.outcome # "placed"
    BY <1>0 DEF TypeInv, TypeOK, GuardInv, TodoPlacesNothing
  <2>. QED
    BY <1>0, <2>1, <2>2, <2>3, <2>4, <2>5, QuietStep
<1>14. CASE \E b \in DOMAIN orders : CancelResting(b)
  BY <1>1, <1>14 DEF CancelResting, VenueStep
<1>15. CASE UNCHANGED vars
  <2>1. UNCHANGED <<log, orders, session, prompt, todo>>
    BY <1>15 DEF vars
  <2>2. PromptIsUnplaced' /\ OpenSessionKnows' /\ TodoPlacesNothing'
    BY <2>1 DEF GuardInv, PromptIsUnplaced, OpenSessionKnows, Standing,
       TodoPlacesNothing
  <2>. QED
    BY <1>0, <2>1, <2>2, QuietStep
<1>. QED
  BY <1>1, <1>12, <1>13, <1>14, <1>15 DEF Next

(***************************************************************************)
(* The duplicate guard does what it is for: however sessions, passes,      *)
(* cancels and the venue interleave, and however often a candidate is      *)
(* approved again, no candidate ever has two brackets that can trade - on  *)
(* Alpaca always, on Hyperliquid when every order the venue took left a    *)
(* placed row: a bracket nothing recorded is one no guard can know of.      *)
(***************************************************************************)
THEOREM DuplicateGuardSound ==
  ASSUME Venue = "alpaca" \/ Faults \cap Unrecorded = {}
  PROVE  Spec => []OneBracketPerKey
<1>1. CASE Venue = "alpaca"
  <2>1. Init => TypeInv /\ OneBracketEver
    <3>1. Init => DOMAIN orders = {}
      BY DEF Init
    <3>. QED
      BY <3>1, InitType DEF OneBracketEver
  <2>2. TypeInv /\ OneBracketEver /\ [Next]_vars => (TypeInv /\ OneBracketEver)'
    BY <1>1, TypeStep, AlpacaStep
  <2>3. TypeInv /\ OneBracketEver => OneBracketPerKey
    BY DEF OneBracketEver, OneBracketPerKey, LiveBrackets
  <2>. QED
    BY <2>1, <2>2, <2>3, PTL DEF Spec
<1>2. CASE Venue = "hyperliquid" /\ Faults \cap Unrecorded = {}
  <2>1. GuardInv /\ [Next]_vars => GuardInv'
    BY <1>2, HyperliquidStep
  <2>2. GuardInv => OneBracketPerKey
    BY DEF GuardInv, OneStandingPerKey, OneBracketPerKey, Standing, LiveBrackets, Live
  <2>. QED
    BY <2>1, <2>2, GuardInit, PTL DEF Spec
<1>. QED
  BY <1>1, <1>2, ConstantsAssumption DEF ConstantsAssumption

\* A one-unit entry that was killed never traded.
DeadIsEmpty == \A b \in DOMAIN orders : orders[b].status = "canceled" => orders[b].filled = 0

LEMMA DeadStep ==
  ASSUME Lot = 1
  PROVE  TypeInv /\ DeadIsEmpty /\ [Next]_vars => DeadIsEmpty'
<1>. SUFFICES ASSUME TypeInv, DeadIsEmpty, [Next]_vars PROVE DeadIsEmpty'
  OBVIOUS
<1>1. CASE VenueStep
  <2>1. PICK b \in DOMAIN orders :
          \/ FillEntry(b) \/ KillEntry(b) \/ LapseLegs(b) \/ ExitByHand(b)
          \/ \E leg \in {"target", "stop"} : ExitLeg(b, leg)
    BY <1>1 DEF VenueStep
  <2>2. PICK o \in Bracket :
          /\ orders' = [orders EXCEPT ![b] = o]
          /\ o.status = "working" => o.filled < Lot
          /\ \/ /\ o.status = orders[b].status /\ o.filled = orders[b].filled
             \/ /\ orders[b].status = "working" /\ o.status = "canceled"
                /\ o.filled = orders[b].filled
             \/ orders[b].status = "working" /\ o.status # "canceled"
    BY <2>1, BracketSteps
  <2>3. /\ DOMAIN orders' = DOMAIN orders
        /\ \A c \in DOMAIN orders : orders'[c] = IF c = b THEN o ELSE orders[c]
    BY <2>2, OneBracketChanged
  <2>4. orders[b].status = "working" => orders[b].filled = 0
    <3>1. orders[b] \in Bracket
      BY ElementOfSeq, LenProperties DEF TypeInv, TypeOK
    <3>2. orders[b].filled \in 0 .. Lot
      BY <3>1 DEF Bracket
    <3>. QED
      BY <3>2 DEF TypeInv, WorkingHasRoom
  <2>. QED
    BY <2>2, <2>3, <2>4 DEF DeadIsEmpty
<1>2. ASSUME NEW plan \in prompt, NEW legs \in {"working", "done"}, Accept(plan, legs)
      PROVE  DeadIsEmpty'
  <2>1. plan \in Plan
    BY DEF TypeInv, TypeOK
  <2>2. /\ Len(orders) \in Nat /\ DOMAIN orders = 1 .. Len(orders)
        /\ DOMAIN orders' = 1 .. Len(orders) + 1
        /\ \A b \in DOMAIN orders : orders'[b] = orders[b]
        /\ orders'[Len(orders) + 1] = NewBracket(plan, legs)
    BY <1>2, <2>1, AcceptType
  <2>3. \A b \in DOMAIN orders' : b \in DOMAIN orders \/ b = Len(orders) + 1
    BY <2>2
  <2>4. NewBracket(plan, legs).filled = 0
    BY DEF NewBracket
  <2>. QED
    BY <2>2, <2>3, <2>4 DEF DeadIsEmpty
<1>3. CASE UNCHANGED orders
  BY <1>3 DEF DeadIsEmpty
<1>. QED
  BY <1>1, <1>2, <1>3, OrdersSteps

(***************************************************************************)
(* On Hyperliquid, where no leg is visible, a session that is open refuses *)
(* every candidate with an open position, as long as entries fill whole or *)
(* not at all and every order the venue took left a placed row.  (An entry *)
(* filled in part and then killed is a position the guard never sees, so   *)
(* the first condition is needed.)                                         *)
(***************************************************************************)
THEOREM OpenPositionsAreGuarded ==
  ASSUME Venue = "hyperliquid", Lot = 1, Faults \cap Unrecorded = {}
  PROVE  Spec => []GuardCoversPosition
<1>1. Init => GuardInv /\ DeadIsEmpty
  <2>1. Init => DOMAIN orders = {}
    BY DEF Init
  <2>. QED
    BY <2>1, GuardInit DEF DeadIsEmpty
<1>2. GuardInv /\ DeadIsEmpty /\ [Next]_vars => (GuardInv /\ DeadIsEmpty)'
  BY HyperliquidStep, DeadStep DEF GuardInv
<1>3. GuardInv /\ DeadIsEmpty => GuardCoversPosition
  <2>. SUFFICES ASSUME GuardInv, DeadIsEmpty, session.open,
                       NEW b \in DOMAIN orders, HasOpenPosition(b)
                PROVE  orders[b].key \in session.placed
    BY DEF GuardCoversPosition
  <2>1. orders[b] \in Bracket
    BY ElementOfSeq, LenProperties DEF GuardInv, TypeInv, TypeOK
  <2>2. /\ orders[b].exited \in Nat
        /\ orders[b].status \in {"working", "filled", "canceled"}
    BY <2>1, ConstantsAssumption DEF Bracket
  <2>3. orders[b].status # "canceled"
    BY <2>2 DEF DeadIsEmpty, HasOpenPosition
  <2>4. b \in Standing
    BY <2>3 DEF Standing
  <2>. QED
    BY <2>4 DEF GuardInv, OpenSessionKnows
<1>. QED
  BY <1>1, <1>2, <1>3, PTL DEF Spec

-----------------------------------------------------------------------------
(* The pooled ceiling.  A session weighs a plan against what it has at      *)
(* stake, and not against the venue.  The two agree as far as is needed     *)
(* because whatever can still be stopped out is on record with the risk it  *)
(* carries, every session that is open has at least that risk at stake for  *)
(* the candidate, and no two of them share a candidate.                     *)

CanLose == {b \in DOMAIN orders : CanStopOut(b)}

Risks == [b \in DOMAIN orders |-> orders[b].risk]

RiskIsOnRecord ==
  \A b \in Standing : /\ orders[b].key \in PlacedKeys(log)
                      /\ RiskByKey(log, orders[b].key) = orders[b].risk

OpenSessionCounts ==
  session.open => \A b \in CanLose : orders[b].risk <= session.atStake[orders[b].key]

PromptFits == \A plan \in prompt : session.open /\ RiskAtStake + plan.risk <= MaxRisk

RiskInv ==
  /\ TypeInv /\ TodoPlacesNothing
  /\ RiskIsOnRecord /\ OpenSessionCounts /\ PromptFits /\ CeilingHolds

\* What can be stopped out stands, and is one of finitely many.
LEMMA LosersStand ==
  ASSUME TypeInv
  PROVE  /\ CanLose \subseteq Standing
         /\ IsFiniteSet(DOMAIN orders) /\ IsFiniteSet(CanLose)
         /\ \A b \in DOMAIN orders : orders[b] \in Bracket
         /\ \A b \in DOMAIN orders : Risks[b] \in Nat
<1>1. \A b \in DOMAIN orders : orders[b] \in Bracket
  BY ElementOfSeq, LenProperties DEF TypeInv, TypeOK
<1>2. IsFiniteSet(DOMAIN orders)
  <2>1. DOMAIN orders = 1 .. Len(orders) /\ Len(orders) \in Nat
    BY LenProperties DEF TypeInv, TypeOK
  <2>. QED
    BY <2>1, FS_Interval
<1>3. CanLose \subseteq DOMAIN orders
  BY DEF CanLose
<1>4. IsFiniteSet(CanLose)
  BY <1>2, <1>3, FS_Subset
<1>5. \A b \in DOMAIN orders : Risks[b] \in Nat
  BY <1>1 DEF Risks, Bracket
<1>. QED
  BY <1>1, <1>2, <1>4, <1>5 DEF CanLose, CanStopOut, Standing

\* The risk of what can be lost, with a plan's on top, fits under the ceiling
\* whenever a session has weighed the plan.
LEMMA StakeCovers ==
  ASSUME TypeInv, OneStandingPerKey, RiskIsOnRecord, OpenSessionCounts, session.open
  PROVE  /\ RiskAtStake \in Nat /\ SumFunctionOnSet(Risks, CanLose) \in Nat
         /\ SumFunctionOnSet(Risks, CanLose) <= RiskAtStake
<1> DEFINE stake == session.atStake
           keyOf == [b \in DOMAIN orders |-> orders[b].key]
<1>1. /\ CanLose \subseteq Standing /\ CanLose \subseteq DOMAIN orders
      /\ IsFiniteSet(CanLose) /\ \A b \in DOMAIN orders : Risks[b] \in Nat
  BY LosersStand DEF CanLose
<1>2. IsFiniteSet(Keys)
  BY ConstantsAssumption DEF ConstantsAssumption
<1>3. DOMAIN stake = Keys /\ \A k \in Keys : stake[k] \in Nat
  BY DEF TypeInv, TypeOK
<1>4. \A b \in CanLose : keyOf[b] \in Keys /\ Risks[b] <= stake[keyOf[b]]
  <2>1. \A b \in CanLose : orders[b].key \in Keys
    BY <1>1 DEF RiskIsOnRecord, PlacedKeys
  <2>. QED
    BY <1>1, <2>1 DEF OpenSessionCounts, Risks
<1>5. \A b, c \in CanLose : keyOf[b] = keyOf[c] => b = c
  BY <1>1 DEF OneStandingPerKey
<1>6. \A b \in CanLose : Risks[b] \in Nat
  BY <1>1
<1> HIDE DEF keyOf
<1>7. SumFunctionOnSet(Risks, CanLose) <= SumFunctionOnSet(stake, Keys)
  BY <1>1, <1>2, <1>3, <1>4, <1>5, <1>6, SumCovered
<1>8. RiskAtStake = SumFunctionOnSet(stake, Keys)
  BY <1>3 DEF RiskAtStake, SumFunction
<1>9. SumFunctionOnSet(Risks, CanLose) \in Nat /\ SumFunctionOnSet(stake, Keys) \in Nat
  BY <1>1, <1>2, <1>3, <1>6, SumProperties
<1>. QED
  BY <1>7, <1>8, <1>9

\* What the venue does of its own accord makes nothing loseable that was not.
LEMMA VenueOnlyReleases ==
  ASSUME TypeInv, VenueStep
  PROVE  /\ DOMAIN orders' = DOMAIN orders
         /\ \A b \in DOMAIN orders : /\ orders'[b].key = orders[b].key
                                     /\ orders'[b].risk = orders[b].risk
         /\ Standing' \subseteq Standing /\ CanLose' \subseteq CanLose
<1>1. PICK b \in DOMAIN orders :
        \/ FillEntry(b) \/ KillEntry(b) \/ LapseLegs(b) \/ ExitByHand(b)
        \/ \E leg \in {"target", "stop"} : ExitLeg(b, leg)
  BY DEF VenueStep
<1>2. orders[b] \in Bracket
  BY LosersStand
<1>3. /\ DOMAIN orders' = DOMAIN orders
      /\ \A c \in DOMAIN orders : c # b => orders'[c] = orders[c]
      /\ orders'[b].key = orders[b].key /\ orders'[b].risk = orders[b].risk
      /\ \/ orders[b].status = "working"
         \/ /\ orders'[b].status = orders[b].status
            /\ orders'[b].legs \in {orders[b].legs, "done"}
  <2>1. CASE FillEntry(b)
    BY <1>2, <2>1 DEF FillEntry, Bracket
  <2>2. CASE KillEntry(b)
    BY <1>2, <2>2 DEF KillEntry, Bracket
  <2>3. CASE LapseLegs(b)
    BY <1>2, <2>3 DEF LapseLegs, Bracket
  <2>4. ASSUME NEW leg, Exit(b, leg)
        PROVE  /\ DOMAIN orders' = DOMAIN orders
               /\ \A c \in DOMAIN orders : c # b => orders'[c] = orders[c]
               /\ orders'[b].key = orders[b].key /\ orders'[b].risk = orders[b].risk
               /\ orders'[b].status = orders[b].status
               /\ orders'[b].legs \in {orders[b].legs, "done"}
    BY <1>2, <2>4 DEF Exit, Bracket
  <2>. QED
    BY <1>1, <2>1, <2>2, <2>3, <2>4 DEF ExitByHand, ExitLeg
<1>4. Standing' \subseteq Standing
  BY StandingOnlyShrinks
<1>5. CanLose' \subseteq CanLose
  BY <1>3 DEF CanLose, CanStopOut
<1>. QED
  BY <1>3, <1>4, <1>5

\* A step of the log leaves the recorded risks be unless it is a placement.
LEMMA OnlyPlacementsRisk ==
  ASSUME TypeInv, NEW row \in Row, row.outcome # "placed", log' = Append(log, row),
         NEW k \in PlacedKeys(log)
  PROVE  k \in PlacedKeys(log') /\ RiskByKey(log', k) = RiskByKey(log, k)
BY RiskAfterAppend, PlacedAfterAppend DEF TypeInv, TypeOK, PlacedKeys

\* A step that moves no bracket, names no order and weighs no plan anew leaves
\* the ceiling standing.
LEMMA QuietRisk ==
  ASSUME RiskInv, TypeInv', TodoPlacesNothing', UNCHANGED orders,
         \/ UNCHANGED log
         \/ \E row \in Row : row.outcome # "placed" /\ log' = Append(log, row),
         OpenSessionCounts', PromptFits'
  PROVE  RiskInv'
<1>1. /\ CanLose' = CanLose /\ Standing' = Standing /\ Risks' = Risks
  BY DEF CanLose, CanStopOut, Standing, Risks
<1>2. CeilingHolds'
  BY <1>1 DEF RiskInv, CeilingHolds, CanStopOut
<1>3. RiskIsOnRecord'
  BY <1>1, OnlyPlacementsRisk DEF RiskInv, RiskIsOnRecord
<1>. QED
  BY <1>2, <1>3 DEF RiskInv

\* What can be lost never weighs more than it did among more, or among the same.
LEMMA FewerWeighLess ==
  ASSUME NEW A, IsFiniteSet(A), NEW B \in SUBSET A, NEW f, NEW g,
         \A b \in A : f[b] \in Nat, \A b \in B : g[b] = f[b]
  PROVE  SumFunctionOnSet(g, B) <= SumFunctionOnSet(f, A)
<1> DEFINE same == [b \in B |-> b]
<1>1. IsFiniteSet(B) /\ \A b \in B : g[b] \in Nat
  BY FS_Subset
<1>2. /\ \A b \in B : same[b] \in A /\ g[b] <= f[same[b]]
      /\ \A b, c \in B : same[b] = same[c] => b = c
  OBVIOUS
<1> HIDE DEF same
<1>. QED
  BY <1>1, <1>2, SumCovered

LEMMA VenueKeepsCeiling ==
  ASSUME RiskInv, VenueStep
  PROVE  RiskInv'
<1>0. TypeInv /\ TypeInv'
  BY VenueStepType DEF RiskInv
<1>1. /\ DOMAIN orders' = DOMAIN orders
      /\ \A b \in DOMAIN orders : /\ orders'[b].key = orders[b].key
                                  /\ orders'[b].risk = orders[b].risk
      /\ Standing' \subseteq Standing /\ CanLose' \subseteq CanLose
  BY <1>0, VenueOnlyReleases
<1>2. UNCHANGED <<log, session, prompt, todo>>
  BY DEF VenueStep, sessionVars, passVars
<1>3. /\ IsFiniteSet(CanLose) /\ CanLose \subseteq DOMAIN orders /\ Standing \subseteq DOMAIN orders
      /\ \A b \in DOMAIN orders : Risks[b] \in Nat
  BY <1>0, LosersStand DEF CanLose, Standing
<1>4. \A b \in CanLose' : Risks'[b] = Risks[b]
  BY <1>1, <1>3 DEF Risks
<1>5. SumFunctionOnSet(Risks', CanLose') <= SumFunctionOnSet(Risks, CanLose)
  BY <1>1, <1>3, <1>4, FewerWeighLess
<1>6. SumFunctionOnSet(Risks, CanLose) <= MaxRisk
  BY DEF RiskInv, CeilingHolds, Risks, CanLose
<1>7. SumFunctionOnSet(Risks, CanLose) \in Nat /\ SumFunctionOnSet(Risks', CanLose') \in Nat
  <2>1. \A b \in CanLose : Risks[b] \in Nat
    BY <1>3
  <2>2. \A b \in CanLose : b \in CanLose' => Risks'[b] \in Nat
    BY <1>4, <2>1
  <2>3. IsFiniteSet(CanLose')
    BY <1>1, <1>3, FS_Subset
  <2>4. \A b \in CanLose' : Risks'[b] \in Nat
    BY <1>1, <2>2
  <2>. QED
    BY <1>3, <2>1, <2>3, <2>4, SumProperties
<1>8. MaxRisk \in Nat
  BY ConstantsAssumption DEF ConstantsAssumption
<1>9. SumFunctionOnSet(Risks', CanLose') <= MaxRisk
  BY <1>5, <1>6, <1>7, <1>8
<1>10. CeilingHolds'
  BY <1>9 DEF CeilingHolds, Risks, CanLose, CanStopOut
<1>11. RiskIsOnRecord'
  BY <1>1, <1>2, <1>3 DEF RiskInv, RiskIsOnRecord
<1>12. OpenSessionCounts'
  BY <1>1, <1>2, <1>3 DEF RiskInv, OpenSessionCounts
<1>13. PromptFits' /\ TodoPlacesNothing'
  BY <1>2 DEF RiskInv, PromptFits, TodoPlacesNothing, RiskAtStake
<1>. QED
  BY <1>0, <1>10, <1>11, <1>12, <1>13 DEF RiskInv

\* The venue, asked about a candidate, answers for what can be lost on it.
AnswersForLosses ==
  \A b \in CanLose : b \in Answer(orders[b].key) \/ Answer(orders[b].key) = {}

\* A session that opens takes over the recorded risk of all that can be lost.
LEMMA OpeningCounts ==
  ASSUME RiskInv, AnswersForLosses, OpenSession
  PROVE  OpenSessionCounts'
<1>1. PICK readable \in SUBSET PlacedKeys(log) :
        session' = [open |-> TRUE, placed |-> LiveKeys(PlacedKeys(log), readable),
                    atStake |-> [k \in Keys |-> IF k \in LiveKeys(PlacedKeys(log), readable)
                                                THEN RiskByKey(log, k) ELSE 0]]
  BY DEF OpenSession
<1>2. ASSUME NEW b \in CanLose
      PROVE  orders[b].risk <= session'.atStake[orders[b].key]
  <2>1. b \in Standing /\ b \in DOMAIN orders /\ orders[b] \in Bracket
    BY LosersStand DEF RiskInv, CanLose
  <2>2. /\ orders[b].key \in PlacedKeys(log) /\ orders[b].key \in Keys
        /\ RiskByKey(log, orders[b].key) = orders[b].risk
    BY <2>1 DEF RiskInv, RiskIsOnRecord, PlacedKeys
  <2>3. is_live(b)
    BY <2>1 DEF CanLose, CanStopOut, is_live, Bracket
  <2>4. orders[b].key \in LiveKeys(PlacedKeys(log), readable)
    BY <2>2, <2>3 DEF LiveKeys, AnswersForLosses
  <2>5. session'.atStake[orders[b].key] = orders[b].risk /\ orders[b].risk \in Nat
    BY <1>1, <2>1, <2>2, <2>4 DEF Bracket
  <2>. QED
    BY <2>5
<1>3. UNCHANGED orders
  BY DEF OpenSession, venueVars
<1>. QED
  BY <1>2, <1>3 DEF OpenSessionCounts, CanLose, CanStopOut

\* A plan that is placed was weighed against all that can be lost already.
LEMMA PlacingFits ==
  ASSUME RiskInv, OneStandingPerKey, NEW plan \in prompt, Placed(plan),
         \A b \in Standing : orders[b].key # plan.key
  PROVE  RiskInv'
<1> DEFINE n == Len(orders) + 1
<1>1. plan \in Plan /\ plan.key \in Keys /\ plan.risk \in Nat /\ TypeInv
  BY DEF RiskInv, TypeInv, TypeOK, Plan
<1>2. /\ DOMAIN orders = 1 .. Len(orders) /\ DOMAIN orders' = 1 .. Len(orders) + 1
      /\ Len(orders) \in Nat
      /\ \A b \in DOMAIN orders : orders'[b] = orders[b]
      /\ orders'[n] = NewBracket(plan, "working")
  BY <1>1, AcceptType DEF Placed
<1>3. /\ orders'[n].key = plan.key /\ orders'[n].risk = plan.risk
      /\ orders'[n].status = "working"
  BY <1>2 DEF NewBracket
<1>4. n \notin DOMAIN orders /\ DOMAIN orders' = DOMAIN orders \cup {n}
  BY <1>2
<1> HIDE DEF n
<1>5. \A b \in DOMAIN orders' : b \in DOMAIN orders \/ b = n
  BY <1>4
<1>6. Standing' = Standing \cup {n} /\ CanLose' = CanLose \cup {n}
  BY <1>2, <1>3, <1>4 DEF Standing, CanLose, CanStopOut
<1>7. /\ session.open /\ RiskAtStake + plan.risk <= MaxRisk
      /\ RiskAtStake \in Nat /\ SumFunctionOnSet(Risks, CanLose) \in Nat
      /\ SumFunctionOnSet(Risks, CanLose) <= RiskAtStake
  BY StakeCovers DEF RiskInv, PromptFits
<1>8. /\ IsFiniteSet(CanLose) /\ CanLose \subseteq DOMAIN orders /\ CanLose \subseteq Standing
      /\ Standing \subseteq DOMAIN orders /\ \A b \in DOMAIN orders : Risks[b] \in Nat
  BY <1>1, LosersStand DEF CanLose, Standing
<1>9. SumFunctionOnSet(Risks', CanLose') = plan.risk + SumFunctionOnSet(Risks', CanLose)
  <2>1. IsFiniteSet(CanLose')
    BY <1>6, <1>8, FS_AddElement
  <2>2. \A b \in CanLose' : Risks'[b] \in Nat
    BY <1>1, <1>2, <1>3, <1>4, <1>6, <1>8 DEF Risks
  <2>3. CanLose' \ {n} = CanLose /\ n \in CanLose' /\ Risks'[n] = plan.risk
    BY <1>3, <1>4, <1>6, <1>8 DEF Risks
  <2>. QED
    BY <2>1, <2>2, <2>3, SumProperties
<1>10. SumFunctionOnSet(Risks', CanLose) <= SumFunctionOnSet(Risks, CanLose)
  <2>1. \A b \in CanLose : Risks'[b] = Risks[b] /\ Risks[b] \in Nat
    BY <1>2, <1>4, <1>8 DEF Risks
  <2>. QED
    BY <1>8, <2>1, FewerWeighLess
<1>11. SumFunctionOnSet(Risks', CanLose) \in Nat
  <2>1. \A b \in CanLose : Risks'[b] \in Nat
    BY <1>2, <1>4, <1>8 DEF Risks
  <2>. QED
    BY <1>8, <2>1, SumProperties
<1>12. MaxRisk \in Nat
  BY ConstantsAssumption DEF ConstantsAssumption
<1>13. SumFunctionOnSet(Risks', CanLose') <= MaxRisk
  BY <1>1, <1>7, <1>9, <1>10, <1>11, <1>12
<1>14. CeilingHolds'
  BY <1>13 DEF CeilingHolds, Risks, CanLose, CanStopOut
<1>15. PICK row \in Row : /\ log' = Append(log, row) /\ row.outcome = "placed"
                          /\ row.key = plan.key /\ row.risk = plan.risk
  <2>1. PICK order \in {Len(orders) + 1, 0} :
          log' = Append(log, PlacementRow(plan.key, order, plan.risk, TRUE))
    BY DEF Placed
  <2>2. order \in Nat
    BY <1>2
  <2>3. PlacementRow(plan.key, order, plan.risk, TRUE) \in Row
    BY <1>1, <2>2, RowTypes
  <2>. QED
    BY <2>1, <2>3 DEF PlacementRow, BlankRow
<1>16. RiskIsOnRecord'
  <2>1. PlacedKeys(log') = PlacedKeys(log) \cup {plan.key}
    BY <1>1, <1>15, PlacedAfterAppend DEF TypeInv, TypeOK
  <2>2. RiskByKey(log', plan.key) = plan.risk
    BY <1>1, <1>15, RiskAfterAppend DEF TypeInv, TypeOK
  <2>3. \A k \in PlacedKeys(log) : k # plan.key => RiskByKey(log', k) = RiskByKey(log, k)
    BY <1>1, <1>15, RiskAfterAppend DEF TypeInv, TypeOK, PlacedKeys
  <2>. QED
    BY <1>2, <1>3, <1>6, <1>8, <2>1, <2>2, <2>3 DEF RiskInv, RiskIsOnRecord
<1>17. /\ session'.open = session.open
       /\ \A k \in Keys : session'.atStake[k] =
            IF k = plan.key THEN session.atStake[k] + plan.risk ELSE session.atStake[k]
       /\ session.atStake[plan.key] \in Nat
  BY <1>1 DEF Placed, Committed, TypeInv, TypeOK
<1>18. OpenSessionCounts'
  <2>1. \A b \in CanLose : orders[b].key \in Keys /\ orders[b].key # plan.key
    BY <1>8 DEF RiskInv, RiskIsOnRecord, PlacedKeys
  <2>2. orders'[n].risk <= session'.atStake[orders'[n].key]
    BY <1>1, <1>3, <1>17
  <2>. QED
    BY <1>2, <1>6, <1>7, <1>8, <1>17, <2>1, <2>2 DEF RiskInv, OpenSessionCounts
<1>19. PromptFits' /\ TodoPlacesNothing'
  BY DEF Placed, passVars, PromptFits, RiskInv, TodoPlacesNothing
<1>20. TypeInv'
  BY <1>1, SessionStepType DEF SessionStep
<1>. QED
  BY <1>14, <1>16, <1>18, <1>19, <1>20 DEF RiskInv

LEMMA RiskStep ==
  ASSUME Faults \cap Unrecorded = {}, RiskInv, OneStandingPerKey, AnswersForLosses, [Next]_vars,
         \A plan \in prompt : Placed(plan) => \A b \in Standing : orders[b].key # plan.key
  PROVE  RiskInv'
<1>0. TypeInv /\ TypeInv' /\ MaxRisk \in Nat /\ Want \in Nat /\ MinFit \in Nat
  BY TypeStep, ConstantsAssumption DEF RiskInv, ConstantsAssumption
<1>1. CASE VenueStep
  BY <1>1, VenueKeepsCeiling
<1>2. ASSUME UNCHANGED <<orders, session, todo>>, PromptFits',
             \/ UNCHANGED log
             \/ \E row \in Row : row.outcome # "placed" /\ log' = Append(log, row)
      PROVE  RiskInv'
  <2>1. OpenSessionCounts' /\ TodoPlacesNothing'
    BY <1>2 DEF RiskInv, OpenSessionCounts, CanLose, CanStopOut, TodoPlacesNothing
  <2>. QED
    BY <1>0, <1>2, <2>1, QuietRisk
<1>3. CASE OpenSession
  <2>1. OpenSessionCounts'
    BY <1>3, OpeningCounts
  <2>2. prompt = {} /\ UNCHANGED <<prompt, todo, orders, log>>
    BY <1>3 DEF OpenSession, RiskInv, PromptFits, venueVars, passVars
  <2>3. PromptFits' /\ TodoPlacesNothing'
    BY <2>2 DEF PromptFits, RiskInv, TodoPlacesNothing
  <2>. QED
    BY <1>0, <2>1, <2>2, <2>3, QuietRisk
<1>4. CASE CloseSession
  <2>1. OpenSessionCounts' /\ PromptFits' /\ TodoPlacesNothing' /\ UNCHANGED <<orders, log>>
    BY <1>4 DEF CloseSession, NoSession, OpenSessionCounts, PromptFits, RiskInv,
       TodoPlacesNothing, venueVars, passVars
  <2>. QED
    BY <1>0, <2>1, QuietRisk
<1>5. ASSUME NEW k \in Keys PROVE RefusalRow(k) \in Row /\ RefusalRow(k).outcome # "placed"
  <2>1. RefusalRow(k) \in Row
    BY RowTypes, 0 \in Nat
  <2>. QED
    BY <2>1 DEF RefusalRow, BlankRow
<1>6. \A plan \in prompt : plan.key \in Keys /\ plan.risk \in Nat
  BY <1>0 DEF TypeInv, TypeOK, Plan
<1>7. ASSUME NEW k \in Keys, OfferRefused(k) PROVE RiskInv'
  <2>1. PromptFits' /\ UNCHANGED <<orders, session, todo>> /\ log' = Append(log, RefusalRow(k))
    BY <1>7 DEF OfferRefused, Refuse, venueVars, sessionVars, passVars, RiskInv, PromptFits, RiskAtStake
  <2>. QED
    BY <1>2, <1>5, <2>1
<1>8. ASSUME NEW k \in Keys, OfferPlanned(k) PROVE RiskInv'
  <2>1. UNCHANGED <<orders, session, todo, log>> /\ session.open
    BY <1>8 DEF OfferPlanned, Offerable, venueVars, passVars
  <2>2. PICK risk \in MinFit .. Want : Sized(risk) /\ prompt' = {[key |-> k, risk |-> risk]}
    BY <1>8 DEF OfferPlanned
  <2>3. RiskAtStake \in Nat
    <3>1. IsFiniteSet(Keys) /\ DOMAIN session.atStake = Keys /\ \A j \in Keys : session.atStake[j] \in Nat
      BY <1>0, ConstantsAssumption DEF ConstantsAssumption, TypeInv, TypeOK
    <3>2. SumFunctionOnSet(session.atStake, Keys) \in Nat
      BY <3>1, SumProperties
    <3>. QED
      BY <3>1, <3>2 DEF RiskAtStake, SumFunction
  <2>4. RiskAtStake + risk <= MaxRisk
    BY <1>0, <2>2, <2>3 DEF Sized
  <2>5. PromptFits'
    BY <2>1, <2>2, <2>4 DEF PromptFits, RiskAtStake
  <2>. QED
    BY <1>2, <2>1, <2>5
<1>9. ASSUME NEW plan \in prompt, Declined(plan) \/ Raised(plan) PROVE RiskInv'
  <2>1. /\ PromptFits' /\ UNCHANGED <<orders, session, todo>>
        /\ log' = Append(log, RefusalRow(plan.key))
    BY <1>9 DEF Declined, Raised, Refuse, Unrecorded, venueVars, passVars, PromptFits
  <2>. QED
    BY <1>2, <1>5, <1>6, <2>1
<1>10. ASSUME NEW plan \in prompt, Placed(plan) PROVE RiskInv'
  BY <1>10, PlacingFits
<1>11. ASSUME NEW plan \in prompt, Rejected(plan) PROVE RiskInv'
  <2> DEFINE row == PlacementRow(plan.key, 0, plan.risk, FALSE)
  <2>1. row \in Row
    BY <1>6, RowTypes, 0 \in Nat
  <2>2. row.outcome # "placed"
    BY <2>1 DEF PlacementRow, BlankRow
  <2>3. log' = Append(log, row) /\ PromptFits' /\ UNCHANGED <<orders, session, todo>>
    BY <1>11 DEF Rejected, PromptFits, venueVars, passVars
  <2> HIDE DEF row
  <2>. QED
    BY <1>2, <2>1, <2>2, <2>3
<1>12. ASSUME NEW plan \in prompt, PartlyPlaced(plan) \/ KilledAfterPlace(plan) PROVE FALSE
  BY <1>12 DEF PartlyPlaced, KilledAfterPlace, Unrecorded
<1>13. CASE SessionStep
  BY <1>3, <1>4, <1>7, <1>8, <1>9, <1>10, <1>11, <1>12, <1>13 DEF SessionStep
<1>14. CASE PassStep
  <2>1. UNCHANGED <<orders, session, prompt>>
    BY <1>14 DEF PassStep, BeginReconcile, WriteReconciliation, WriteClose, Write,
       BeginCloseOut, EndPass, CrashPass, venueVars, sessionVars
  <2>2. PromptFits' /\ OpenSessionCounts'
    BY <2>1 DEF RiskInv, PromptFits, OpenSessionCounts, CanLose, CanStopOut, RiskAtStake
  <2>3. TodoPlacesNothing'
    BY <1>0, <1>14, TodoTypes DEF PassStep, WriteReconciliation, WriteClose, Write,
       EndPass, CrashPass, RiskInv, TodoPlacesNothing
  <2>4. UNCHANGED log \/ \E row \in todo : log' = Append(log, row)
    BY <1>14 DEF PassStep, BeginReconcile, WriteReconciliation, WriteClose, Write,
       BeginCloseOut, EndPass, CrashPass
  <2>5. \A row \in todo : row \in Row /\ row.outcome # "placed"
    BY <1>0 DEF TypeInv, TypeOK, RiskInv, TodoPlacesNothing
  <2>. QED
    BY <1>0, <2>1, <2>2, <2>3, <2>4, <2>5, QuietRisk
<1>15. CASE \E b \in DOMAIN orders : CancelResting(b)
  BY <1>1, <1>15 DEF CancelResting, VenueStep
<1>16. CASE UNCHANGED vars
  <2>1. UNCHANGED <<log, orders, session, prompt, todo>>
    BY <1>16 DEF vars
  <2>2. PromptFits'
    BY <2>1 DEF RiskInv, PromptFits, RiskAtStake
  <2>. QED
    BY <1>2, <2>1, <2>2
<1>. QED
  BY <1>1, <1>13, <1>14, <1>15, <1>16 DEF Next

LEMMA RiskInit == Init => RiskInv
<1>. SUFFICES ASSUME Init PROVE RiskInv
  OBVIOUS
<1>1. DOMAIN orders = {} /\ prompt = {} /\ todo = {} /\ ~session.open /\ TypeInv
  BY InitType DEF Init, NoSession
<1>2. CanLose = {} /\ Standing = {}
  BY <1>1 DEF CanLose, Standing
<1>3. SumFunctionOnSet(Risks, {}) = 0
  BY FS_EmptySet, SumProperties
<1>4. MaxRisk \in Nat
  BY ConstantsAssumption DEF ConstantsAssumption
<1>5. SumFunctionOnSet(Risks, CanLose) <= MaxRisk
  BY <1>2, <1>3, <1>4
<1>6. CeilingHolds
  BY <1>5 DEF CeilingHolds, Risks, CanLose
<1>. QED
  BY <1>1, <1>2, <1>6
  DEF RiskInv, TodoPlacesNothing, RiskIsOnRecord, OpenSessionCounts, PromptFits

(***************************************************************************)
(* The pooled ceiling holds on both venues, for any number of candidates,  *)
(* whatever sessions, passes, fills, kills and exits come between weighing *)
(* a plan and placing it, as long as every order the venue took left a     *)
(* placed row: what nothing recorded, no session has at stake.             *)
(***************************************************************************)
THEOREM CeilingIsKept ==
  ASSUME Faults \cap Unrecorded = {}
  PROVE  Spec => []CeilingHolds
<1>1. RiskInv => CeilingHolds
  BY DEF RiskInv
<1>2. CASE Venue = "alpaca"
  <2>1. RiskInv /\ OneBracketEver /\ [Next]_vars => (RiskInv /\ OneBracketEver)'
    <3>. SUFFICES ASSUME RiskInv, OneBracketEver, [Next]_vars PROVE RiskInv' /\ OneBracketEver'
      OBVIOUS
    <3>1. OneStandingPerKey
      BY DEF OneBracketEver, OneStandingPerKey, Standing
    <3>2. AnswersForLosses
      BY <1>2 DEF AnswersForLosses, Answer, CanLose
    <3>3. \A plan \in prompt : Placed(plan) => \A b \in Standing : orders[b].key # plan.key
      BY <1>2 DEF Placed, Accept, VenueRefuses, Standing
    <3>4. OneBracketEver'
      BY <1>2, AlpacaStep DEF RiskInv
    <3>. QED
      BY <3>1, <3>2, <3>3, <3>4, RiskStep
  <2>2. Init => OneBracketEver
    <3>1. Init => DOMAIN orders = {}
      BY DEF Init
    <3>. QED
      BY <3>1 DEF OneBracketEver
  <2>. QED
    BY <1>1, <2>1, <2>2, RiskInit, PTL DEF Spec
<1>3. CASE Venue = "hyperliquid"
  <2>1. RiskInv /\ GuardInv /\ [Next]_vars => (RiskInv /\ GuardInv)'
    <3>. SUFFICES ASSUME RiskInv, GuardInv, [Next]_vars PROVE RiskInv' /\ GuardInv'
      OBVIOUS
    <3>1. OneStandingPerKey
      BY DEF GuardInv
    <3>2. AnswersForLosses
      <4>1. 0 \notin DOMAIN orders
        BY LenProperties DEF GuardInv, TypeInv, TypeOK
      <4>2. CanLose \subseteq Standing /\ CanLose \subseteq DOMAIN orders
        BY LosersStand DEF RiskInv, CanLose
      <4>. QED
        BY <1>3, <4>1, <4>2 DEF AnswersForLosses, Answer, GuardInv, StandingIsOnRecord
    <3>3. \A plan \in prompt : Placed(plan) => \A b \in Standing : orders[b].key # plan.key
      BY DEF GuardInv, PromptIsUnplaced, OpenSessionKnows
    <3>4. GuardInv'
      BY <1>3, HyperliquidStep
    <3>. QED
      BY <3>1, <3>2, <3>3, <3>4, RiskStep
  <2>. QED
    BY <1>1, <2>1, RiskInit, GuardInit, PTL DEF Spec
<1>. QED
  BY <1>2, <1>3, ConstantsAssumption DEF ConstantsAssumption

-----------------------------------------------------------------------------
(* Verdicts.  One bracket per candidate is not enough for a verdict to be  *)
(* about the candidate's latest placement: that placement must name the    *)
(* bracket, and every verdict, written or only decided on, must be one a   *)
(* bracket of its candidate has settled into and cannot leave.             *)

PlacementsName ==
  \A k \in PlacedKeys(log) :
    OrderOf(log, k) \in DOMAIN orders /\ orders[OrderOf(log, k)].key = k

Pays(row) ==
  \E b \in DOMAIN orders :
    /\ orders[b].key = row.key /\ settled(b)
    /\ row.status = orders[b].status /\ row.filled = orders[b].filled

Founded(row) ==
  /\ row.outcome \in {"reconciled", "closed"} => row.key \in PlacedKeys(log)
  /\ row.outcome = "reconciled" => Pays(row)

RowsFounded ==
  /\ \A i \in DOMAIN log : Founded(log[i])
  /\ \A row \in todo : Founded(row)

VerdictInv ==
  /\ TypeInv /\ OneBracketEver /\ TodoPlacesNothing
  /\ PlacementsName /\ RowsFounded

\* A bracket keeps its candidate, and once settled its verdict, for ever.
LEMMA BracketsLast ==
  ASSUME TypeInv, [Next]_vars
  PROVE  \A b \in DOMAIN orders :
           /\ b \in DOMAIN orders' /\ orders'[b].key = orders[b].key
           /\ settled(b) => /\ orders'[b].status = orders[b].status
                            /\ orders'[b].filled = orders[b].filled
<1>1. CASE VenueStep
  <2>1. PICK b \in DOMAIN orders :
          \/ FillEntry(b) \/ KillEntry(b) \/ LapseLegs(b) \/ ExitByHand(b)
          \/ \E leg \in {"target", "stop"} : ExitLeg(b, leg)
    BY <1>1 DEF VenueStep
  <2>2. PICK o \in Bracket :
          /\ orders' = [orders EXCEPT ![b] = o]
          /\ o.status = "working" => o.filled < Lot
          /\ o.key = orders[b].key
          /\ settled(b) => o.status = orders[b].status /\ o.filled = orders[b].filled
    BY <2>1, BracketSteps DEF settled
  <2>3. /\ DOMAIN orders' = DOMAIN orders
        /\ \A c \in DOMAIN orders : orders'[c] = IF c = b THEN o ELSE orders[c]
    BY <2>2, OneBracketChanged
  <2>. QED
    BY <2>2, <2>3
<1>2. ASSUME NEW plan \in prompt, NEW legs \in {"working", "done"}, Accept(plan, legs)
      PROVE  \A b \in DOMAIN orders : b \in DOMAIN orders' /\ orders'[b] = orders[b]
  <2>1. plan \in Plan
    BY DEF TypeInv, TypeOK
  <2>. QED
    BY <1>2, <2>1, AcceptType
<1>. QED
  BY <1>1, <1>2, OrdersSteps

\* A plan that is placed goes to a candidate with no bracket, and its row
\* names the bracket the venue made of it.
LEMMA PlacedNamesItsBracket ==
  ASSUME TypeInv, Venue = "alpaca", "unnamed" \notin Faults,
         NEW plan \in prompt, Placed(plan)
  PROVE  \E row \in Row :
           /\ log' = Append(log, row) /\ row.outcome = "placed"
           /\ row.order \in DOMAIN orders' /\ orders'[row.order].key = row.key
           /\ \A b \in DOMAIN orders : orders[b].key # row.key
<1> DEFINE n == Len(orders) + 1
           row == PlacementRow(plan.key, n, plan.risk, TRUE)
<1>1. plan \in Plan /\ plan.key \in Keys /\ plan.risk \in Nat
  BY DEF TypeInv, TypeOK, Plan
<1>2. /\ n \in DOMAIN orders' /\ n \in Nat
      /\ orders'[n] = NewBracket(plan, "working")
  BY <1>1, AcceptType DEF Placed
<1>3. row \in Row
  BY <1>1, <1>2, RowTypes
<1>4. row.outcome = "placed" /\ row.key = plan.key /\ row.order = n
  BY DEF PlacementRow, BlankRow
<1>5. log' = Append(log, row)
  BY DEF Placed
<1>6. \A b \in DOMAIN orders : orders[b].key # plan.key
  BY DEF Placed, Accept, VenueRefuses
<1>7. orders'[n].key = plan.key
  BY <1>2 DEF NewBracket
<1> HIDE DEF row, n
<1>. QED
  BY <1>2, <1>3, <1>4, <1>5, <1>6, <1>7

\* The ways the log grows.
LEMMA LogSteps ==
  ASSUME TypeInv, [Next]_vars
  PROVE  \/ log' = log
         \/ \E row \in Row : log' = Append(log, row) /\ row.outcome \in {"refused", "failed"}
         \/ \E plan \in prompt : Placed(plan)
         \/ \E row \in todo : log' = Append(log, row) /\ todo' = todo \ {row}
<1>1. ASSUME NEW k \in Keys, log' = Append(log, RefusalRow(k))
      PROVE  \E row \in Row : log' = Append(log, row) /\ row.outcome \in {"refused", "failed"}
  <2>1. RefusalRow(k) \in Row
    BY RowTypes, 0 \in Nat
  <2>2. RefusalRow(k).outcome = "refused"
    BY DEF RefusalRow, BlankRow
  <2>. QED
    BY <1>1, <2>1, <2>2
<1>2. ASSUME NEW plan \in prompt, NEW n \in Nat,
             log' = Append(log, PlacementRow(plan.key, n, plan.risk, FALSE))
      PROVE  \E row \in Row : log' = Append(log, row) /\ row.outcome \in {"refused", "failed"}
  <2>1. plan.key \in Keys /\ plan.risk \in Nat
    BY DEF TypeInv, TypeOK, Plan
  <2>2. PlacementRow(plan.key, n, plan.risk, FALSE) \in Row
    BY <2>1, RowTypes
  <2>3. PlacementRow(plan.key, n, plan.risk, FALSE).outcome = "failed"
    BY DEF PlacementRow, BlankRow
  <2>. QED
    BY <1>2, <2>2, <2>3
<1>3. \A plan \in prompt : plan.key \in Keys
  BY DEF TypeInv, TypeOK, Plan
<1>4. Len(orders) + 1 \in Nat
  BY LenProperties DEF TypeInv, TypeOK
<1>5. CASE VenueStep \/ OpenSession \/ CloseSession \/ UNCHANGED vars
  BY <1>5 DEF VenueStep, OpenSession, CloseSession, vars
<1>6. ASSUME NEW k \in Keys, OfferRefused(k) \/ OfferPlanned(k)
      PROVE  log' = log \/ log' = Append(log, RefusalRow(k))
  BY <1>6 DEF OfferRefused, OfferPlanned, Refuse
<1>7. ASSUME NEW plan \in prompt, Declined(plan) \/ Raised(plan)
      PROVE  log' = Append(log, RefusalRow(plan.key))
  BY <1>7 DEF Declined, Raised, Refuse
<1>8. ASSUME NEW plan \in prompt, Rejected(plan) \/ PartlyPlaced(plan)
      PROVE  \E n \in Nat : log' = Append(log, PlacementRow(plan.key, n, plan.risk, FALSE))
  BY <1>4, <1>8, 0 \in Nat DEF Rejected, PartlyPlaced
<1>9. ASSUME NEW plan \in prompt, KilledAfterPlace(plan) PROVE log' = log
  BY <1>9 DEF KilledAfterPlace
<1>10. CASE PassStep
  BY <1>10 DEF PassStep, BeginReconcile, WriteReconciliation, WriteClose, Write,
     BeginCloseOut, EndPass, CrashPass
<1>11. CASE \E b \in DOMAIN orders : CancelResting(b)
  BY <1>11 DEF CancelResting
<1>12. CASE SessionStep
  BY <1>1, <1>2, <1>3, <1>5, <1>6, <1>7, <1>8, <1>9, <1>12 DEF SessionStep
<1>. QED
  BY <1>5, <1>10, <1>11, <1>12 DEF Next

\* The ways the list of decided rows changes.
LEMMA TodoSteps ==
  ASSUME [Next]_vars
  PROVE  \/ todo' \subseteq todo
         \/ /\ log' = log /\ orders' = orders /\ fills' = fills
            /\ \/ \E readable \in SUBSET UnsettledKeys(log) : BeginReconcile(readable)
               \/ \E answered \in BOOLEAN : BeginCloseOut(answered)
<1>1. CASE VenueStep \/ UNCHANGED vars \/ \E b \in DOMAIN orders : CancelResting(b)
  BY <1>1 DEF VenueStep, vars, CancelResting, passVars
<1>2. CASE SessionStep
  BY <1>2
  DEF SessionStep, OpenSession, CloseSession, OfferRefused, OfferPlanned, Declined, Placed,
      Rejected, PartlyPlaced, Raised, KilledAfterPlace, passVars
<1>3. CASE PassStep
  BY <1>3 DEF PassStep, BeginReconcile, WriteReconciliation, WriteClose, Write,
      BeginCloseOut, EndPass, CrashPass, venueVars
<1>. QED
  BY <1>1, <1>2, <1>3 DEF Next

\* What one appended row does to the file: it is the last, the rest stay.
LEMMA AppendedRows ==
  ASSUME log \in Seq(Row), NEW row \in Row, log' = Append(log, row)
  PROVE  /\ Len(log) \in Nat /\ DOMAIN log = 1 .. Len(log)
         /\ DOMAIN log' = 1 .. Len(log) + 1
         /\ \A i \in DOMAIN log : i \in DOMAIN log' /\ log'[i] = log[i]
         /\ \A i \in DOMAIN log' : i \in DOMAIN log \/ i = Len(log) + 1
         /\ log'[Len(log) + 1] = row
BY AppendProperties, LenProperties

\* The rows reconcile decides on are verdicts of brackets that have settled, on
\* candidates that were placed and are waiting.
LEMMA ReconcileReads ==
  ASSUME Venue = "alpaca", NEW readable \in SUBSET UnsettledKeys(log), BeginReconcile(readable),
         TypeInv, NEW row \in todo'
  PROVE  row.outcome = "reconciled" /\ row.key \in UnsettledKeys(log) /\ Pays(row)
<1>1. PICK b \in UNION {Answer(k) : k \in readable} :
        settled(b) /\ row = ReconciliationRow(orders[b].key, orders[b].status, orders[b].filled)
  BY DEF BeginReconcile
<1>2. b \in DOMAIN orders /\ orders[b].key \in UnsettledKeys(log)
  BY <1>1 DEF Answer
<1>3. row.key = orders[b].key /\ row.outcome = "reconciled"
      /\ row.status = orders[b].status /\ row.filled = orders[b].filled
  BY <1>1 DEF ReconciliationRow, BlankRow
<1>. QED
  BY <1>1, <1>2, <1>3 DEF Pays

\* The latest row of a candidate is one of its rows.
LEMMA LatestIsARow ==
  ASSUME log \in Seq(Row), NEW k, RowsOf(log, k) # {}
  PROVE  /\ Last(RowsOf(log, k)) \in DOMAIN log
         /\ LatestRow(log, k) = log[Last(RowsOf(log, k))] /\ LatestRow(log, k).key = k
         /\ \A i \in DOMAIN log : log[i].key = k => i <= Last(RowsOf(log, k))
<1>1. Len(log) \in Nat /\ RowsOf(log, k) \in SUBSET (1 .. Len(log)) /\ DOMAIN log = 1 .. Len(log)
  BY RowsInLog, LenProperties
<1>2. Last(RowsOf(log, k)) \in RowsOf(log, k) /\ \A j \in RowsOf(log, k) : j <= Last(RowsOf(log, k))
  BY <1>1, LastIsLargest
<1>. QED
  BY <1>2 DEF RowsOf, LatestRow

\* A candidate waiting for a verdict, or for its exit, was placed.
LEMMA WaitingWasPlaced ==
  ASSUME VerdictInv, NEW k \in UnsettledKeys(log) \cup AwaitingExitKeys(log)
  PROVE  k \in PlacedKeys(log)
<1>1. log \in Seq(Row) /\ k \in Keys /\ RowsOf(log, k) # {}
  BY DEF VerdictInv, TypeInv, TypeOK, UnsettledKeys, AwaitingExitKeys
<1>2. /\ Last(RowsOf(log, k)) \in DOMAIN log
      /\ LatestRow(log, k) = log[Last(RowsOf(log, k))] /\ LatestRow(log, k).key = k
  BY <1>1, LatestIsARow
<1>3. CASE LatestRow(log, k).outcome = "placed"
  BY <1>1, <1>2, <1>3 DEF PlacedKeys, RowsWith, RowsOf
<1>4. CASE LatestRow(log, k).outcome = "reconciled"
  BY <1>2, <1>4 DEF VerdictInv, RowsFounded, Founded
<1>. QED
  BY <1>3, <1>4 DEF UnsettledKeys, AwaitingExitKeys, HasFilled

\* close_out decides on closes of candidates waiting for their exit.
LEMMA CloseOutReads ==
  ASSUME NEW answered \in BOOLEAN, BeginCloseOut(answered), NEW row \in todo'
  PROVE  /\ row.outcome = "closed"
         /\ \E k \in AwaitingExitKeys(log) : row \in Closes(k) /\ row.key = k
<1>1. PICK k \in AwaitingExitKeys(log) : row \in Closes(k)
  BY DEF BeginCloseOut
<1>2. row.outcome = "closed" /\ row.key = k
  BY <1>1 DEF Closes, CloseRow, BlankRow
<1>. QED
  BY <1>1, <1>2

\* Every row of the file was there, or was decided on, or says nothing of how
\* an order ended.
LEMMA RowsComeFrom ==
  ASSUME TypeInv, Venue = "alpaca", "unnamed" \notin Faults, [Next]_vars, NEW i \in DOMAIN log'
  PROVE  \/ \E j \in DOMAIN log : log'[i] = log[j]
         \/ log'[i] \in todo
         \/ log'[i].outcome \in {"refused", "failed", "placed"}
<1>1. log \in Seq(Row) /\ todo \subseteq Row
  BY DEF TypeInv, TypeOK
<1>2. ASSUME NEW row \in Row, log' = Append(log, row)
      PROVE  (\E j \in DOMAIN log : log'[i] = log[j]) \/ log'[i] = row
  BY <1>1, <1>2, AppendedRows
<1>. QED
  BY <1>1, <1>2, LogSteps, PlacedNamesItsBracket

LEMMA VerdictStep ==
  ASSUME Venue = "alpaca", "unnamed" \notin Faults
  PROVE  VerdictInv /\ [Next]_vars => VerdictInv'
<1>. SUFFICES ASSUME VerdictInv, [Next]_vars PROVE VerdictInv'
  OBVIOUS
<1>1. TypeInv /\ TypeInv' /\ OneBracketEver' /\ log \in Seq(Row)
  BY TypeStep, AlpacaStep DEF VerdictInv, TypeInv, TypeOK
<1>2. \A b \in DOMAIN orders :
        /\ b \in DOMAIN orders' /\ orders'[b].key = orders[b].key
        /\ settled(b) => /\ orders'[b].status = orders[b].status
                         /\ orders'[b].filled = orders[b].filled
  BY <1>1, BracketsLast
<1>3. ASSUME NEW row, Pays(row) PROVE Pays(row)'
  BY <1>2, <1>3 DEF Pays, settled
<1>4. /\ PlacedKeys(log) \subseteq PlacedKeys(log')
      /\ PlacementsName'
  <2>1. CASE log' = log
    BY <1>2, <2>1 DEF VerdictInv, PlacementsName
  <2>2. ASSUME NEW row \in Row, log' = Append(log, row), row.outcome # "placed"
        PROVE  PlacedKeys(log) \subseteq PlacedKeys(log') /\ PlacementsName'
    <3>1. /\ PlacedKeys(log') = PlacedKeys(log)
          /\ \A k \in Keys : OrderOf(log', k) = OrderOf(log, k)
      BY <1>1, <2>2, OnlyPlacementsName
    <3>. QED
      BY <1>2, <3>1 DEF VerdictInv, PlacementsName, PlacedKeys
  <2>3. ASSUME NEW row \in Row, log' = Append(log, row), row.outcome = "placed",
               row.order \in DOMAIN orders', orders'[row.order].key = row.key
        PROVE  PlacedKeys(log) \subseteq PlacedKeys(log') /\ PlacementsName'
    <3>1. PlacedKeys(log') = PlacedKeys(log) \cup {row.key}
      BY <1>1, <2>3, PlacedAfterAppend
    <3>2. \A k \in Keys : OrderOf(log', k) = IF row.key = k THEN row.order ELSE OrderOf(log, k)
      BY <1>1, <2>3, OrderAfterAppend
    <3>3. \A k \in PlacedKeys(log') : k \in Keys
      BY DEF PlacedKeys
    <3>. QED
      BY <1>2, <2>3, <3>1, <3>2, <3>3 DEF VerdictInv, PlacementsName
  <2>4. \A row \in todo : row \in Row /\ row.outcome # "placed"
    BY DEF VerdictInv, TodoPlacesNothing, TypeInv, TypeOK
  <2>. QED
    BY <1>1, <2>1, <2>2, <2>3, <2>4, LogSteps, PlacedNamesItsBracket
<1> DEFINE Stands(row) ==
             /\ row.outcome \in {"reconciled", "closed"} => row.key \in PlacedKeys(log')
             /\ row.outcome = "reconciled" =>
                  \E b \in DOMAIN orders' :
                    /\ orders'[b].key = row.key /\ orders'[b].status # "working"
                    /\ row.status = orders'[b].status /\ row.filled = orders'[b].filled
<1>5. ASSUME NEW row, Founded(row) PROVE Stands(row)
  <2>1. row.outcome = "reconciled" => Pays(row)'
    BY <1>3, <1>5 DEF Founded
  <2>. QED
    BY <1>4, <1>5, <2>1 DEF Founded, Pays, settled
<1>6. ASSUME NEW i \in DOMAIN log' PROVE Stands(log'[i])
  <2>1. \A j \in DOMAIN log : Stands(log[j])
    BY <1>5 DEF VerdictInv, RowsFounded
  <2>2. \A row \in todo : Stands(row)
    BY <1>5 DEF VerdictInv, RowsFounded
  <2>3. log'[i].outcome \in {"refused", "failed", "placed"} => Stands(log'[i])
    OBVIOUS
  <2> HIDE DEF Stands
  <2>. QED
    BY <1>1, <2>1, <2>2, <2>3, RowsComeFrom
<1>7. ASSUME NEW row \in todo' PROVE Stands(row) /\ row.outcome # "placed"
  <2>1. CASE todo' \subseteq todo
    <3>1. Founded(row) /\ row.outcome # "placed"
      BY <1>7, <2>1 DEF VerdictInv, RowsFounded, TodoPlacesNothing
    <3>. QED
      BY <1>5, <3>1
  <2>2. ASSUME NEW readable \in SUBSET UnsettledKeys(log), BeginReconcile(readable)
        PROVE  Founded(row) /\ row.outcome # "placed"
    <3>1. row.outcome = "reconciled" /\ row.key \in UnsettledKeys(log) /\ Pays(row)
      BY <1>1, <1>7, <2>2, ReconcileReads
    <3>. QED
      BY <3>1, WaitingWasPlaced DEF Founded
  <2>3. ASSUME NEW answered \in BOOLEAN, BeginCloseOut(answered)
        PROVE  Founded(row) /\ row.outcome # "placed"
    <3>1. row.outcome = "closed" /\ row.key \in AwaitingExitKeys(log)
      BY <1>7, <2>3, CloseOutReads
    <3>. QED
      BY <3>1, WaitingWasPlaced DEF Founded
  <2> HIDE DEF Stands
  <2>. QED
    BY <1>5, <2>1, <2>2, <2>3, TodoSteps
<1>8. RowsFounded'
  BY <1>6, <1>7 DEF RowsFounded, Founded, Pays, settled
<1>9. TodoPlacesNothing'
  BY <1>7 DEF TodoPlacesNothing
<1>. QED
  BY <1>1, <1>4, <1>8, <1>9 DEF VerdictInv

LEMMA VerdictInit == Init => VerdictInv
<1>1. Init => DOMAIN orders = {} /\ DOMAIN log = {}
  BY DEF Init
<1>2. Init => PlacedKeys(log) = {}
  BY <1>1 DEF PlacedKeys, RowsWith, RowsOf
<1>. QED
  BY <1>1, <1>2, InitType
  DEF Init, VerdictInv, OneBracketEver, TodoPlacesNothing, PlacementsName, RowsFounded

\* The bracket a placed candidate's log names is the only one it ever had.
LEMMA NamedBracket ==
  ASSUME VerdictInv, NEW k \in PlacedKeys(log)
  PROVE  /\ OrderOf(log, k) \in DOMAIN orders /\ orders[OrderOf(log, k)].key = k
         /\ \A b \in DOMAIN orders : orders[b].key = k => b = OrderOf(log, k)
BY DEF VerdictInv, PlacementsName, OneBracketEver

LEMMA VerdictsAreTrue == VerdictInv => SettledIsTrue
<1>. SUFFICES ASSUME VerdictInv, NEW k \in Keys, RowsOf(log, k) # {},
                     LatestRow(log, k).outcome = "reconciled"
              PROVE  /\ OrderOf(log, k) \in DOMAIN orders
                     /\ LatestRow(log, k).status = orders[OrderOf(log, k)].status
                     /\ LatestRow(log, k).filled = orders[OrderOf(log, k)].filled
  BY DEF SettledIsTrue
<1>1. /\ Last(RowsOf(log, k)) \in DOMAIN log
      /\ LatestRow(log, k) = log[Last(RowsOf(log, k))] /\ LatestRow(log, k).key = k
  BY LatestIsARow DEF VerdictInv, TypeInv, TypeOK
<1>2. k \in PlacedKeys(log) /\ Pays(LatestRow(log, k))
  BY <1>1 DEF VerdictInv, RowsFounded, Founded
<1>. QED
  BY <1>1, <1>2, NamedBracket DEF Pays

(***************************************************************************)
(* A verdict the pass wrote stays the venue's own verdict on the bracket   *)
(* of the candidate's latest placement, whatever crashes, refusals, second *)
(* approvals and other sessions come between reading it and writing it.    *)
(***************************************************************************)
THEOREM VerdictsStayTrue ==
  ASSUME Venue = "alpaca", "unnamed" \notin Faults
  PROVE  Spec => []SettledIsTrue
<1>1. VerdictInv /\ [Next]_vars => VerdictInv'
  BY VerdictStep
<1>. QED
  BY <1>1, VerdictInit, VerdictsAreTrue, PTL DEF Spec

-----------------------------------------------------------------------------
(* The venue's feed.  What a bracket has exited is what the feed prints    *)
(* against it, its entry prints come first, and none exits while it works. *)

Prints(feed, b, leg) == {i \in DOMAIN feed : feed[i].order = b /\ feed[i].leg = leg}
Exits(feed, b)       == {i \in DOMAIN feed : feed[i].order = b /\ feed[i].leg # "entry"}

EntriesFirst(feed) ==
  \A i, j \in DOMAIN feed :
    feed[i].order = feed[j].order /\ feed[i].leg = "entry" /\ feed[j].leg # "entry" => i < j

ExitsCount   == \A b \in DOMAIN orders : Cardinality(Exits(fills, b)) = orders[b].exited
NoneLeaves   == \A b \in DOMAIN orders : orders[b].status = "working" => orders[b].exited = 0
PrintsAreHeld == \A i \in DOMAIN fills : fills[i].order \in DOMAIN orders

FeedInv == EntriesFirst(fills) /\ ExitsCount /\ NoneLeaves /\ PrintsAreHeld

\* One print added to the feed.
LEMMA PrintAdded ==
  ASSUME fills \in Seq(Fill), NEW print \in Fill, fills' = Append(fills, print)
  PROVE  /\ Len(fills) \in Nat /\ DOMAIN fills = 1 .. Len(fills)
         /\ fills'[Len(fills) + 1] = print
         /\ \A i \in DOMAIN fills : fills'[i] = fills[i]
         /\ \A i : i \in DOMAIN fills' <=> i \in DOMAIN fills \/ i = Len(fills) + 1
         /\ print.leg # "entry" =>
              Exits(fills', print.order) = Exits(fills, print.order) \cup {Len(fills) + 1}
         /\ \A b : print.order # b \/ print.leg = "entry" => Exits(fills', b) = Exits(fills, b)
         /\ \A b, leg : print.order # b => Prints(fills', b, leg) = Prints(fills, b, leg)
<1>1. /\ Len(fills) \in Nat /\ DOMAIN fills = 1 .. Len(fills)
      /\ DOMAIN fills' = 1 .. Len(fills) + 1 /\ fills'[Len(fills) + 1] = print
      /\ \A i \in DOMAIN fills : fills'[i] = fills[i]
  BY AppendProperties, LenProperties
<1>2. \A i : i \in DOMAIN fills' <=> i \in DOMAIN fills \/ i = Len(fills) + 1
  BY <1>1
<1>3. print.leg # "entry" =>
        Exits(fills', print.order) = Exits(fills, print.order) \cup {Len(fills) + 1}
  BY <1>1, <1>2 DEF Exits
<1>4. ASSUME NEW b, print.order # b \/ print.leg = "entry"
      PROVE  Exits(fills', b) = Exits(fills, b)
  BY <1>1, <1>2, <1>4 DEF Exits
<1>5. ASSUME NEW b, NEW leg, print.order # b
      PROVE  Prints(fills', b, leg) = Prints(fills, b, leg)
  BY <1>1, <1>2, <1>5 DEF Prints
<1>. QED
  BY <1>1, <1>2, <1>3, <1>4, <1>5

\* A bracket's exits can be counted, and one more print counts one more.
LEMMA ExitsCounted ==
  ASSUME NEW feed \in Seq(Fill), NEW b
  PROVE  /\ Cardinality(Exits(feed, b)) \in Nat
         /\ Cardinality(Exits(feed, b)) = 0 <=> Exits(feed, b) = {}
         /\ Cardinality(Exits(feed, b) \cup {Len(feed) + 1}) = Cardinality(Exits(feed, b)) + 1
<1>1. Len(feed) \in Nat /\ DOMAIN feed = 1 .. Len(feed)
  BY LenProperties
<1>2. IsFiniteSet(1 .. Len(feed)) /\ Exits(feed, b) \in SUBSET (1 .. Len(feed))
  BY <1>1, FS_Interval DEF Exits
<1>3. IsFiniteSet(Exits(feed, b)) /\ Len(feed) + 1 \notin Exits(feed, b)
  BY <1>1, <1>2, FS_Subset
<1>. QED
  BY <1>3, FS_CardinalityType, FS_EmptySet, FS_AddElement

\* What each move of the venue prints.
LEMMA VenuePrints ==
  ASSUME TypeInv, NEW b \in DOMAIN orders,
         \/ FillEntry(b) \/ KillEntry(b) \/ LapseLegs(b) \/ ExitByHand(b)
         \/ \E leg \in {"target", "stop"} : ExitLeg(b, leg)
  PROVE  \E o \in Bracket :
           /\ orders' = [orders EXCEPT ![b] = o]
           /\ o.status = "working" => o.filled < Lot
           /\ o.key = orders[b].key
           /\ o.status = "working" => orders[b].status = "working"
           /\ \/ fills' = fills /\ o.exited = orders[b].exited
              \/ /\ fills' = Append(fills, [order |-> b, leg |-> "entry"])
                 /\ orders[b].status = "working" /\ o.exited = orders[b].exited
              \/ /\ \E leg \in Legs : fills' = Append(fills, [order |-> b, leg |-> leg])
                 /\ orders[b].status # "working" /\ HasOpenPosition(b)
                 /\ o.exited = orders[b].exited + 1
<1>1. /\ orders[b] \in Bracket /\ Lot \in Nat
      /\ orders[b].status = "working" => orders[b].filled < Lot
  BY ElementOfSeq, LenProperties, ConstantsAssumption DEF TypeInv, TypeOK, WorkingHasRoom
<1>2. CASE FillEntry(b)
  <2> DEFINE o == [orders[b] EXCEPT !.filled = @ + 1,
                     !.status = IF orders[b].filled + 1 = Lot THEN "filled" ELSE @]
  <2>1. o \in Bracket /\ (o.status = "working" => o.filled < Lot)
    BY <1>1, <1>2 DEF FillEntry, Bracket
  <2>2. /\ orders' = [orders EXCEPT ![b] = o] /\ orders[b].status = "working"
        /\ fills' = Append(fills, [order |-> b, leg |-> "entry"])
    BY <1>2 DEF FillEntry
  <2>3. o.key = orders[b].key /\ o.exited = orders[b].exited
    BY <1>1 DEF Bracket
  <2> HIDE DEF o
  <2>. QED
    BY <2>1, <2>2, <2>3
<1>3. CASE KillEntry(b) \/ LapseLegs(b)
  <2>1. PICK status \in {"canceled", orders[b].status} :
          orders' = [orders EXCEPT ![b].status = status, ![b].legs = "done"] /\ fills' = fills
    <3>1. CASE KillEntry(b)
      BY <3>1 DEF KillEntry
    <3>2. CASE LapseLegs(b)
      <4>1. orders' = [orders EXCEPT ![b].legs = "done"] /\ fills' = fills
        BY <3>2 DEF LapseLegs
      <4>2. [orders EXCEPT ![b].legs = "done"] =
              [orders EXCEPT ![b].status = orders[b].status, ![b].legs = "done"]
        BY <1>1 DEF Bracket
      <4>. QED
        BY <4>1, <4>2
    <3>. QED
      BY <1>3, <3>1, <3>2
  <2> DEFINE o == [orders[b] EXCEPT !.status = status, !.legs = "done"]
  <2>2. o \in Bracket /\ orders' = [orders EXCEPT ![b] = o]
    BY <1>1, <2>1 DEF Bracket
  <2>3. o.key = orders[b].key /\ o.exited = orders[b].exited /\ o.filled = orders[b].filled
        /\ (o.status = "working" => orders[b].status = "working")
    BY <1>1 DEF Bracket
  <2> HIDE DEF o
  <2>. QED
    BY <1>1, <2>1, <2>2, <2>3
<1>4. ASSUME NEW leg \in Legs, Exit(b, leg), orders[b].status # "working"
      PROVE  \E o \in Bracket :
               /\ orders' = [orders EXCEPT ![b] = o]
               /\ o.status # "working" /\ o.key = orders[b].key
               /\ fills' = Append(fills, [order |-> b, leg |-> leg])
               /\ HasOpenPosition(b) /\ o.exited = orders[b].exited + 1
  <2> DEFINE o == [orders[b] EXCEPT !.exited = @ + 1,
                     !.legs = IF orders[b].exited + 1 = orders[b].filled THEN "done" ELSE @]
  <2>1. o \in Bracket
    BY <1>1, <1>4 DEF Exit, Bracket
  <2>2. orders' = [orders EXCEPT ![b] = o]
    BY <1>4 DEF Exit
  <2>3. o.status # "working" /\ o.key = orders[b].key /\ o.exited = orders[b].exited + 1
    BY <1>1, <1>4 DEF Bracket
  <2>4. fills' = Append(fills, [order |-> b, leg |-> leg]) /\ HasOpenPosition(b)
    BY <1>4 DEF Exit, HasOpenPosition
  <2> HIDE DEF o
  <2>. QED
    BY <2>1, <2>2, <2>3, <2>4
<1>5. CASE ExitByHand(b)
  BY <1>4, <1>5 DEF ExitByHand, Legs
<1>6. CASE \E leg \in {"target", "stop"} : ExitLeg(b, leg)
  BY <1>4, <1>6 DEF ExitLeg, Legs
<1>. QED
  BY <1>2, <1>3, <1>5, <1>6

\* Only the venue prints, and it prints of brackets it holds.
LEMMA FeedSteps ==
  ASSUME TypeInv, [Next]_vars
  PROVE  \/ \E b \in DOMAIN orders :
              \/ FillEntry(b) \/ KillEntry(b) \/ LapseLegs(b) \/ ExitByHand(b)
              \/ \E leg \in {"target", "stop"} : ExitLeg(b, leg)
         \/ /\ fills' = fills
            /\ \/ orders' = orders
               \/ \E plan \in prompt, legs \in {"working", "done"} : Accept(plan, legs)
<1>1. CASE SessionStep
  BY <1>1
  DEF SessionStep, OpenSession, CloseSession, OfferRefused, OfferPlanned, Declined, Placed,
      Rejected, PartlyPlaced, Raised, KilledAfterPlace, Accept, venueVars
<1>2. CASE PassStep
  BY <1>2 DEF PassStep, BeginReconcile, WriteReconciliation, WriteClose, Write,
      BeginCloseOut, EndPass, CrashPass, venueVars
<1>3. CASE VenueStep \/ \E b \in DOMAIN orders : CancelResting(b)
  BY <1>3 DEF VenueStep, CancelResting
<1>. QED
  BY <1>1, <1>2, <1>3 DEF Next, vars

LEMMA FeedStep == TypeInv /\ FeedInv /\ [Next]_vars => FeedInv'
<1>. SUFFICES ASSUME TypeInv, FeedInv, [Next]_vars PROVE FeedInv'
  OBVIOUS
<1>1. /\ fills \in Seq(Fill) /\ DOMAIN orders = 1 .. Len(orders) /\ Len(orders) \in Nat
      /\ DOMAIN fills = 1 .. Len(fills) /\ Len(fills) \in Nat
  BY LenProperties DEF TypeInv, TypeOK
<1>2. ASSUME NEW b \in DOMAIN orders,
             \/ FillEntry(b) \/ KillEntry(b) \/ LapseLegs(b) \/ ExitByHand(b)
             \/ \E leg \in {"target", "stop"} : ExitLeg(b, leg)
      PROVE  FeedInv'
  <2>1. PICK o \in Bracket :
          /\ orders' = [orders EXCEPT ![b] = o]
          /\ o.status = "working" => o.filled < Lot
          /\ o.status = "working" => orders[b].status = "working"
          /\ \/ fills' = fills /\ o.exited = orders[b].exited
             \/ /\ fills' = Append(fills, [order |-> b, leg |-> "entry"])
                /\ orders[b].status = "working" /\ o.exited = orders[b].exited
             \/ /\ \E leg \in Legs : fills' = Append(fills, [order |-> b, leg |-> leg])
                /\ orders[b].status # "working"
                /\ o.exited = orders[b].exited + 1
    BY <1>2, VenuePrints
  <2>2. /\ DOMAIN orders' = DOMAIN orders
        /\ \A c \in DOMAIN orders : orders'[c] = IF c = b THEN o ELSE orders[c]
    BY <2>1, OneBracketChanged
  <2>3. CASE fills' = fills /\ o.exited = orders[b].exited
    BY <2>1, <2>2, <2>3 DEF FeedInv, ExitsCount, NoneLeaves, PrintsAreHeld
  <2>4. ASSUME NEW leg \in Legs \cup {"entry"},
               fills' = Append(fills, [order |-> b, leg |-> leg]),
               \/ leg = "entry" /\ orders[b].status = "working" /\ o.exited = orders[b].exited
               \/ leg # "entry" /\ orders[b].status # "working" /\ o.exited = orders[b].exited + 1
        PROVE  FeedInv'
    <3> DEFINE n == Len(fills) + 1
               print == [order |-> b, leg |-> leg]
    <3>1. print \in Fill /\ print.order = b /\ print.leg = leg /\ fills' = Append(fills, print)
      BY <1>1, <2>4 DEF Fill
    <3> HIDE DEF print
    <3>2. /\ fills'[n] = print
          /\ \A i \in DOMAIN fills : fills'[i] = fills[i]
          /\ \A i \in DOMAIN fills' : i \in DOMAIN fills \/ i = n
          /\ leg # "entry" => Exits(fills', b) = Exits(fills, b) \cup {n}
          /\ \A c : c # b \/ leg = "entry" => Exits(fills', c) = Exits(fills, c)
      BY <1>1, <3>1, PrintAdded
    <3>4. \A i \in DOMAIN fills : i < n
      BY <1>1
    <3>3. \/ leg = "entry" /\ orders[b].status = "working" /\ o.exited = orders[b].exited
          \/ leg # "entry" /\ orders[b].status # "working" /\ o.exited = orders[b].exited + 1
      BY <2>4
    <3>5. Cardinality(Exits(fills, b)) = orders[b].exited
      BY DEF FeedInv, ExitsCount
    <3>9. Cardinality(Exits(fills, b) \cup {n}) = orders[b].exited + 1
      BY <1>1, <3>5, ExitsCounted
    <3> HIDE DEF n
    <3>10. leg = "entry" => Exits(fills, b) = {}
      BY <1>1, <3>3, <3>5, ExitsCounted DEF FeedInv, NoneLeaves
    <3>6. EntriesFirst(fills')
      <4>. SUFFICES ASSUME NEW i \in DOMAIN fills', NEW j \in DOMAIN fills',
                           fills'[i].order = fills'[j].order,
                           fills'[i].leg = "entry", fills'[j].leg # "entry"
                    PROVE  i < j
        BY DEF EntriesFirst
      <4>1. CASE i \in DOMAIN fills /\ j \in DOMAIN fills
        BY <3>2, <4>1 DEF FeedInv, EntriesFirst
      <4>2. CASE i \in DOMAIN fills /\ j = n
        BY <3>4, <4>2
      <4>3. CASE i = n /\ j \in DOMAIN fills
        BY <3>1, <3>2, <3>10, <4>3 DEF Exits
      <4>4. CASE i = n /\ j = n
        BY <4>4
      <4>. QED
        BY <3>2, <4>1, <4>2, <4>3, <4>4
    <3>7. PrintsAreHeld'
      BY <2>2, <3>1, <3>2 DEF FeedInv, PrintsAreHeld
    <3>8. Cardinality(Exits(fills', b)) = o.exited
      BY <3>2, <3>3, <3>5, <3>9
    <3>11. ExitsCount'
      BY <2>2, <3>2, <3>8 DEF FeedInv, ExitsCount
    <3>12. NoneLeaves'
      BY <2>1, <2>2, <3>3 DEF FeedInv, NoneLeaves
    <3>. QED
      BY <3>6, <3>7, <3>11, <3>12 DEF FeedInv
  <2>. QED
    BY <2>1, <2>3, <2>4 DEF Legs
<1>3. ASSUME NEW plan \in prompt, NEW legs \in {"working", "done"}, Accept(plan, legs)
      PROVE  FeedInv'
  <2> DEFINE n == Len(orders) + 1
  <2>1. plan \in Plan
    BY DEF TypeInv, TypeOK
  <2>2. /\ fills' = fills /\ DOMAIN orders' = 1 .. n
        /\ \A b \in DOMAIN orders : orders'[b] = orders[b]
        /\ orders'[n] = NewBracket(plan, legs)
    BY <1>3, <2>1, AcceptType
  <2>3. NewBracket(plan, legs).exited = 0 /\ n \notin DOMAIN orders
    BY <1>1 DEF NewBracket
  <2>4. Exits(fills, n) = {}
    BY <2>3 DEF Exits, FeedInv, PrintsAreHeld
  <2>5. \A b \in DOMAIN orders' : b \in DOMAIN orders \/ b = n
    BY <1>1, <2>2
  <2>6. \A b \in DOMAIN orders : b \in DOMAIN orders'
    BY <1>1, <2>2
  <2> HIDE DEF n
  <2>. QED
    BY <2>2, <2>3, <2>4, <2>5, <2>6, FS_EmptySet
    DEF FeedInv, ExitsCount, NoneLeaves, PrintsAreHeld
<1>4. CASE UNCHANGED <<orders, fills>>
  BY <1>4 DEF FeedInv, ExitsCount, NoneLeaves, PrintsAreHeld
<1>. QED
  BY <1>2, <1>3, <1>4, FeedSteps

\* A bracket that has settled with nothing open prints no more.
LEMMA FlatIsStill ==
  ASSUME TypeInv, [Next]_vars, NEW b \in DOMAIN orders, settled(b), ~HasOpenPosition(b)
  PROVE  /\ b \in DOMAIN orders' /\ orders'[b].key = orders[b].key
         /\ orders'[b].status # "working" /\ ~(orders'[b].exited < orders'[b].filled)
         /\ \A leg : Prints(fills', b, leg) = Prints(fills, b, leg)
<1>1. /\ b \in DOMAIN orders' /\ orders'[b].key = orders[b].key
      /\ orders'[b].status = orders[b].status /\ orders'[b].filled = orders[b].filled
  BY BracketsLast
<1>2. orders'[b].exited = orders[b].exited /\ \A leg : Prints(fills', b, leg) = Prints(fills, b, leg)
  <2>1. ASSUME NEW c \in DOMAIN orders,
               \/ FillEntry(c) \/ KillEntry(c) \/ LapseLegs(c) \/ ExitByHand(c)
               \/ \E leg \in {"target", "stop"} : ExitLeg(c, leg)
        PROVE  orders'[b].exited = orders[b].exited
               /\ \A leg : Prints(fills', b, leg) = Prints(fills, b, leg)
    <3>1. PICK o \in Bracket :
            /\ orders' = [orders EXCEPT ![c] = o]
            /\ o.status = "working" => o.filled < Lot
            /\ \/ fills' = fills /\ o.exited = orders[c].exited
               \/ /\ fills' = Append(fills, [order |-> c, leg |-> "entry"])
                  /\ orders[c].status = "working"
               \/ /\ \E leg \in Legs : fills' = Append(fills, [order |-> c, leg |-> leg])
                  /\ HasOpenPosition(c)
      BY <2>1, VenuePrints
    <3>2. \A d \in DOMAIN orders : orders'[d] = IF d = c THEN o ELSE orders[d]
      BY <3>1, OneBracketChanged
    <3>4. ASSUME NEW leg \in Legs \cup {"entry"}, c # b,
                 fills' = Append(fills, [order |-> c, leg |-> leg])
          PROVE  \A g : Prints(fills', b, g) = Prints(fills, b, g)
      <4>1. [order |-> c, leg |-> leg] \in Fill /\ fills \in Seq(Fill)
        BY LenProperties DEF TypeInv, TypeOK, Fill
      <4>2. [order |-> c, leg |-> leg].order # b
        BY <3>4
      <4>3. PICK print \in Fill : print.order # b /\ fills' = Append(fills, print)
        BY <3>4, <4>1, <4>2
      <4>. QED
        BY <4>1, <4>3, PrintAdded
    <3>5. c = b => fills' = fills /\ o.exited = orders[c].exited
      BY <3>1 DEF settled
    <3>6. fills' = fills \/ \E leg \in Legs \cup {"entry"} :
                             fills' = Append(fills, [order |-> c, leg |-> leg])
      BY <3>1
    <3>7. \A g : Prints(fills', b, g) = Prints(fills, b, g)
      BY <3>4, <3>5, <3>6
    <3>. QED
      BY <3>2, <3>5, <3>7
  <2>2. ASSUME NEW plan \in prompt, NEW legs \in {"working", "done"}, Accept(plan, legs)
        PROVE  orders'[b] = orders[b]
    BY <2>2, AcceptType DEF TypeInv, TypeOK
  <2>. QED
    BY <2>1, <2>2, FeedSteps
<1>. QED
  BY <1>1, <1>2 DEF settled, HasOpenPosition

-----------------------------------------------------------------------------
(* Closes.  A close is decided on when a pass reads the feed and written   *)
(* some steps later, so what it says must be of a bracket that trades no   *)
(* more.  No exit is closed twice because a candidate that has a close     *)
(* waits for neither a verdict nor an exit: its close is its last word.    *)

\* No two candidates share an instrument.
OwnSymbol == \A j, k \in Keys : SymbolOf[j] = SymbolOf[k] => j = k

Counted(row) ==
  row.outcome = "closed" =>
    /\ row.order \in DOMAIN orders /\ orders[row.order].key = row.key
    /\ settled(row.order) /\ ~HasOpenPosition(row.order)
    /\ row.filled = Cardinality(Prints(fills, row.order, row.leg))

ClosesCounted ==
  /\ \A i \in DOMAIN log : Counted(log[i])
  /\ \A row \in todo : Counted(row)

Before(first, then) ==
  \A i, j \in DOMAIN log :
    log[i].key = log[j].key /\ log[i].outcome = first /\ log[j].outcome = then => i < j

SameExit(r, s) ==
  r.outcome = "closed" /\ s.outcome = "closed" /\ r.order = s.order /\ r.leg = s.leg

OnceOnly ==
  /\ \A i, j \in DOMAIN log : SameExit(log[i], log[j]) => i = j
  /\ \A r, s \in todo : SameExit(r, s) => r = s
  /\ \A r \in todo, i \in DOMAIN log : ~SameExit(r, log[i])

\* A pass decides on verdicts or on closes, and on no verdict after a close.
OneKind ==
  /\ \A r, s \in todo : r.outcome = s.outcome
  /\ \A r \in todo, i \in DOMAIN log :
       r.outcome = "reconciled" /\ log[i].key = r.key => log[i].outcome # "closed"

CloseInv ==
  /\ VerdictInv /\ FeedInv /\ ClosesCounted /\ OnceOnly /\ OneKind
  /\ Before("placed", "closed") /\ Before("reconciled", "closed")

\* The prints a pass takes for the candidate's exits are all of its own
\* bracket's exits, and no other's.
LEMMA ExitsAreItsOwn ==
  ASSUME OwnSymbol, VerdictInv, FeedInv, NEW k \in PlacedKeys(log),
         EntryPrints(OrderOf(log, k)) # {}
  PROVE  ExitFills(k, OrderOf(log, k)) = Exits(fills, OrderOf(log, k))
<1> DEFINE b == OrderOf(log, k)
<1>1. b \in DOMAIN orders /\ orders[b].key = k /\ \A c \in DOMAIN orders : orders[c].key = k => c = b
  BY NamedBracket
<1>2. DOMAIN fills = 1 .. Len(fills) /\ Len(fills) \in Nat /\ k \in Keys
  BY LenProperties DEF VerdictInv, TypeInv, TypeOK, PlacedKeys
<1>3. EntryEnd(b) \in EntryPrints(b)
  <2>1. EntryPrints(b) \in SUBSET (1 .. Len(fills))
    BY <1>2 DEF EntryPrints
  <2>. QED
    BY <1>2, <2>1, LastIsLargest DEF EntryEnd
<1>4. \A c \in DOMAIN orders : orders[c].key \in Keys
  <2>1. \A c \in DOMAIN orders : orders[c] \in Bracket
    BY ElementOfSeq, LenProperties DEF VerdictInv, TypeInv, TypeOK
  <2>. QED
    BY <2>1 DEF Bracket
<1> HIDE DEF b
<1>5. ASSUME NEW i \in ExitFills(k, b) PROVE i \in Exits(fills, b)
  <2>1. /\ i \in DOMAIN fills /\ IsExitSide(i, k)
        /\ SymbolOf[orders[fills[i].order].key] = SymbolOf[k]
    BY DEF ExitFills
  <2>2. fills[i].order \in DOMAIN orders
    BY <2>1 DEF FeedInv, PrintsAreHeld
  <2>3. orders[fills[i].order].key = k
    BY <1>2, <1>4, <2>1, <2>2 DEF OwnSymbol
  <2>4. fills[i].leg # "entry"
    BY <2>1, <2>3 DEF IsExitSide
  <2>. QED
    BY <1>1, <2>1, <2>2, <2>3, <2>4 DEF Exits
<1>6. ASSUME NEW i \in Exits(fills, b) PROVE i \in ExitFills(k, b)
  <2>1. i \in DOMAIN fills /\ fills[i].order = b /\ fills[i].leg # "entry"
    BY DEF Exits
  <2>2. EntryEnd(b) < i
    BY <1>3, <2>1 DEF EntryPrints, FeedInv, EntriesFirst
  <2>3. i > EntryEnd(b)
    BY <1>2, <1>3, <2>1, <2>2 DEF EntryPrints
  <2>4. IsExitSide(i, k)
    BY <1>1, <2>1 DEF IsExitSide
  <2>. QED
    BY <1>1, <2>1, <2>3, <2>4 DEF ExitFills
<1>7. ExitFills(k, b) = Exits(fills, b)
  BY <1>5, <1>6
<1>. QED
  BY <1>7 DEF b

\* A candidate waiting for its exit has the venue's fill as its latest verdict.
LEMMA AwaitingIsHeld ==
  ASSUME VerdictInv, NEW k \in AwaitingExitKeys(log)
  PROVE  /\ k \in Keys /\ RowsOf(log, k) # {} /\ LatestRow(log, k).outcome = "reconciled"
         /\ settled(OrderOf(log, k))
         /\ LatestWith(log, k, "reconciled").filled = orders[OrderOf(log, k)].filled
<1>1. /\ k \in Keys /\ RowsOf(log, k) # {} /\ log \in Seq(Row)
      /\ LatestRow(log, k).outcome = "reconciled" /\ LatestRow(log, k).status = "filled"
  BY DEF AwaitingExitKeys, HasFilled, VerdictInv, TypeInv, TypeOK
<1>2. /\ LatestRow(log, k).status = orders[OrderOf(log, k)].status
      /\ LatestRow(log, k).filled = orders[OrderOf(log, k)].filled
  BY <1>1, VerdictsAreTrue DEF SettledIsTrue
<1>3. LatestWith(log, k, "reconciled") = LatestRow(log, k)
  <2> DEFINE S == RowsWith(log, k, "reconciled")
             l == Last(RowsOf(log, k))
  <2>1. l \in DOMAIN log /\ LatestRow(log, k) = log[l] /\ LatestRow(log, k).key = k
        /\ \A i \in DOMAIN log : log[i].key = k => i <= l
    BY <1>1, LatestIsARow
  <2>2. Len(log) \in Nat /\ S \in SUBSET (1 .. Len(log)) /\ DOMAIN log = 1 .. Len(log)
    BY <1>1, RowsInLog, LenProperties
  <2>3. l \in S
    BY <1>1, <2>1 DEF RowsWith, RowsOf
  <2>4. Last(S) \in S /\ l <= Last(S)
    BY <2>2, <2>3, LastIsLargest
  <2>5. Last(S) <= l
    BY <2>1, <2>4 DEF RowsWith, RowsOf
  <2>6. Last(S) = l
    BY <2>1, <2>2, <2>4, <2>5
  <2>. QED
    BY <2>1, <2>6 DEF LatestWith
<1>. QED
  BY <1>1, <1>2, <1>3 DEF settled

\* The reason on a close follows from the exit order it names.
Reason(b, leg) ==
  IF b \notin Named THEN "unknown" ELSE IF leg \in {"target", "stop"} THEN leg ELSE "manual"

\* What a pass decides to close: exits of a candidate's own bracket, flat, each
\* exit order once and with all it traded.
LEMMA NewCloses ==
  ASSUME OwnSymbol, VerdictInv, FeedInv,
         NEW k \in AwaitingExitKeys(log), NEW row \in Closes(k)
  PROVE  /\ row.outcome = "closed" /\ row.key = k /\ Counted(row)
         /\ row = CloseRow(k, row.order, row.leg, row.filled, Reason(row.order, row.leg))
<1> DEFINE b == OrderOf(log, k)
           exits == ExitFills(k, b)
<1>1. k \in Keys /\ settled(b) /\ LatestWith(log, k, "reconciled").filled = orders[b].filled
  BY AwaitingIsHeld
<1>2. k \in PlacedKeys(log)
  BY WaitingWasPlaced
<1>3. b \in DOMAIN orders /\ orders[b].key = k
  BY <1>2, NamedBracket
<1>4. /\ EntryPrints(b) # {} /\ Cardinality(exits) >= orders[b].filled
      /\ \E i \in exits : row = CloseRow(k, fills[i].order, fills[i].leg,
                                      Cardinality({j \in exits : fills[j] = fills[i]}),
                                      ExitReason(b, i))
  BY <1>1 DEF Closes, IsFlat
<1>5. exits = Exits(fills, b)
  BY <1>2, <1>4, ExitsAreItsOwn
<1>6. PICK i \in exits : row = CloseRow(k, fills[i].order, fills[i].leg,
                                       Cardinality({j \in exits : fills[j] = fills[i]}),
                                       ExitReason(b, i))
  BY <1>4
<1>7. i \in DOMAIN fills /\ fills[i].order = b /\ fills[i].leg # "entry"
  BY <1>5, <1>6 DEF Exits
<1>8. {j \in exits : fills[j] = fills[i]} = Prints(fills, b, fills[i].leg)
  <2>1. \A j \in DOMAIN fills : fills[j] \in Fill
    BY ElementOfSeq, LenProperties DEF VerdictInv, TypeInv, TypeOK
  <2>2. ASSUME NEW j \in DOMAIN fills
        PROVE  fills[j] = fills[i] <=> fills[j].order = b /\ fills[j].leg = fills[i].leg
    BY <1>7, <2>1 DEF Fill
  <2> HIDE DEF exits, b
  <2>. QED
    BY <1>5, <1>7, <2>2 DEF Exits, Prints
<1>9. ~HasOpenPosition(b)
  <2>1. Cardinality(exits) = orders[b].exited
    BY <1>3, <1>5 DEF FeedInv, ExitsCount
  <2>2. orders[b] \in Bracket
    BY <1>3, ElementOfSeq, LenProperties DEF VerdictInv, TypeInv, TypeOK
  <2>3. orders[b].exited \in Nat /\ orders[b].filled \in Nat
    BY <2>2, ConstantsAssumption DEF Bracket
  <2> HIDE DEF exits, b
  <2>. QED
    BY <1>4, <2>1, <2>3 DEF HasOpenPosition
<1>10. /\ row.outcome = "closed" /\ row.key = k /\ row.order = b /\ row.leg = fills[i].leg
       /\ row.filled = Cardinality(Prints(fills, b, fills[i].leg))
  <2> HIDE DEF exits, b
  <2>. QED
    BY <1>6, <1>7, <1>8 DEF CloseRow, BlankRow
<1>11. row = CloseRow(k, row.order, row.leg, row.filled, Reason(row.order, row.leg))
  <2>1. ExitReason(b, i) = Reason(b, fills[i].leg)
    BY <1>7 DEF ExitReason, OwnLeg, Reason
  <2> HIDE DEF exits, b
  <2>. QED
    BY <1>6, <1>7, <1>8, <1>10, <2>1
<1> HIDE DEF exits, b
<1>. QED
  BY <1>1, <1>3, <1>9, <1>10, <1>11 DEF Counted

\* A count that was whole stays whole, because a flat bracket is still.
LEMMA CountsStand ==
  ASSUME TypeInv, [Next]_vars, NEW row, Counted(row), row.outcome = "closed"
  PROVE  /\ row.order \in DOMAIN orders' /\ orders'[row.order].key = row.key
         /\ orders'[row.order].status # "working"
         /\ ~(orders'[row.order].exited < orders'[row.order].filled)
         /\ row.filled = Cardinality(Prints(fills', row.order, row.leg))
<1>1. /\ row.order \in DOMAIN orders /\ orders[row.order].key = row.key
      /\ settled(row.order) /\ ~HasOpenPosition(row.order)
      /\ row.filled = Cardinality(Prints(fills, row.order, row.leg))
  BY DEF Counted
<1> DEFINE b == row.order
<1>2. b \in DOMAIN orders /\ settled(b) /\ ~HasOpenPosition(b)
  BY <1>1
<1> HIDE DEF b
<1>3. /\ b \in DOMAIN orders' /\ orders'[b].key = orders[b].key
      /\ orders'[b].status # "working" /\ ~(orders'[b].exited < orders'[b].filled)
      /\ \A leg : Prints(fills', b, leg) = Prints(fills, b, leg)
  BY <1>2, FlatIsStill
<1>. QED
  BY <1>1, <1>3 DEF b

\* A candidate that waits for a verdict or an exit has no close.
LEMMA WaitingHasNoClose ==
  ASSUME CloseInv, NEW k \in UnsettledKeys(log) \cup AwaitingExitKeys(log),
         NEW i \in DOMAIN log, log[i].key = k
  PROVE  log[i].outcome # "closed"
<1>1. log \in Seq(Row) /\ RowsOf(log, k) # {} /\ LatestRow(log, k).outcome \in {"placed", "reconciled"}
  BY DEF CloseInv, VerdictInv, TypeInv, TypeOK, UnsettledKeys, AwaitingExitKeys, HasFilled
<1>2. /\ Last(RowsOf(log, k)) \in DOMAIN log /\ LatestRow(log, k) = log[Last(RowsOf(log, k))]
      /\ LatestRow(log, k).key = k /\ i <= Last(RowsOf(log, k))
  BY <1>1, LatestIsARow
<1>3. i \in Nat /\ Last(RowsOf(log, k)) \in Nat
  BY <1>1, <1>2, LenProperties
<1>. QED
  BY <1>1, <1>2, <1>3 DEF CloseInv, Before

\* A placement goes to a candidate with no verdict and no close: either would
\* make it one the venue already holds a bracket of.
LEMMA PlacedIsFresh ==
  ASSUME VerdictInv, NEW row, \A b \in DOMAIN orders : orders[b].key # row.key,
         NEW i \in DOMAIN log, log[i].key = row.key
  PROVE  log[i].outcome \notin {"reconciled", "closed"}
<1>1. row.key \notin PlacedKeys(log)
  BY NamedBracket
<1>. QED
  BY <1>1 DEF VerdictInv, RowsFounded, Founded

\* The order a candidate's rows come in survives a row that does not break it.
LEMMA BeforeLasts ==
  ASSUME log \in Seq(Row), NEW row \in Row, log' = Append(log, row),
         NEW first, NEW then, first # then, Before(first, then),
         row.outcome = first => \A i \in DOMAIN log : log[i].key = row.key => log[i].outcome # then
  PROVE  Before(first, then)'
<1>1. /\ Len(log) \in Nat /\ DOMAIN log = 1 .. Len(log)
      /\ \A i \in DOMAIN log : log'[i] = log[i]
      /\ \A i \in DOMAIN log' : i \in DOMAIN log \/ i = Len(log) + 1
      /\ log'[Len(log) + 1] = row
  BY AppendedRows
<1>. SUFFICES ASSUME NEW i \in DOMAIN log', NEW j \in DOMAIN log', log'[i].key = log'[j].key,
                     log'[i].outcome = first, log'[j].outcome = then
              PROVE  i < j
  BY DEF Before
<1>2. CASE i \in DOMAIN log /\ j \in DOMAIN log
  BY <1>1, <1>2 DEF Before
<1>3. CASE i \in DOMAIN log /\ j = Len(log) + 1
  BY <1>1, <1>3
<1>4. CASE i = Len(log) + 1 /\ j \in DOMAIN log
  BY <1>1, <1>4
<1>5. CASE i = Len(log) + 1 /\ j = Len(log) + 1
  BY <1>5
<1>. QED
  BY <1>1, <1>2, <1>3, <1>4, <1>5

\* Where the rows of the next log and the next list come from, and why no exit
\* is then counted twice.
LEMMA OnceOnlyStep ==
  ASSUME OwnSymbol, Venue = "alpaca", "unnamed" \notin Faults, CloseInv, [Next]_vars
  PROVE  OnceOnly' /\ OneKind' /\ Before("placed", "closed")' /\ Before("reconciled", "closed")'
<1>1. TypeInv /\ VerdictInv /\ log \in Seq(Row) /\ todo \subseteq Row /\ OnceOnly /\ OneKind
      /\ Before("placed", "closed") /\ Before("reconciled", "closed")
  BY DEF CloseInv, VerdictInv, TypeInv, TypeOK
<1>2. CASE log' = log /\ todo' \subseteq todo
  BY <1>1, <1>2 DEF OnceOnly, OneKind, Before
<1>3. ASSUME NEW readable \in SUBSET UnsettledKeys(log), BeginReconcile(readable), log' = log
      PROVE  OnceOnly' /\ OneKind' /\ Before("placed", "closed")' /\ Before("reconciled", "closed")'
  <2>1. \A row \in todo' : row.outcome = "reconciled" /\ row.key \in UnsettledKeys(log)
    BY <1>1, <1>3, ReconcileReads
  <2>2. OneKind'
    BY <1>3, <2>1, WaitingHasNoClose DEF OneKind
  <2>3. OnceOnly'
    BY <1>1, <1>3, <2>1 DEF OnceOnly, SameExit
  <2>. QED
    BY <1>1, <1>3, <2>2, <2>3 DEF Before
<1>4. ASSUME NEW answered \in BOOLEAN, BeginCloseOut(answered), log' = log
      PROVE  OnceOnly' /\ OneKind' /\ Before("placed", "closed")' /\ Before("reconciled", "closed")'
  <2>1. \A row \in todo' : /\ row.outcome = "closed" /\ row.key \in AwaitingExitKeys(log)
                           /\ Counted(row)
                           /\ row = CloseRow(row.key, row.order, row.leg, row.filled,
                                            Reason(row.order, row.leg))
    <3>. TAKE row \in todo'
    <3>1. PICK k \in AwaitingExitKeys(log) : row \in Closes(k)
      BY <1>4, CloseOutReads
    <3>. QED
      BY <1>1, <3>1, NewCloses DEF CloseInv
  <2>2. ASSUME NEW r \in todo', NEW s \in todo', SameExit(r, s) PROVE r = s
    <3>1. r.order = s.order /\ r.leg = s.leg
      BY <2>2 DEF SameExit
    <3>2. r.key = s.key /\ r.filled = s.filled
      BY <2>1, <3>1 DEF Counted
    <3>3. /\ r = CloseRow(r.key, r.order, r.leg, r.filled, Reason(r.order, r.leg))
          /\ s = CloseRow(s.key, s.order, s.leg, s.filled, Reason(s.order, s.leg))
      BY <2>1
    <3>. QED
      BY <3>1, <3>2, <3>3
  <2>3. ASSUME NEW r \in todo', NEW i \in DOMAIN log, SameExit(r, log[i]) PROVE FALSE
    <3>1. /\ r.order = log[i].order /\ log[i].outcome = "closed"
          /\ r.outcome = "closed" /\ r.key \in AwaitingExitKeys(log) /\ Counted(r)
      BY <2>1, <2>3 DEF SameExit
    <3>2. Counted(log[i])
      BY DEF CloseInv, ClosesCounted
    <3>3. log[i].key = r.key
      BY <3>1, <3>2 DEF Counted
    <3>. QED
      BY <3>1, <3>3, WaitingHasNoClose
  <2>4. OnceOnly'
    BY <1>1, <1>4, <2>2, <2>3 DEF OnceOnly
  <2>5. OneKind'
    BY <2>1 DEF OneKind
  <2>. QED
    BY <1>1, <1>4, <2>4, <2>5 DEF Before
<1>5. ASSUME NEW row \in Row, log' = Append(log, row), todo' \subseteq todo,
             row.outcome = "closed" => todo' \subseteq todo \ {row} /\ row \in todo,
             row.outcome = "reconciled" => row \in todo,
             row.outcome = "placed" => \A b \in DOMAIN orders : orders[b].key # row.key
      PROVE  OnceOnly' /\ OneKind' /\ Before("placed", "closed")' /\ Before("reconciled", "closed")'
  <2>1. /\ \A i \in DOMAIN log : i \in DOMAIN log' /\ log'[i] = log[i]
        /\ \A i \in DOMAIN log' : i \in DOMAIN log \/ i = Len(log) + 1
        /\ log'[Len(log) + 1] = row
    BY <1>1, <1>5, AppendedRows
  <2>2. Before("placed", "closed")'
    <3>1. row.outcome = "placed" =>
            \A i \in DOMAIN log : log[i].key = row.key => log[i].outcome # "closed"
      BY <1>1, <1>5, PlacedIsFresh
    <3>. QED
      BY <1>1, <1>5, <3>1, BeforeLasts
  <2>3. Before("reconciled", "closed")'
    <3>1. row.outcome = "reconciled" =>
            \A i \in DOMAIN log : log[i].key = row.key => log[i].outcome # "closed"
      BY <1>1, <1>5 DEF OneKind
    <3>. QED
      BY <1>1, <1>5, <3>1, BeforeLasts
  <2>4. OneKind'
    <3>. SUFFICES ASSUME NEW r \in todo', NEW i \in DOMAIN log', r.outcome = "reconciled",
                         log'[i].key = r.key, log'[i].outcome = "closed"
                  PROVE  FALSE
      BY <1>1, <1>5 DEF OneKind
    <3>1. r \in todo
      BY <1>5
    <3>2. i = Len(log) + 1 /\ row.outcome = "closed"
      BY <1>1, <2>1, <3>1 DEF OneKind
    <3>. QED
      BY <1>1, <1>5, <3>1, <3>2 DEF OneKind
  <2>5. OnceOnly'
    <3>1. ASSUME NEW i \in DOMAIN log, SameExit(row, log[i]) PROVE FALSE
      BY <1>1, <1>5, <3>1 DEF OnceOnly, SameExit
    <3>2. ASSUME NEW i \in DOMAIN log, SameExit(log[i], row) PROVE FALSE
      BY <3>1, <3>2 DEF SameExit
    <3>3. ASSUME NEW i \in DOMAIN log', NEW j \in DOMAIN log', SameExit(log'[i], log'[j]) PROVE i = j
      <4>1. CASE i \in DOMAIN log /\ j \in DOMAIN log
        BY <1>1, <2>1, <3>3, <4>1 DEF OnceOnly
      <4>2. CASE i = Len(log) + 1 /\ j = Len(log) + 1
        BY <4>2
      <4>. QED
        BY <2>1, <3>1, <3>2, <3>3, <4>1, <4>2
    <3>4. ASSUME NEW r \in todo', NEW i \in DOMAIN log', SameExit(r, log'[i]) PROVE FALSE
      <4>1. CASE i \in DOMAIN log
        BY <1>1, <1>5, <2>1, <3>4, <4>1 DEF OnceOnly
      <4>2. CASE i = Len(log) + 1
        <5>1. SameExit(r, row) /\ row.outcome = "closed"
          BY <2>1, <3>4, <4>2 DEF SameExit
        <5>2. r \in todo /\ r # row /\ row \in todo
          BY <1>5, <5>1
        <5>. QED
          BY <1>1, <5>1, <5>2 DEF OnceOnly
      <4>. QED
        BY <2>1, <4>1, <4>2
    <3>. QED
      BY <1>1, <1>5, <3>3, <3>4 DEF OnceOnly
  <2>. QED
    BY <2>2, <2>3, <2>4, <2>5
<1>6. CASE todo' \subseteq todo
  <2>1. ASSUME NEW row \in Row, log' = Append(log, row), row.outcome \in {"refused", "failed"}
        PROVE  OnceOnly' /\ OneKind' /\ Before("placed", "closed")' /\ Before("reconciled", "closed")'
    BY <1>5, <1>6, <2>1
  <2>2. ASSUME NEW row \in Row, log' = Append(log, row), row.outcome = "placed",
               \A b \in DOMAIN orders : orders[b].key # row.key
        PROVE  OnceOnly' /\ OneKind' /\ Before("placed", "closed")' /\ Before("reconciled", "closed")'
    BY <1>5, <1>6, <2>2
  <2>3. ASSUME NEW row \in todo, log' = Append(log, row), todo' = todo \ {row}
        PROVE  OnceOnly' /\ OneKind' /\ Before("placed", "closed")' /\ Before("reconciled", "closed")'
    <3>1. row \in Row /\ row.outcome # "placed"
      BY <1>1 DEF VerdictInv, TodoPlacesNothing
    <3>. QED
      BY <1>5, <2>3, <3>1
  <2>. QED
    BY <1>1, <1>2, <1>6, <2>1, <2>2, <2>3, LogSteps, PlacedNamesItsBracket
<1>. QED
  BY <1>3, <1>4, <1>6, TodoSteps

LEMMA CloseStep ==
  ASSUME OwnSymbol, Venue = "alpaca", "unnamed" \notin Faults
  PROVE  CloseInv /\ [Next]_vars => CloseInv'
<1>. SUFFICES ASSUME CloseInv, [Next]_vars PROVE CloseInv'
  OBVIOUS
<1>1. TypeInv /\ VerdictInv /\ FeedInv /\ VerdictInv' /\ FeedInv'
  BY VerdictStep, FeedStep DEF CloseInv, VerdictInv
<1> DEFINE Stands(row) ==
             row.outcome = "closed" =>
               /\ row.order \in DOMAIN orders' /\ orders'[row.order].key = row.key
               /\ orders'[row.order].status # "working"
               /\ ~(orders'[row.order].exited < orders'[row.order].filled)
               /\ row.filled = Cardinality(Prints(fills', row.order, row.leg))
<1>2. ASSUME NEW row, Counted(row) PROVE Stands(row)
  BY <1>1, <1>2, CountsStand
<1>3. ASSUME NEW i \in DOMAIN log' PROVE Stands(log'[i])
  <2>1. /\ \A j \in DOMAIN log : Stands(log[j])
        /\ \A row \in todo : Stands(row)
    BY <1>2 DEF CloseInv, ClosesCounted
  <2>2. log'[i].outcome \in {"refused", "failed", "placed"} => Stands(log'[i])
    OBVIOUS
  <2> HIDE DEF Stands
  <2>. QED
    BY <1>1, <2>1, <2>2, RowsComeFrom
<1>4. ASSUME NEW row \in todo' PROVE Stands(row)
  <2>1. CASE todo' \subseteq todo
    <3>1. Counted(row)
      BY <1>4, <2>1 DEF CloseInv, ClosesCounted
    <3>. QED
      BY <1>2, <3>1
  <2>2. ASSUME NEW readable \in SUBSET UnsettledKeys(log), BeginReconcile(readable)
        PROVE  Stands(row)
    <3>1. row.outcome = "reconciled"
      BY <1>1, <1>4, <2>2, ReconcileReads
    <3>. QED
      BY <3>1
  <2>3. ASSUME NEW answered \in BOOLEAN, BeginCloseOut(answered) PROVE Stands(row)
    <3>1. \E k \in AwaitingExitKeys(log) : row \in Closes(k)
      BY <1>4, <2>3, CloseOutReads
    <3>2. Counted(row)
      BY <1>1, <3>1, NewCloses
    <3>. QED
      BY <1>2, <3>2
  <2> HIDE DEF Stands
  <2>. QED
    BY <2>1, <2>2, <2>3, TodoSteps
<1>5. ClosesCounted'
  BY <1>3, <1>4 DEF ClosesCounted, Counted, settled, HasOpenPosition
<1>. QED
  BY <1>1, <1>5, OnceOnlyStep DEF CloseInv

LEMMA CloseInit == Init => CloseInv
<1>. SUFFICES ASSUME Init PROVE CloseInv
  OBVIOUS
<1>1. DOMAIN orders = {} /\ DOMAIN log = {} /\ DOMAIN fills = {} /\ todo = {}
  BY DEF Init
<1>2. FeedInv
  BY <1>1 DEF FeedInv, EntriesFirst, ExitsCount, NoneLeaves, PrintsAreHeld
<1>3. ClosesCounted /\ OnceOnly /\ OneKind /\ Before("placed", "closed") /\ Before("reconciled", "closed")
  BY <1>1 DEF ClosesCounted, OnceOnly, OneKind, Before
<1>. QED
  BY <1>2, <1>3, VerdictInit DEF CloseInv

LEMMA ClosesAreTrue == CloseInv => ClosedIsFlat /\ ClosesMatchFeed
<1>. SUFFICES ASSUME CloseInv PROVE ClosedIsFlat /\ ClosesMatchFeed
  OBVIOUS
<1>1. \A i \in DOMAIN log : Counted(log[i])
  BY DEF CloseInv, ClosesCounted
<1>3. ASSUME NEW k \in Keys, RowsOf(log, k) # {}, LatestRow(log, k).outcome = "closed"
      PROVE  ~HasOpenPosition(OrderOf(log, k))
  <2>1. /\ Last(RowsOf(log, k)) \in DOMAIN log
        /\ LatestRow(log, k) = log[Last(RowsOf(log, k))] /\ LatestRow(log, k).key = k
    BY <1>3, LatestIsARow DEF CloseInv, VerdictInv, TypeInv, TypeOK
  <2>2. k \in PlacedKeys(log)
    BY <1>3, <2>1 DEF CloseInv, VerdictInv, RowsFounded, Founded
  <2>3. /\ LatestRow(log, k).order \in DOMAIN orders
        /\ orders[LatestRow(log, k).order].key = k /\ ~HasOpenPosition(LatestRow(log, k).order)
    BY <1>1, <1>3, <2>1 DEF Counted
  <2>4. LatestRow(log, k).order = OrderOf(log, k)
    BY <2>2, <2>3, NamedBracket DEF CloseInv
  <2>. QED
    BY <2>3, <2>4
<1>4. ClosedIsFlat
  BY <1>3 DEF ClosedIsFlat
<1>5. ClosesMatchFeed
  BY <1>1 DEF ClosesMatchFeed, Counted, Prints, CloseInv, OnceOnly, SameExit
<1>. QED
  BY <1>4, <1>5

(***************************************************************************)
(* A candidate that leaves the exit list has nothing left of its position: *)
(* on Alpaca, when every order is named and no two candidates share an     *)
(* instrument, however passes crash and overlap, and whatever prints       *)
(* between the feed being read and the close being written.                *)
(***************************************************************************)
THEOREM ClosedTradesAreFlat ==
  ASSUME OwnSymbol, Venue = "alpaca", "unnamed" \notin Faults
  PROVE  Spec => []ClosedIsFlat
<1>1. CloseInv /\ [Next]_vars => CloseInv'
  BY CloseStep
<1>2. CloseInv => ClosedIsFlat
  BY ClosesAreTrue
<1>. QED
  BY <1>1, <1>2, CloseInit, PTL DEF Spec

(***************************************************************************)
(* The realised history counts each exit order once, with all it traded,   *)
(* on the same assumptions.                                                *)
(***************************************************************************)
THEOREM HistoryCountsOnce ==
  ASSUME OwnSymbol, Venue = "alpaca", "unnamed" \notin Faults
  PROVE  Spec => []ClosesMatchFeed
<1>1. CloseInv /\ [Next]_vars => CloseInv'
  BY CloseStep
<1>2. CloseInv => ClosesMatchFeed
  BY ClosesAreTrue
<1>. QED
  BY <1>1, <1>2, CloseInit, PTL DEF Spec

-----------------------------------------------------------------------------
(* The trade ledger.  It forbids sending an order for a trade that is held. *)
(* Nothing in the log does: what keeps the promise is that a trade the log  *)
(* calls held or booked has a bracket that filled whole, and such a bracket *)
(* stops a second one - at the venue on Alpaca, in the duplicate guard of   *)
(* every session on Hyperliquid, whose answers never call a filled bracket  *)
(* dead.                                                                    *)

NamesOwn ==
  \A k \in PlacedKeys(log) :
    LET b == OrderOf(log, k) IN b = 0 \/ (b \in DOMAIN orders /\ orders[b].key = k)

FilledWhole(k) == \E b \in DOMAIN orders : orders[b].key = k /\ orders[b].status = "filled"

HeldFilledWhole ==
  \A k \in Keys : LedgerState(k) \in {"held", "booked"} => FilledWhole(k)

\* A pass decides on verdicts or on closes, on one verdict a candidate, and a
\* fill it will write down is one the venue still has.
OneVerdictEach ==
  \A r, s \in todo : /\ r.outcome = s.outcome
                     /\ r.outcome = "reconciled" /\ r.key = s.key => r = s

FillsAreTrue ==
  \A row \in todo : row.outcome = "reconciled" /\ row.status = "filled" => FilledWhole(row.key)

\* What it decided is still in turn when it comes to write it.
TodoInTurn ==
  \A row \in todo : /\ row.outcome = "reconciled" => LedgerState(row.key) = "sent"
                    /\ row.outcome = "closed" => LedgerState(row.key) \in {"held", "booked"}

LedgerInv ==
  /\ TypeInv /\ TodoPlacesNothing /\ NamesOwn
  /\ HeldFilledWhole /\ OneVerdictEach /\ FillsAreTrue /\ TodoInTurn

-----------------------------------------------------------------------------
\* The ledger's view of a candidate is its last row that is not a refusal or a
\* failure, so one append changes the view of one candidate, to what it says.
LEMMA LedgerAfterAppend ==
  ASSUME log \in Seq(Row), NEW row \in Row, log' = Append(log, row), NEW k \in Keys
  PROVE  LedgerState(k)' =
           IF row.key = k /\ row.outcome \in {"placed", "reconciled", "closed"}
           THEN Entry(row) ELSE LedgerState(k)
<1> DEFINE n == Len(log) + 1
           S == LedgerRows(k)
           in == row.key = k /\ row.outcome \in {"placed", "reconciled", "closed"}
<1>1. /\ Len(log) \in Nat /\ DOMAIN log = 1 .. Len(log)
      /\ \A i \in DOMAIN log : i \in DOMAIN log' /\ log'[i] = log[i]
      /\ \A i \in DOMAIN log' : i \in DOMAIN log \/ i = n
      /\ n \in DOMAIN log' /\ log'[n] = row
  BY AppendedRows
<1>2. S \in SUBSET (1 .. Len(log)) /\ \A i \in S : i # n
  BY <1>1 DEF LedgerRows, RowsOf
<1>3. S' = IF in THEN S \cup {n} ELSE S
  <2>1. \A i : i \in S' <=> /\ i \in DOMAIN log' /\ log'[i].key = k
                            /\ log'[i].outcome \in {"placed", "reconciled", "closed"}
    BY DEF LedgerRows, RowsOf
  <2>2. \A i : i \in S <=> /\ i \in DOMAIN log /\ log[i].key = k
                           /\ log[i].outcome \in {"placed", "reconciled", "closed"}
    BY DEF LedgerRows, RowsOf
  <2> HIDE DEF n, S
  <2>. QED
    BY <1>1, <2>1, <2>2
<1>4. CASE in
  <2>1. S \cup {n} \in SUBSET (1 .. n) /\ n \in Nat
    BY <1>1, <1>2
  <2>2. Last(S \cup {n}) = n
    BY <2>1, LastOfTop
  <2>3. S' # {} /\ log'[Last(S')] = row
    BY <1>1, <1>3, <1>4, <2>2
  <2>. QED
    BY <1>4, <2>3 DEF LedgerState
<1>5. CASE ~in
  <2>1. S' = S
    BY <1>3, <1>5
  <2>2. S # {} => log'[Last(S)] = log[Last(S)]
    <3>1. S # {} => Last(S) \in S
      BY <1>1, <1>2, LastIsLargest
    <3>. QED
      BY <1>1, <1>2, <3>1
  <2>. QED
    BY <1>5, <2>1, <2>2 DEF LedgerState
<1>. QED
  BY <1>4, <1>5

\* A candidate whose last row is about its order is, for the ledger, there.
LEMMA LedgerReadsLatest ==
  ASSUME log \in Seq(Row), NEW k \in Keys, RowsOf(log, k) # {},
         LatestRow(log, k).outcome \in {"placed", "reconciled", "closed"}
  PROVE  LedgerState(k) = Entry(LatestRow(log, k))
<1> DEFINE l == Last(RowsOf(log, k))
           S == LedgerRows(k)
<1>1. /\ l \in DOMAIN log /\ LatestRow(log, k) = log[l] /\ LatestRow(log, k).key = k
      /\ \A i \in DOMAIN log : log[i].key = k => i <= l
  BY LatestIsARow
<1>2. Len(log) \in Nat /\ S \in SUBSET (1 .. Len(log)) /\ DOMAIN log = 1 .. Len(log)
  BY LenProperties DEF LedgerRows, RowsOf
<1>3. l \in S
  BY <1>1 DEF LedgerRows, RowsOf
<1>4. Last(S) \in S /\ l <= Last(S)
  BY <1>2, <1>3, LastIsLargest
<1>5. Last(S) <= l
  BY <1>1, <1>4 DEF LedgerRows, RowsOf
<1>6. Last(S) = l
  BY <1>1, <1>2, <1>4, <1>5
<1>. QED
  BY <1>1, <1>3, <1>6 DEF LedgerState

\* What the waiting lists say of a candidate in the ledger's words.
LEMMA ListsInLedger ==
  ASSUME TypeInv
  PROVE  /\ \A k \in UnsettledKeys(log) : k \in PlacedKeys(log) /\ LedgerState(k) = "sent"
         /\ \A k \in AwaitingExitKeys(log) : LedgerState(k) = "held"
<1>1. log \in Seq(Row)
  BY DEF TypeInv, TypeOK
<1>2. ASSUME NEW k \in UnsettledKeys(log)
      PROVE  k \in PlacedKeys(log) /\ LedgerState(k) = "sent"
  <2>1. k \in Keys /\ RowsOf(log, k) # {} /\ LatestRow(log, k).outcome = "placed"
    BY DEF UnsettledKeys
  <2>2. Last(RowsOf(log, k)) \in RowsWith(log, k, "placed")
    BY <1>1, <2>1, LatestIsARow DEF RowsWith, RowsOf
  <2>. QED
    BY <1>1, <2>1, <2>2, LedgerReadsLatest DEF PlacedKeys, Entry
<1>3. ASSUME NEW k \in AwaitingExitKeys(log) PROVE LedgerState(k) = "held"
  <2>1. /\ k \in Keys /\ RowsOf(log, k) # {}
        /\ LatestRow(log, k).outcome = "reconciled" /\ LatestRow(log, k).status = "filled"
    BY DEF AwaitingExitKeys, HasFilled
  <2>. QED
    BY <1>1, <2>1, LedgerReadsLatest DEF Entry
<1>. QED
  BY <1>2, <1>3

\* A plan that is placed is a row that names its own bracket, or none.
LEMMA PlacedRow ==
  ASSUME TypeInv, NEW plan \in prompt, Placed(plan)
  PROVE  \E row \in Row :
           /\ log' = Append(log, row) /\ row.outcome = "placed" /\ row.key = plan.key
           /\ row.order = 0 \/ (row.order \in DOMAIN orders' /\ orders'[row.order].key = plan.key)
<1> DEFINE n == Len(orders) + 1
<1>1. plan \in Plan /\ plan.key \in Keys /\ plan.risk \in Nat
  BY DEF TypeInv, TypeOK, Plan
<1>2. /\ n \in DOMAIN orders' /\ n \in Nat
      /\ orders'[n] = NewBracket(plan, "working")
  BY <1>1, AcceptType DEF Placed
<1>3. orders'[n].key = plan.key
  BY <1>2 DEF NewBracket
<1>4. PICK order \in {n, 0} : log' = Append(log, PlacementRow(plan.key, order, plan.risk, TRUE))
  BY DEF Placed
<1> DEFINE row == PlacementRow(plan.key, order, plan.risk, TRUE)
<1>5. row \in Row
  <2>1. order \in Nat
    BY <1>2, <1>4
  <2>. QED
    BY <1>1, <2>1, RowTypes
<1>6. row.outcome = "placed" /\ row.key = plan.key /\ row.order = order
  BY DEF PlacementRow, BlankRow
<1>7. log' = Append(log, row)
  BY <1>4
<1> HIDE DEF row, n
<1>. QED
  BY <1>2, <1>3, <1>4, <1>5, <1>6, <1>7

-----------------------------------------------------------------------------
(* What each venue contributes: a candidate whose bracket filled whole gets *)
(* no second one, and an answer about a candidate is about its own bracket. *)

VenueInv ==
  \/ Venue = "alpaca" /\ OneBracketEver
  \/ Venue = "hyperliquid" /\ GuardInv

LEMMA FilledIsNotSentAgain ==
  ASSUME TypeInv, VenueInv, NEW plan \in prompt, Placed(plan)
  PROVE  ~FilledWhole(plan.key)
<1>1. CASE Venue = "alpaca"
  BY <1>1 DEF Placed, Accept, VenueRefuses, FilledWhole
<1>2. CASE Venue = "hyperliquid" /\ GuardInv
  BY <1>2 DEF GuardInv, PromptIsUnplaced, OpenSessionKnows, Standing, FilledWhole
<1>. QED
  BY <1>1, <1>2 DEF VenueInv

LEMMA VerdictsRead ==
  ASSUME TypeInv, NamesOwn, VenueInv,
         NEW readable \in SUBSET UnsettledKeys(log), BeginReconcile(readable)
  PROVE  /\ \A row \in todo' : /\ row.outcome = "reconciled" /\ row.key \in UnsettledKeys(log)
                               /\ row.status = "filled" => FilledWhole(row.key)
         /\ \A r, s \in todo' : r.key = s.key => r = s
<1> DEFINE asked(b) == \E k \in readable : b \in Answer(k)
<1>1. \A row \in todo' : \E b : asked(b) /\ settled(b)
        /\ row = ReconciliationRow(orders[b].key, orders[b].status, orders[b].filled)
  BY DEF BeginReconcile
<1>2. ASSUME NEW b, NEW k \in readable, b \in Answer(k)
      PROVE  b \in DOMAIN orders /\ orders[b].key = k /\ (Venue = "hyperliquid" => b = OrderOf(log, k))
  <2>1. k \in PlacedKeys(log) /\ 0 \notin DOMAIN orders
    BY ListsInLedger, LenProperties DEF TypeInv, TypeOK
  <2>. QED
    BY <1>2, <2>1, ConstantsAssumption DEF Answer, NamesOwn
<1>3. \A b : asked(b) => b \in DOMAIN orders /\ orders[b].key \in UnsettledKeys(log)
  BY <1>2
<1>4. \A b, c : asked(b) /\ asked(c) /\ orders[b].key = orders[c].key => b = c
  BY <1>2 DEF VenueInv, OneBracketEver
<1>5. \A b : LET row == ReconciliationRow(orders[b].key, orders[b].status, orders[b].filled) IN
             row.outcome = "reconciled" /\ row.key = orders[b].key /\ row.status = orders[b].status
  BY DEF ReconciliationRow, BlankRow
<1> HIDE DEF asked
<1>6. \A row \in todo' : /\ row.outcome = "reconciled" /\ row.key \in UnsettledKeys(log)
                         /\ row.status = "filled" => FilledWhole(row.key)
  BY <1>1, <1>3, <1>5 DEF FilledWhole
<1>7. ASSUME NEW r \in todo', NEW s \in todo', r.key = s.key PROVE r = s
  <2>1. PICK b : asked(b) /\ r = ReconciliationRow(orders[b].key, orders[b].status, orders[b].filled)
    BY <1>1
  <2>2. PICK c : asked(c) /\ s = ReconciliationRow(orders[c].key, orders[c].status, orders[c].filled)
    BY <1>1
  <2>3. r.key = orders[b].key /\ s.key = orders[c].key
    BY <1>5, <2>1, <2>2
  <2>4. b = c
    BY <1>4, <1>7, <2>1, <2>2, <2>3
  <2>. QED
    BY <2>1, <2>2, <2>4
<1>. QED
  BY <1>6, <1>7, Zenon

\* One appended row takes the ledger one allowed step, and leaves in turn what
\* the pass has yet to write.
LEMMA LedgerStep ==
  ASSUME LedgerInv, VenueInv, [Next]_vars
  PROVE  /\ HeldFilledWhole' /\ OneVerdictEach' /\ FillsAreTrue' /\ TodoInTurn' /\ NamesOwn'
         /\ \/ \A k \in Keys : LedgerState(k)' = LedgerState(k)
            \/ \E k \in Keys :
                 /\ \A j \in Keys \ {k} : LedgerState(j)' = LedgerState(j)
                 /\ \/ LedgerState(k) # "held" /\ LedgerState(k)' = "sent"
                    \/ LedgerState(k) = "sent" /\ LedgerState(k)' \in {"dead", "held"}
                    \/ LedgerState(k) = "held" /\ LedgerState(k)' = "booked"
<1> DEFINE Moves == \/ \A k \in Keys : LedgerState(k)' = LedgerState(k)
                    \/ \E k \in Keys :
                         /\ \A j \in Keys \ {k} : LedgerState(j)' = LedgerState(j)
                         /\ \/ LedgerState(k) # "held" /\ LedgerState(k)' = "sent"
                            \/ LedgerState(k) = "sent" /\ LedgerState(k)' \in {"dead", "held"}
                            \/ LedgerState(k) = "held" /\ LedgerState(k)' = "booked"
<1> HIDE DEF Moves
<1>1. TypeInv /\ log \in Seq(Row) /\ todo \subseteq Row /\ TodoPlacesNothing
  BY DEF LedgerInv, TypeInv, TypeOK
<1>2. \A k : FilledWhole(k) => FilledWhole(k)'
  BY <1>1, BracketsLast DEF FilledWhole, settled
<1>3. \A b \in DOMAIN orders : b \in DOMAIN orders' /\ orders'[b].key = orders[b].key
  BY <1>1, BracketsLast
<1>4. \A row \in Row : row.key \in Keys
  BY DEF Row
<1>5. ASSUME log' = log
      PROVE  (\A k : LedgerState(k)' = LedgerState(k)) /\ NamesOwn'
  BY <1>3, <1>5 DEF LedgerInv, NamesOwn, LedgerState, LedgerRows, RowsOf
<1>6. CASE log' = log /\ todo' \subseteq todo
  <2>1. OneVerdictEach' /\ FillsAreTrue'
    BY <1>2, <1>6 DEF LedgerInv, OneVerdictEach, FillsAreTrue
  <2>2. TodoInTurn' /\ HeldFilledWhole'
    BY <1>2, <1>5, <1>6 DEF LedgerInv, TodoInTurn, HeldFilledWhole
  <2>. QED
    BY <1>5, <1>6, <2>1, <2>2
<1>7. ASSUME NEW readable \in SUBSET UnsettledKeys(log), BeginReconcile(readable), log' = log
      PROVE  HeldFilledWhole' /\ OneVerdictEach' /\ FillsAreTrue' /\ TodoInTurn'
  <2>1. /\ \A row \in todo' : /\ row.outcome = "reconciled" /\ row.key \in UnsettledKeys(log)
                              /\ row.status = "filled" => FilledWhole(row.key)
        /\ \A r, s \in todo' : r.key = s.key => r = s
    BY <1>7, VerdictsRead DEF LedgerInv
  <2>2. OneVerdictEach' /\ FillsAreTrue'
    BY <1>2, <2>1 DEF OneVerdictEach, FillsAreTrue
  <2>3. TodoInTurn' /\ HeldFilledWhole'
    BY <1>1, <1>2, <1>5, <1>7, <2>1, ListsInLedger DEF LedgerInv, TodoInTurn, HeldFilledWhole
  <2>. QED
    BY <2>2, <2>3
<1>8. ASSUME NEW answered \in BOOLEAN, BeginCloseOut(answered), log' = log
      PROVE  HeldFilledWhole' /\ OneVerdictEach' /\ FillsAreTrue' /\ TodoInTurn'
  <2>1. \A row \in todo' : row.outcome = "closed" /\ row.key \in AwaitingExitKeys(log)
    BY <1>8, CloseOutReads
  <2>2. OneVerdictEach' /\ FillsAreTrue'
    BY <2>1 DEF OneVerdictEach, FillsAreTrue
  <2>3. TodoInTurn' /\ HeldFilledWhole'
    BY <1>1, <1>2, <1>5, <1>8, <2>1, ListsInLedger DEF LedgerInv, TodoInTurn, HeldFilledWhole
  <2>. QED
    BY <2>2, <2>3
<1>9. ASSUME NEW row \in Row, log' = Append(log, row), todo' \subseteq todo,
             row.outcome \in {"refused", "failed"}
      PROVE  HeldFilledWhole' /\ OneVerdictEach' /\ FillsAreTrue' /\ TodoInTurn' /\ NamesOwn' /\ Moves
  <2>1. \A k \in Keys : LedgerState(k)' = LedgerState(k)
    BY <1>1, <1>9, LedgerAfterAppend
  <2>0. Moves
    BY <2>1 DEF Moves
  <2>2. NamesOwn'
    <3>1. /\ PlacedKeys(log') = PlacedKeys(log)
          /\ \A k \in Keys : OrderOf(log', k) = OrderOf(log, k)
      BY <1>1, <1>9, OnlyPlacementsName
    <3>. QED
      BY <1>3, <3>1 DEF LedgerInv, NamesOwn, PlacedKeys
  <2>3. OneVerdictEach' /\ FillsAreTrue'
    BY <1>2, <1>9 DEF LedgerInv, OneVerdictEach, FillsAreTrue
  <2>4. TodoInTurn' /\ HeldFilledWhole'
    BY <1>1, <1>2, <1>4, <1>9, <2>1 DEF LedgerInv, TodoInTurn, HeldFilledWhole
  <2>. QED
    BY <2>0, <2>2, <2>3, <2>4
<1>10. ASSUME NEW plan \in prompt, Placed(plan)
       PROVE  HeldFilledWhole' /\ OneVerdictEach' /\ FillsAreTrue' /\ TodoInTurn' /\ NamesOwn' /\ Moves
  <2>1. PICK row \in Row :
          /\ log' = Append(log, row) /\ row.outcome = "placed" /\ row.key = plan.key
          /\ row.order = 0 \/ (row.order \in DOMAIN orders' /\ orders'[row.order].key = plan.key)
    BY <1>1, <1>10, PlacedRow
  <2>2. todo' = todo /\ row.key \in Keys
    BY <1>4, <1>10 DEF Placed, passVars
  <2>3. \A k \in Keys : LedgerState(k)' = IF k = row.key THEN "sent" ELSE LedgerState(k)
    BY <1>1, <2>1, LedgerAfterAppend DEF Entry
  <2>4. LedgerState(row.key) \notin {"held", "booked"}
    BY <1>1, <1>10, <2>1, <2>2, FilledIsNotSentAgain DEF LedgerInv, HeldFilledWhole
  <2>5. NamesOwn'
    <3>1. /\ PlacedKeys(log') = PlacedKeys(log) \cup {row.key}
          /\ \A k \in Keys : OrderOf(log', k) = IF row.key = k THEN row.order ELSE OrderOf(log, k)
      BY <1>1, <2>1, PlacedAfterAppend, OrderAfterAppend
    <3>2. \A k \in PlacedKeys(log') : k \in Keys
      BY DEF PlacedKeys
    <3>. QED
      BY <1>3, <2>1, <3>1, <3>2 DEF LedgerInv, NamesOwn
  <2>6. OneVerdictEach' /\ FillsAreTrue'
    BY <1>2, <2>2 DEF LedgerInv, OneVerdictEach, FillsAreTrue
  <2>7. TodoInTurn' /\ HeldFilledWhole'
    BY <1>1, <1>2, <1>4, <2>2, <2>3, <2>4 DEF LedgerInv, TodoInTurn, HeldFilledWhole
  <2>8. Moves
    BY <2>2, <2>3, <2>4 DEF Moves
  <2>. QED
    BY <2>5, <2>6, <2>7, <2>8
<1>11. ASSUME NEW row \in todo, log' = Append(log, row), todo' = todo \ {row}
       PROVE  HeldFilledWhole' /\ OneVerdictEach' /\ FillsAreTrue' /\ TodoInTurn' /\ NamesOwn' /\ Moves
  <2>1. row \in Row /\ row.outcome # "placed" /\ row.key \in Keys
    BY <1>1, <1>4 DEF TodoPlacesNothing
  <2>2. NamesOwn'
    <3>1. /\ PlacedKeys(log') = PlacedKeys(log)
          /\ \A k \in Keys : OrderOf(log', k) = OrderOf(log, k)
      BY <1>1, <1>11, <2>1, OnlyPlacementsName
    <3>. QED
      BY <1>3, <3>1 DEF LedgerInv, NamesOwn, PlacedKeys
  <2>3. OneVerdictEach' /\ FillsAreTrue'
    BY <1>2, <1>11 DEF LedgerInv, OneVerdictEach, FillsAreTrue
  <2>4. CASE row.outcome = "reconciled"
    <3>1. LedgerState(row.key) = "sent"
      BY <2>4 DEF LedgerInv, TodoInTurn
    <3>2. Entry(row) \in {"dead", "held"} /\ (Entry(row) = "held" => row.status = "filled")
      BY <2>4 DEF Entry
    <3>3. \A k \in Keys : LedgerState(k)' = IF k = row.key THEN Entry(row) ELSE LedgerState(k)
      BY <1>1, <1>11, <2>1, <2>4, LedgerAfterAppend
    <3>4. HeldFilledWhole'
      BY <1>2, <2>4, <3>2, <3>3 DEF LedgerInv, HeldFilledWhole, FillsAreTrue
    <3>5. TodoInTurn'
      BY <1>1, <1>4, <1>11, <2>4, <3>3 DEF LedgerInv, TodoInTurn, OneVerdictEach
    <3>6. Moves
      BY <2>1, <3>1, <3>2, <3>3 DEF Moves
    <3>. QED
      BY <2>2, <2>3, <3>4, <3>5, <3>6
  <2>5. CASE row.outcome = "closed"
    <3>1. LedgerState(row.key) \in {"held", "booked"}
      BY <2>5 DEF LedgerInv, TodoInTurn
    <3>2. \A k \in Keys : LedgerState(k)' = IF k = row.key THEN "booked" ELSE LedgerState(k)
      BY <1>1, <1>11, <2>1, <2>5, LedgerAfterAppend DEF Entry
    <3>3. HeldFilledWhole'
      BY <1>2, <3>1, <3>2 DEF LedgerInv, HeldFilledWhole
    <3>4. TodoInTurn'
      BY <1>1, <1>4, <1>11, <2>5, <3>2 DEF LedgerInv, TodoInTurn, OneVerdictEach
    <3>5. Moves
      BY <2>1, <3>1, <3>2 DEF Moves
    <3>. QED
      BY <2>2, <2>3, <3>3, <3>4, <3>5
  <2>6. CASE row.outcome \in {"refused", "failed"}
    BY <1>9, <1>11, <2>1, <2>6
  <2>. QED
    BY <2>1, <2>4, <2>5, <2>6 DEF Row, Outcomes
<1>12. (\A k : LedgerState(k)' = LedgerState(k)) => Moves
  BY DEF Moves
<1>13. ASSUME todo' \subseteq todo, NEW row \in Row, log' = Append(log, row),
              row.outcome \in {"refused", "failed"}
       PROVE  HeldFilledWhole' /\ OneVerdictEach' /\ FillsAreTrue' /\ TodoInTurn' /\ NamesOwn' /\ Moves
  BY <1>9, <1>13
<1>14. HeldFilledWhole' /\ OneVerdictEach' /\ FillsAreTrue' /\ TodoInTurn' /\ NamesOwn' /\ Moves
  <2>1. CASE todo' \subseteq todo
    <3>1. CASE log' = log
      BY <1>5, <1>6, <1>12, <2>1, <3>1
    <3>. QED
      BY <1>1, <1>10, <1>11, <1>13, <2>1, <3>1, LogSteps
  <2>2. CASE log' = log /\ \E readable \in SUBSET UnsettledKeys(log) : BeginReconcile(readable)
    BY <1>5, <1>7, <1>12, <2>2
  <2>3. CASE log' = log /\ \E answered \in BOOLEAN : BeginCloseOut(answered)
    BY <1>5, <1>8, <1>12, <2>3
  <2>. QED
    BY <2>1, <2>2, <2>3, TodoSteps
<1>. QED
  BY <1>14 DEF Moves

LEMMA LedgerInit == Init => LedgerInv /\ VenueInv /\ Ledger!Init
<1>. SUFFICES ASSUME Init PROVE LedgerInv /\ VenueInv /\ Ledger!Init
  OBVIOUS
<1>1. DOMAIN orders = {} /\ DOMAIN log = {} /\ todo = {}
  BY DEF Init
<1>2. PlacedKeys(log) = {} /\ \A k \in Keys : LedgerState(k) = "none"
  BY <1>1 DEF PlacedKeys, RowsWith, RowsOf, LedgerState, LedgerRows
<1>3. NamesOwn /\ HeldFilledWhole /\ TodoPlacesNothing /\ OneVerdictEach /\ FillsAreTrue /\ TodoInTurn
  BY <1>1, <1>2
  DEF NamesOwn, HeldFilledWhole, TodoPlacesNothing, OneVerdictEach, FillsAreTrue, TodoInTurn
<1>4. VenueInv
  <2>1. OneBracketEver
    BY <1>1 DEF OneBracketEver
  <2>. QED
    BY <2>1, GuardInit, ConstantsAssumption DEF VenueInv
<1>5. Ledger!Init
  BY <1>2 DEF Ledger!Init
<1>. QED
  BY <1>3, <1>4, <1>5, InitType DEF LedgerInv

LEMMA LedgerInvStep ==
  ASSUME Venue = "alpaca" \/ Faults \cap Unrecorded = {}
  PROVE  LedgerInv /\ VenueInv /\ [Next]_vars =>
           LedgerInv' /\ VenueInv' /\ [Ledger!Next]_([k \in Keys |-> LedgerState(k)])
<1>. SUFFICES ASSUME LedgerInv, VenueInv, [Next]_vars
              PROVE  LedgerInv' /\ VenueInv' /\ [Ledger!Next]_([k \in Keys |-> LedgerState(k)])
  OBVIOUS
<1>1. TypeInv'
  BY TypeStep DEF LedgerInv
<1>2. VenueInv'
  BY AlpacaStep, HyperliquidStep DEF LedgerInv, VenueInv
<1>3. TodoPlacesNothing'
  <2>1. \A readable \in SUBSET UnsettledKeys(log) :
          BeginReconcile(readable) => \A row \in todo' : row.outcome = "reconciled"
    BY TodoTypes DEF LedgerInv
  <2>2. \A answered \in BOOLEAN :
          BeginCloseOut(answered) => \A row \in todo' : row.outcome = "closed"
    BY TodoTypes DEF LedgerInv
  <2>. QED
    BY <2>1, <2>2, TodoSteps DEF LedgerInv, TodoPlacesNothing
<1>4. LedgerInv'
  BY <1>1, <1>3, LedgerStep DEF LedgerInv
<1>5. ASSUME \A k \in Keys : LedgerState(k)' = LedgerState(k)
      PROVE  UNCHANGED [k \in Keys |-> LedgerState(k)]
  BY <1>5
<1>6. ASSUME NEW k \in Keys, \A j \in Keys \ {k} : LedgerState(j)' = LedgerState(j),
             \/ LedgerState(k) # "held" /\ LedgerState(k)' = "sent"
             \/ LedgerState(k) = "sent" /\ LedgerState(k)' \in {"dead", "held"}
             \/ LedgerState(k) = "held" /\ LedgerState(k)' = "booked"
      PROVE  Ledger!Next
  <2> DEFINE was == [j \in Keys |-> LedgerState(j)]
             now == [j \in Keys |-> LedgerState(j)']
  <2>1. now = [was EXCEPT ![k] = LedgerState(k)']
    BY <1>6
  <2>2. CASE LedgerState(k) # "held" /\ LedgerState(k)' = "sent"
    <3>1. Ledger!Send(k)
      BY <2>1, <2>2 DEF Ledger!Send
    <3>. QED
      BY <3>1 DEF Ledger!Next
  <2>3. CASE LedgerState(k) = "sent" /\ LedgerState(k)' \in {"dead", "held"}
    <3>1. Ledger!Settle(k, LedgerState(k)')
      BY <2>1, <2>3 DEF Ledger!Settle
    <3>. QED
      BY <2>3, <3>1 DEF Ledger!Next
  <2>4. CASE LedgerState(k) = "held" /\ LedgerState(k)' = "booked"
    <3>1. Ledger!Book(k)
      BY <2>1, <2>4 DEF Ledger!Book
    <3>. QED
      BY <3>1 DEF Ledger!Next
  <2>. QED
    BY <1>6, <2>2, <2>3, <2>4
<1>7. [Ledger!Next]_([k \in Keys |-> LedgerState(k)])
  BY <1>5, <1>6, LedgerStep
<1>. QED
  BY <1>2, <1>4, <1>7

(***************************************************************************)
(* The order log implements the trade ledger: a trade that is held is      *)
(* never sent again before it is booked, no verdict is written on an order *)
(* that was not sent and nothing is booked that was not held - on Alpaca   *)
(* always, on Hyperliquid when every order the venue took left a placed    *)
(* row - whatever a session and a pass that overlap, or a pass that died,  *)
(* write in between.                                                       *)
(***************************************************************************)
THEOREM LogKeepsTheLedger ==
  ASSUME Venue = "alpaca" \/ Faults \cap Unrecorded = {}
  PROVE  Spec => LedgerSpec
<1>1. LedgerInv /\ VenueInv /\ [Next]_vars =>
        LedgerInv' /\ VenueInv' /\ [Ledger!Next]_([k \in Keys |-> LedgerState(k)])
  BY LedgerInvStep
<1>. QED
  BY <1>1, LedgerInit, PTL DEF Spec, LedgerSpec, Ledger!Spec

-----------------------------------------------------------------------------
(* The waiting lists.  Any row at all, a refusal too, takes a candidate    *)
(* off the list it is on, so what keeps it there is that nobody writes one *)
(* out of turn: a session writes of candidates the log has not heard of,   *)
(* and a pass of candidates that still wait when it comes to write.        *)

PromptIsNew == \A plan \in prompt : RowsOf(log, plan.key) = {}

TodoWaits ==
  \A row \in todo :
    /\ row.outcome \in {"reconciled", "closed"} /\ RowsOf(log, row.key) # {}
    /\ row.outcome = "reconciled" <=> row.key \in UnsettledKeys(log)

WaitInv == LedgerInv /\ VenueInv /\ PromptIsNew /\ TodoWaits

LEMMA LatestAfterAppend ==
  ASSUME log \in Seq(Row), NEW row \in Row, log' = Append(log, row)
  PROVE  /\ RowsOf(log', row.key) # {} /\ LatestRow(log', row.key) = row
         /\ \A k : k # row.key => /\ RowsOf(log', k) = RowsOf(log, k)
                                  /\ RowsOf(log, k) # {} => LatestRow(log', k) = LatestRow(log, k)
<1> DEFINE n == Len(log) + 1
<1>1. /\ Len(log) \in Nat /\ DOMAIN log = 1 .. Len(log)
      /\ \A i \in DOMAIN log : i \in DOMAIN log' /\ log'[i] = log[i]
      /\ \A i \in DOMAIN log' : i \in DOMAIN log \/ i = n
      /\ DOMAIN log' = 1 .. n /\ n \in Nat /\ log'[n] = row
  BY AppendedRows
<1>2. n \in RowsOf(log', row.key) /\ RowsOf(log', row.key) \in SUBSET (1 .. n)
  BY <1>1 DEF RowsOf
<1>3. Last(RowsOf(log', row.key)) = n
  BY <1>1, <1>2, LastOfTop
<1>4. ASSUME NEW k, k # row.key
      PROVE  /\ RowsOf(log', k) = RowsOf(log, k)
             /\ RowsOf(log, k) # {} => LatestRow(log', k) = LatestRow(log, k)
  <2>1. RowsOf(log', k) = RowsOf(log, k)
    BY <1>1, <1>4 DEF RowsOf
  <2>2. RowsOf(log, k) # {} => Last(RowsOf(log, k)) \in DOMAIN log
    BY LatestIsARow
  <2>. QED
    BY <1>1, <2>1, <2>2 DEF LatestRow
<1> HIDE DEF n
<1>. QED
  BY <1>1, <1>2, <1>3, <1>4 DEF LatestRow

\* The lists after an append: only the row's own candidate moves.
LEMMA ListsAfterAppend ==
  ASSUME log \in Seq(Row), NEW row \in Row, log' = Append(log, row)
  PROVE  /\ row.key \in UnsettledKeys(log') <=> row.outcome = "placed"
         /\ \A k : k # row.key => /\ k \in UnsettledKeys(log') <=> k \in UnsettledKeys(log)
                                  /\ k \in AwaitingExitKeys(log') <=> k \in AwaitingExitKeys(log)
<1>1. row.key \in Keys
  BY DEF Row
<1>. QED
  BY <1>1, LatestAfterAppend DEF UnsettledKeys, AwaitingExitKeys

\* What a session writes is of a candidate the log has not heard of, and it
\* leaves no question open.
LEMMA SessionWrites ==
  ASSUME WaitInv, "again" \notin Faults, SessionStep, log' # log
  PROVE  /\ \E row \in Row : log' = Append(log, row) /\ RowsOf(log, row.key) = {}
         /\ prompt' = {} /\ todo' = todo
<1>1. TypeInv /\ PromptIsNew
  BY DEF WaitInv, LedgerInv
<1>2. ASSUME NEW k \in Keys, RowsOf(log, k) = {}, log' = Append(log, RefusalRow(k))
      PROVE  \E row \in Row : log' = Append(log, row) /\ RowsOf(log, row.key) = {}
  <2>1. RefusalRow(k) \in Row
    BY RowTypes, 0 \in Nat
  <2>2. RefusalRow(k).key = k
    BY DEF RefusalRow, BlankRow
  <2>. QED
    BY <1>2, <2>1, <2>2
<1>3. ASSUME NEW plan \in prompt, NEW n \in Nat,
             log' = Append(log, PlacementRow(plan.key, n, plan.risk, FALSE))
      PROVE  \E row \in Row : log' = Append(log, row) /\ RowsOf(log, row.key) = {}
  <2>1. plan.key \in Keys /\ plan.risk \in Nat /\ RowsOf(log, plan.key) = {}
    BY <1>1 DEF TypeInv, TypeOK, Plan, PromptIsNew
  <2>2. PlacementRow(plan.key, n, plan.risk, FALSE) \in Row
    BY <2>1, RowTypes
  <2>3. PlacementRow(plan.key, n, plan.risk, FALSE).key = plan.key
    BY DEF PlacementRow, BlankRow
  <2>. QED
    BY <1>3, <2>1, <2>2, <2>3
<1>4. ASSUME NEW plan \in prompt, Placed(plan)
      PROVE  \E row \in Row : log' = Append(log, row) /\ RowsOf(log, row.key) = {}
  BY <1>1, <1>4, PlacedRow DEF PromptIsNew
<1>5. ~(OpenSession \/ CloseSession)
  BY DEF OpenSession, CloseSession
<1>6. ASSUME NEW k \in Keys, OfferRefused(k) \/ OfferPlanned(k)
      PROVE  /\ RowsOf(log, k) = {} /\ log' = Append(log, RefusalRow(k))
             /\ prompt' = {} /\ todo' = todo
  BY <1>6 DEF OfferRefused, OfferPlanned, Offerable, Refuse, sessionVars, passVars
<1>7. ASSUME NEW plan \in prompt, Declined(plan) \/ Raised(plan)
      PROVE  /\ plan.key \in Keys /\ RowsOf(log, plan.key) = {}
             /\ log' = Append(log, RefusalRow(plan.key)) /\ prompt' = {} /\ todo' = todo
  BY <1>1, <1>7 DEF Declined, Raised, Refuse, passVars, PromptIsNew, TypeInv, TypeOK, Plan
<1>8. Len(orders) + 1 \in Nat
  BY <1>1, LenProperties DEF TypeInv, TypeOK
<1>9. ASSUME NEW plan \in prompt, Rejected(plan) \/ PartlyPlaced(plan)
      PROVE  /\ \E n \in Nat : log' = Append(log, PlacementRow(plan.key, n, plan.risk, FALSE))
             /\ prompt' = {} /\ todo' = todo
  BY <1>8, <1>9, 0 \in Nat DEF Rejected, PartlyPlaced, passVars
<1>10. ASSUME NEW plan \in prompt, Placed(plan) PROVE prompt' = {} /\ todo' = todo
  BY <1>10 DEF Placed, passVars
<1>11. ASSUME NEW plan \in prompt, KilledAfterPlace(plan) PROVE FALSE
  BY <1>11 DEF KilledAfterPlace
<1>. QED
  BY <1>2, <1>3, <1>4, <1>5, <1>6, <1>7, <1>9, <1>10, <1>11 DEF SessionStep

\* The other ways the log and the prompt move.
LEMMA OtherWrites ==
  ASSUME [Next]_vars, "again" \notin Faults
  PROVE  \/ SessionStep /\ log' # log
         \/ log' = log /\ \A plan \in prompt' : plan \in prompt \/ RowsOf(log, plan.key) = {}
         \/ /\ prompt' = prompt
            /\ \E row \in todo : log' = Append(log, row) /\ todo' = todo \ {row}
<1>1. CASE VenueStep \/ UNCHANGED vars \/ \E b \in DOMAIN orders : CancelResting(b)
  BY <1>1 DEF VenueStep, vars, CancelResting, sessionVars
<1>2. CASE SessionStep /\ log' = log
  <2>1. ASSUME NEW k \in Keys, OfferPlanned(k)
        PROVE  \A plan \in prompt' : RowsOf(log, plan.key) = {}
    BY <2>1 DEF OfferPlanned, Offerable
  <2>2. OpenSession \/ CloseSession => prompt' \subseteq prompt
    BY DEF OpenSession, CloseSession
  <2>3. ASSUME NEW k \in Keys, OfferRefused(k) PROVE prompt' = prompt
    BY <2>3 DEF OfferRefused, sessionVars
  <2>4. ASSUME NEW plan \in prompt,
               \/ Declined(plan) \/ Placed(plan) \/ Rejected(plan)
               \/ PartlyPlaced(plan) \/ Raised(plan) \/ KilledAfterPlace(plan)
        PROVE  prompt' = {}
    BY <2>4 DEF Declined, Placed, Rejected, PartlyPlaced, Raised, KilledAfterPlace
  <2>. QED
    BY <1>2, <2>1, <2>2, <2>3, <2>4 DEF SessionStep
<1>3. CASE PassStep
  BY <1>3 DEF PassStep, BeginReconcile, WriteReconciliation, WriteClose, Write,
      BeginCloseOut, EndPass, CrashPass, sessionVars
<1>. QED
  BY <1>1, <1>2, <1>3 DEF Next

\* Who is on the lists, in the log's words.
LEMMA OnTheLists ==
  /\ \A k \in UnsettledKeys(log) : RowsOf(log, k) # {} /\ k \notin AwaitingExitKeys(log)
  /\ \A k \in AwaitingExitKeys(log) : RowsOf(log, k) # {} /\ k \notin UnsettledKeys(log)
BY DEF UnsettledKeys, AwaitingExitKeys, HasFilled

LEMMA WaitStep ==
  ASSUME "again" \notin Faults, Venue = "alpaca" \/ Faults \cap Unrecorded = {}
  PROVE  WaitInv /\ [Next]_vars =>
           /\ WaitInv'
           /\ \A k \in UnsettledKeys(log) \ UnsettledKeys(log') :
                LatestRow(log', k).outcome = "reconciled"
           /\ \A k \in AwaitingExitKeys(log) \ AwaitingExitKeys(log') :
                LatestRow(log', k).outcome = "closed"
<1>. SUFFICES ASSUME WaitInv, [Next]_vars
              PROVE  /\ WaitInv'
                     /\ \A k \in UnsettledKeys(log) \ UnsettledKeys(log') :
                          LatestRow(log', k).outcome = "reconciled"
                     /\ \A k \in AwaitingExitKeys(log) \ AwaitingExitKeys(log') :
                          LatestRow(log', k).outcome = "closed"
  OBVIOUS
<1> DEFINE Left == /\ \A k \in UnsettledKeys(log) \ UnsettledKeys(log') :
                        LatestRow(log', k).outcome = "reconciled"
                   /\ \A k \in AwaitingExitKeys(log) \ AwaitingExitKeys(log') :
                        LatestRow(log', k).outcome = "closed"
<1>1. /\ log \in Seq(Row) /\ todo \subseteq Row
      /\ PromptIsNew /\ TodoWaits /\ OneVerdictEach /\ TypeInv /\ NamesOwn /\ VenueInv
  BY DEF WaitInv, LedgerInv, TypeInv, TypeOK
<1>2. LedgerInv' /\ VenueInv'
  BY LedgerInvStep DEF WaitInv
<1>3. ASSUME log' = log PROVE Left
  BY <1>3
<1>4. CASE SessionStep /\ log' # log
  <2>1. /\ prompt' = {} /\ todo' = todo
        /\ \E row \in Row : log' = Append(log, row) /\ RowsOf(log, row.key) = {}
    BY <1>4, SessionWrites
  <2>2. PICK row \in Row : log' = Append(log, row) /\ RowsOf(log, row.key) = {}
    BY <2>1
  <2>3. \A k : k # row.key => /\ RowsOf(log', k) = RowsOf(log, k)
                              /\ k \in UnsettledKeys(log') <=> k \in UnsettledKeys(log)
                              /\ k \in AwaitingExitKeys(log') <=> k \in AwaitingExitKeys(log)
    BY <1>1, <2>2, LatestAfterAppend, ListsAfterAppend
  <2>4. Left
    BY <2>2, <2>3, OnTheLists
  <2>5. TodoWaits'
    BY <1>1, <2>1, <2>2, <2>3 DEF TodoWaits
  <2>6. PromptIsNew'
    BY <2>1 DEF PromptIsNew
  <2>. QED
    BY <1>2, <2>4, <2>5, <2>6 DEF WaitInv
<1>5. ASSUME NEW row \in todo, log' = Append(log, row), todo' = todo \ {row}, prompt' = prompt
      PROVE  TodoWaits' /\ PromptIsNew' /\ Left
  <2>1. /\ row \in Row /\ row.outcome \in {"reconciled", "closed"}
        /\ RowsOf(log, row.key) # {}
        /\ row.outcome = "reconciled" <=> row.key \in UnsettledKeys(log)
    BY <1>1 DEF TodoWaits
  <2>2. \A k : k # row.key => /\ RowsOf(log', k) = RowsOf(log, k)
                              /\ k \in UnsettledKeys(log') <=> k \in UnsettledKeys(log)
                              /\ k \in AwaitingExitKeys(log') <=> k \in AwaitingExitKeys(log)
    BY <1>1, <1>5, <2>1, LatestAfterAppend, ListsAfterAppend
  <2>3. /\ RowsOf(log', row.key) # {} /\ LatestRow(log', row.key) = row
        /\ row.key \notin UnsettledKeys(log')
    BY <1>1, <1>5, <2>1, LatestAfterAppend, ListsAfterAppend
  <2>4. Left
    <3>1. ASSUME NEW k \in UnsettledKeys(log) \ UnsettledKeys(log')
          PROVE  LatestRow(log', k).outcome = "reconciled"
      BY <2>1, <2>2, <2>3, <3>1
    <3>2. ASSUME NEW k \in AwaitingExitKeys(log) \ AwaitingExitKeys(log')
          PROVE  LatestRow(log', k).outcome = "closed"
      BY <2>1, <2>2, <2>3, <3>2, OnTheLists
    <3>. QED
      BY <3>1, <3>2
  <2>5. ASSUME NEW r \in todo'
        PROVE  /\ r.outcome \in {"reconciled", "closed"} /\ RowsOf(log', r.key) # {}
               /\ r.outcome = "reconciled" <=> r.key \in UnsettledKeys(log')
    <3>1. /\ r \in todo /\ r # row /\ r.outcome \in {"reconciled", "closed"}
          /\ RowsOf(log, r.key) # {}
          /\ r.outcome = "reconciled" <=> r.key \in UnsettledKeys(log)
      BY <1>1, <1>5, <2>5 DEF TodoWaits
    <3>2. CASE r.key # row.key
      BY <2>2, <3>1, <3>2
    <3>3. CASE r.key = row.key
      <4>1. r.outcome # "reconciled"
        BY <1>1, <2>1, <3>1, <3>3 DEF OneVerdictEach
      <4>. QED
        BY <2>3, <3>1, <3>3, <4>1
    <3>. QED
      BY <3>2, <3>3
  <2>6. TodoWaits'
    BY <2>5 DEF TodoWaits
  <2>7. PromptIsNew'
    BY <1>1, <1>5, <2>1, <2>2 DEF PromptIsNew
  <2>. QED
    BY <2>4, <2>6, <2>7
<1>6. ASSUME log' = log PROVE TodoWaits'
  <2>1. CASE todo' \subseteq todo
    BY <1>1, <1>6, <2>1 DEF TodoWaits
  <2>2. ASSUME NEW readable \in SUBSET UnsettledKeys(log), BeginReconcile(readable)
        PROVE  TodoWaits'
    <3>1. \A row \in todo' : row.outcome = "reconciled" /\ row.key \in UnsettledKeys(log)
      BY <1>1, <2>2, VerdictsRead
    <3>. QED
      BY <1>6, <3>1, OnTheLists DEF TodoWaits
  <2>3. ASSUME NEW answered \in BOOLEAN, BeginCloseOut(answered)
        PROVE  TodoWaits'
    <3>1. \A row \in todo' : row.outcome = "closed" /\ row.key \in AwaitingExitKeys(log)
      BY <2>3, CloseOutReads
    <3>. QED
      BY <1>6, <3>1, OnTheLists DEF TodoWaits
  <2>. QED
    BY <2>1, <2>2, <2>3, TodoSteps
<1>7. ASSUME log' = log, \A plan \in prompt' : plan \in prompt \/ RowsOf(log, plan.key) = {}
      PROVE  PromptIsNew'
  BY <1>1, <1>7 DEF PromptIsNew
<1>. QED
  BY <1>2, <1>3, <1>4, <1>5, <1>6, <1>7, OtherWrites DEF WaitInv

LEMMA WaitInit == Init => WaitInv
BY LedgerInit DEF WaitInv, PromptIsNew, TodoWaits, Init

(***************************************************************************)
(* A placed order stays on the reconcile pass's list until a verdict on it *)
(* is written, when no decided candidate is offered again and the venue    *)
(* holds no second bracket of one behind the log's back: no other row of   *)
(* any session or pass takes it off.                                       *)
(***************************************************************************)
THEOREM PlacedWaitForVerdicts ==
  ASSUME "again" \notin Faults, Venue = "alpaca" \/ Faults \cap Unrecorded = {}
  PROVE  Spec => UnsettledUntilReconciled
<1>1. WaitInv /\ [Next]_vars =>
        /\ WaitInv'
        /\ \A k \in UnsettledKeys(log) \ UnsettledKeys(log') :
             LatestRow(log', k).outcome = "reconciled"
  BY WaitStep
<1>. QED
  BY <1>1, WaitInit, PTL DEF Spec, UnsettledUntilReconciled

(***************************************************************************)
(* A filled trade stays on the exit list until its close is written, on    *)
(* the same assumptions.                                                   *)
(***************************************************************************)
THEOREM HeldWaitForCloses ==
  ASSUME "again" \notin Faults, Venue = "alpaca" \/ Faults \cap Unrecorded = {}
  PROVE  Spec => AwaitingUntilClosed
<1>1. WaitInv /\ [Next]_vars =>
        /\ WaitInv'
        /\ \A k \in AwaitingExitKeys(log) \ AwaitingExitKeys(log') :
             LatestRow(log', k).outcome = "closed"
  BY WaitStep
<1>. QED
  BY <1>1, WaitInit, PTL DEF Spec, AwaitingUntilClosed

-----------------------------------------------------------------------------
(* Shared instruments.  The ambiguity guard looks at the exit list once,    *)
(* when the feed is read; its closes are written some steps later.  What it *)
(* promised stays true because the list can only shrink in between: a trade *)
(* joins it by a verdict, and a pass that closes out writes no verdict.     *)

OwnExit(row) ==
  /\ row.order \in DOMAIN orders /\ orders[row.order].key = row.key
  /\ row.reason = row.leg /\ row.leg # "manual"

\* A pass has decided nothing, or verdicts, or closes, according to its phase.
TodoOfPhase ==
  /\ pass = "idle" => todo = {}
  /\ \A row \in todo :
       row.outcome = IF pass = "settling" THEN "reconciled" ELSE "closed"

GuardedCloses ==
  pass = "closing" => \A row \in todo : SharesWithAwaiting(row.key) => OwnExit(row)

SharedInv == TypeInv /\ NamesOwn /\ TodoOfPhase /\ GuardedCloses

\* Two trades on the exit list of one instrument are two holders of it.
LEMMA TwoHold ==
  ASSUME NEW k \in AwaitingExitKeys(log), SharesWithAwaiting(k)
  PROVE  Holders(SymbolOf[k]) > 1
<1> DEFINE H == {j \in AwaitingExitKeys(log) : SymbolOf[j] = SymbolOf[k]}
<1>1. PICK j \in AwaitingExitKeys(log) \ {k} : SymbolOf[j] = SymbolOf[k]
  BY DEF SharesWithAwaiting
<1>2. IsFiniteSet(H) /\ {j, k} \subseteq H
  <2>1. H \subseteq Keys
    BY DEF AwaitingExitKeys
  <2>. QED
    BY <1>1, <2>1, ConstantsAssumption, FS_Subset
<1>3. Cardinality({j, k}) = 2
  <2>1. IsFiniteSet({k}) /\ Cardinality({k}) = 1
    BY FS_Singleton
  <2>2. Cardinality({k} \cup {j}) = 1 + 1
    BY <1>1, <2>1, FS_AddElement
  <2>3. {k} \cup {j} = {j, k}
    OBVIOUS
  <2>. QED
    BY <2>2, <2>3
<1>4. Cardinality({j, k}) <= Cardinality(H) /\ Cardinality(H) \in Nat
  BY <1>2, FS_Subset, FS_CardinalityType
<1> HIDE DEF H
<1>5. Cardinality(H) > 1
  BY <1>3, <1>4
<1>. QED
  BY <1>5 DEF H, Holders

\* While another trade holds the instrument, only own legs are decided on.
LEMMA GuardDecides ==
  ASSUME SharedInv, NEW k \in AwaitingExitKeys(log), NEW row \in Closes(k),
         SharesWithAwaiting(k)
  PROVE  OwnExit(row)
<1> DEFINE b == OrderOf(log, k)
           exits == ExitFills(k, b)
<1>1. /\ b # 0 /\ Stray(k, b) = {}
      /\ \E i \in exits : row = CloseRow(k, fills[i].order, fills[i].leg,
                                      Cardinality({j \in exits : fills[j] = fills[i]}),
                                      ExitReason(b, i))
  BY TwoHold DEF Closes
<1>2. b \in DOMAIN orders /\ orders[b].key = k
  BY <1>1 DEF SharedInv, NamesOwn, OrderOf
<1>3. PICK i \in exits : row = CloseRow(k, fills[i].order, fills[i].leg,
                                       Cardinality({j \in exits : fills[j] = fills[i]}),
                                       ExitReason(b, i))
  BY <1>1
<1>4. OwnLeg(b, i)
  BY <1>1, <1>3 DEF Stray
<1>5. /\ row.key = k /\ row.order = fills[i].order /\ row.leg = fills[i].leg
      /\ row.reason = ExitReason(b, i)
  <2> HIDE DEF exits, b
  <2>. QED
    BY <1>3 DEF CloseRow, BlankRow
<1> HIDE DEF exits, b
<1>. QED
  BY <1>2, <1>4, <1>5 DEF OwnExit, OwnLeg, ExitReason

\* The exit list grows by verdicts alone.
LEMMA ListShrinks ==
  ASSUME log \in Seq(Row), NEW row \in Row, log' = Append(log, row), row.outcome # "reconciled"
  PROVE  AwaitingExitKeys(log') \subseteq AwaitingExitKeys(log)
<1>1. row.key \notin AwaitingExitKeys(log')
  BY LatestAfterAppend DEF AwaitingExitKeys, HasFilled
<1>. QED
  BY <1>1, ListsAfterAppend

\* What a candidate's latest placement names stays the candidate's own.
LEMMA NamesStayOwn ==
  ASSUME TypeInv, NamesOwn, \A row \in todo : row.outcome # "placed", [Next]_vars
  PROVE  NamesOwn'
<1>1. log \in Seq(Row) /\ todo \subseteq Row
  BY DEF TypeInv, TypeOK
<1>2. \A b \in DOMAIN orders : b \in DOMAIN orders' /\ orders'[b].key = orders[b].key
  BY BracketsLast
<1>3. CASE log' = log
  BY <1>2, <1>3 DEF NamesOwn
<1>4. ASSUME NEW row \in Row, log' = Append(log, row), row.outcome # "placed"
      PROVE  NamesOwn'
  <2>1. /\ PlacedKeys(log') = PlacedKeys(log)
        /\ \A k \in Keys : OrderOf(log', k) = OrderOf(log, k)
    BY <1>4, OnlyPlacementsName
  <2>. QED
    BY <1>2, <2>1 DEF NamesOwn, PlacedKeys
<1>5. ASSUME NEW plan \in prompt, Placed(plan) PROVE NamesOwn'
  <2>1. PICK row \in Row :
          /\ log' = Append(log, row) /\ row.outcome = "placed" /\ row.key = plan.key
          /\ row.order = 0 \/ (row.order \in DOMAIN orders' /\ orders'[row.order].key = plan.key)
    BY <1>5, PlacedRow
  <2>2. PlacedKeys(log') = PlacedKeys(log) \cup {row.key}
    BY <1>1, <2>1, PlacedAfterAppend
  <2>3. \A k \in Keys :
          OrderOf(log', k) = IF row.key = k THEN row.order ELSE OrderOf(log, k)
    BY <1>1, <2>1, OrderAfterAppend
  <2>4. \A k \in PlacedKeys(log') : k \in Keys /\ (k # row.key => k \in PlacedKeys(log))
    BY <2>2 DEF PlacedKeys
  <2>. QED
    BY <1>2, <2>1, <2>3, <2>4 DEF NamesOwn
<1>. QED
  BY <1>1, <1>3, <1>4, <1>5, LogSteps

\* The ways a pass moves.
LEMMA PassMoves ==
  ASSUME [Next]_vars
  PROVE  \/ pass' = pass /\ todo' = todo
         \/ \E readable \in SUBSET UnsettledKeys(log) : BeginReconcile(readable)
         \/ \E answered \in BOOLEAN : BeginCloseOut(answered)
         \/ \E row \in todo : Write(row)
         \/ pass' = "idle" /\ todo' = {}
<1>1. CASE VenueStep \/ UNCHANGED vars \/ \E b \in DOMAIN orders : CancelResting(b)
  BY <1>1 DEF VenueStep, vars, CancelResting, passVars
<1>2. CASE SessionStep
  BY <1>2
  DEF SessionStep, OpenSession, CloseSession, OfferRefused, OfferPlanned, Declined, Placed,
      Rejected, PartlyPlaced, Raised, KilledAfterPlace, passVars
<1>3. CASE PassStep
  BY <1>3 DEF PassStep, WriteReconciliation, WriteClose, EndPass, CrashPass
<1>. QED
  BY <1>1, <1>2, <1>3 DEF Next

LEMMA SharedStep ==
  ASSUME SharedInv, [Next]_vars
  PROVE  /\ SharedInv'
         /\ \A i \in DOMAIN log' \ DOMAIN log :
              log'[i].outcome = "closed" /\ SharesWithAwaiting(log'[i].key) => OwnExit(log'[i])
<1>1. /\ TypeInv /\ log \in Seq(Row) /\ todo \subseteq Row
      /\ pass \in {"idle", "settling", "closing"}
      /\ \A row \in todo : row.outcome \in {"reconciled", "closed"}
  BY DEF SharedInv, TypeInv, TypeOK, TodoOfPhase
<1>2. TypeInv' /\ NamesOwn'
  BY <1>1, TypeStep, NamesStayOwn DEF SharedInv
<1>3. \A b \in DOMAIN orders : b \in DOMAIN orders' /\ orders'[b].key = orders[b].key
  BY <1>1, BracketsLast
<1>4. TodoOfPhase'
  <2>1. CASE pass' = pass /\ todo' = todo
    BY <2>1 DEF SharedInv, TodoOfPhase
  <2>2. CASE \E readable \in SUBSET UnsettledKeys(log) : BeginReconcile(readable)
    BY <1>1, <2>2, TodoTypes DEF TodoOfPhase, BeginReconcile
  <2>3. CASE \E answered \in BOOLEAN : BeginCloseOut(answered)
    BY <1>1, <2>3, TodoTypes DEF TodoOfPhase, BeginCloseOut
  <2>4. CASE \E row \in todo : Write(row)
    BY <2>4 DEF SharedInv, TodoOfPhase, Write
  <2>5. CASE pass' = "idle" /\ todo' = {}
    BY <2>5 DEF TodoOfPhase
  <2>. QED
    BY <2>1, <2>2, <2>3, <2>4, <2>5, PassMoves
\* While a pass closes out, nothing joins the exit list.
<1>5. ASSUME pass = "closing", pass' = "closing"
      PROVE  AwaitingExitKeys(log') \subseteq AwaitingExitKeys(log)
  <2>1. ASSUME NEW row \in todo PROVE row \in Row /\ row.outcome # "reconciled"
    BY <1>1, <1>5, <2>1 DEF SharedInv, TodoOfPhase
  <2>2. ASSUME NEW plan \in prompt, Placed(plan)
        PROVE  \E row \in Row : log' = Append(log, row) /\ row.outcome # "reconciled"
    BY <1>1, <2>2, PlacedRow
  <2>. QED
    BY <1>1, <2>1, <2>2, LogSteps, ListShrinks
<1>6. GuardedCloses'
  <2>. SUFFICES ASSUME pass' = "closing", NEW row \in todo', SharesWithAwaiting(row.key)'
                PROVE  OwnExit(row)'
    BY DEF GuardedCloses
  <2>1. OwnExit(row) => OwnExit(row)'
    BY <1>3 DEF OwnExit
  <2>2. ASSUME pass = "closing", row \in todo PROVE OwnExit(row)
    <3>1. SharesWithAwaiting(row.key)
      BY <1>5, <2>2 DEF SharesWithAwaiting
    <3>. QED
      BY <2>2, <3>1 DEF SharedInv, GuardedCloses
  <2>3. ASSUME NEW answered \in BOOLEAN, BeginCloseOut(answered) PROVE OwnExit(row)
    <3>1. PICK k \in AwaitingExitKeys(log) : row \in Closes(k) /\ row.key = k
      BY <2>3, CloseOutReads
    <3>2. SharesWithAwaiting(k)
      BY <2>3, <3>1 DEF SharesWithAwaiting, BeginCloseOut
    <3>. QED
      BY <3>1, <3>2, GuardDecides
  <2>4. ASSUME NEW r \in todo, Write(r) PROVE pass = "closing" /\ row \in todo
    BY <2>4 DEF Write
  <2>5. ~\E readable \in SUBSET UnsettledKeys(log) : BeginReconcile(readable)
    BY DEF BeginReconcile
  <2>. QED
    BY <2>1, <2>2, <2>3, <2>4, <2>5, PassMoves
<1>7. ASSUME NEW i \in DOMAIN log' \ DOMAIN log, log'[i].outcome = "closed",
             SharesWithAwaiting(log'[i].key)
      PROVE  OwnExit(log'[i])
  <2>1. ASSUME NEW row \in Row, log' = Append(log, row) PROVE log'[i] = row
    BY <1>1, <2>1, AppendedRows
  <2>2. log'[i] \in todo
    <3>1. ~\E plan \in prompt : Placed(plan)
      BY <1>1, <1>7, <2>1, PlacedRow
    <3>. QED
      BY <1>1, <1>7, <2>1, <3>1, LogSteps
  <2>3. pass = "closing"
    BY <1>1, <1>7, <2>2 DEF SharedInv, TodoOfPhase
  <2>. QED
    BY <1>7, <2>2, <2>3 DEF SharedInv, GuardedCloses
<1>. QED
  BY <1>2, <1>4, <1>6, <1>7 DEF SharedInv

LEMMA SharedInit == Init => SharedInv
BY InitType DEF SharedInv, NamesOwn, PlacedKeys, RowsWith, RowsOf, TodoOfPhase, GuardedCloses, Init

(***************************************************************************)
(* A close booked while another trade on the exit list shares the          *)
(* instrument is of an exit its own bracket's leg ids name: on either      *)
(* venue, under every fault, however many candidates share instruments,    *)
(* and though the guard looked at the list some steps before the row was   *)
(* written.                                                                *)
(***************************************************************************)
THEOREM SharedClosesAreOwn == Spec => SharedExitsAreOwn
<1>1. SharedInv /\ [Next]_vars =>
        /\ SharedInv'
        /\ \A i \in DOMAIN log' \ DOMAIN log :
             log'[i].outcome = "closed" /\ SharesWithAwaiting(log'[i].key) => OwnExit(log'[i])
  BY SharedStep
<1>2. SharedInv /\ [Next]_vars =>
        \A i \in DOMAIN log' \ DOMAIN log :
          LET row == log'[i] IN
          row.outcome = "closed" /\ SharesWithAwaiting(row.key) =>
            orders[row.order].key = row.key /\ row.reason = row.leg /\ row.leg # "manual"
  BY <1>1 DEF OwnExit
<1>. QED
  BY <1>1, <1>2, SharedInit, PTL DEF Spec, SharedExitsAreOwn
=============================================================================
