------------------------------ MODULE OrderLog ------------------------------
(***************************************************************************)
(* The append-only order log, data/execution/orders.jsonl, as              *)
(* execution/store.py reads it.  A log is a sequence of rows of ONE        *)
(* network: every reader filters by network before it looks at anything    *)
(* else, so logs of different networks never meet.                         *)
(*                                                                         *)
(* Nothing in the file is ever rewritten.  Every view of it is "the last   *)
(* row that ..." in FILE order, so each view is one CHOOSE of an index.    *)
(***************************************************************************)
EXTENDS Naturals, Sequences

CONSTANT Keys           \* candidate keys: one per stance and zone

Outcomes == {"placed", "failed", "refused", "reconciled", "closed"}
Legs     == {"target", "stop", "manual"}
\* What reason_for reads off an exit's order id; it cannot tell ("unknown") when
\* the log does not hold the ids of a bracket's three legs.
Reasons  == Legs \cup {"unknown"}

(***************************************************************************)
(* One row.  order: the bracket the order ids name (0: the reply named     *)
(* none).  On a closed row, order and leg together are exit_order_id,      *)
(* filled is exit_qty, and reason says which leg the candidate takes that  *)
(* order for.                                                              *)
(***************************************************************************)
Row == [outcome : Outcomes, key : Keys, order : Nat, risk : Nat,
        status : {"", "filled", "canceled"}, filled : Nat,
        leg : Legs \cup {"", "entry"}, reason : Reasons \cup {""}]

BlankRow(outcome, k) ==
  [outcome |-> outcome, key |-> k, order |-> 0, risk |-> 0,
   status |-> "", filled |-> 0, leg |-> "", reason |-> ""]

PlacementRow(k, order, risk, ok) ==
  [BlankRow(IF ok THEN "placed" ELSE "failed", k)
     EXCEPT !.order = order, !.risk = risk]

RefusalRow(k) == BlankRow("refused", k)

ReconciliationRow(k, status, filled) ==
  [BlankRow("reconciled", k) EXCEPT !.status = status, !.filled = filled]

CloseRow(k, order, leg, qty, reason) ==
  [BlankRow("closed", k)
     EXCEPT !.order = order, !.leg = leg, !.filled = qty, !.reason = reason]

-----------------------------------------------------------------------------
Last(S) == CHOOSE i \in S : \A j \in S : j <= i

RowsOf(log, k)           == {i \in DOMAIN log : log[i].key = k}
RowsWith(log, k, outcome) == {i \in RowsOf(log, k) : log[i].outcome = outcome}

LatestRow(log, k)           == log[Last(RowsOf(log, k))]
LatestWith(log, k, outcome) == log[Last(RowsWith(log, k, outcome))]

PlacedKeys(log) == {k \in Keys : RowsWith(log, k, "placed") # {}}

\* Mutation: anything ever placed is still to be settled.
EverPlacedKeys(log) == PlacedKeys(log)

\* A key's latest row counts whatever its outcome: a refusal is a row too.
UnsettledKeys(log) ==
  {k \in Keys : RowsOf(log, k) # {} /\ LatestRow(log, k).outcome = "placed"}

HasFilled(row) == row.outcome = "reconciled" /\ row.status = "filled" /\ row.filled > 0

\* Mutation: the latest verdict decides, not the latest row.
EverFilledKeys(log) ==
  {k \in Keys : /\ RowsWith(log, k, "reconciled") # {}
                /\ HasFilled(LatestWith(log, k, "reconciled"))}

AwaitingExitKeys(log) ==
  {k \in Keys : RowsOf(log, k) # {} /\ HasFilled(LatestRow(log, k))}

\* The latest placement wins, even when it names no order (0).
OrderOf(log, k) ==
  IF k \in PlacedKeys(log) THEN LatestWith(log, k, "placed").order ELSE 0

RiskByKey(log, k) == LatestWith(log, k, "placed").risk
=============================================================================
