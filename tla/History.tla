------------------------------ MODULE History ------------------------------
(***************************************************************************)
(* The transaction history plaid-sync keeps for a book                     *)
(* (plaid_cli._sync_transactions, oracle.transaction_store): a window of   *)
(* the broker's feed is read page by page and replaces what the file held  *)
(* of that window.  Meanwhile the feed goes on: rows are posted, some of   *)
(* them late, and rows are taken back.                                     *)
(*                                                                         *)
(* A correction is a row taken back and another posted.  A row's date is   *)
(* its whole content.                                                      *)
(***************************************************************************)
EXTENDS Integers, FiniteSetsExt

CONSTANTS Rows,        \* the transactions there can be
          Outsiders,   \* those a pull counts and does not keep: of an account the book
               \* does not cover, or of a form transactions_from cannot read
          FirstDay, LastDay,
          HistoryFloor,  \* days the first pull reaches back
          Resettle,      \* days a later pull reaches back from the newest row
          PageSize,
          MaxEdits, MaxFaults,
          Failures       \* what can go wrong: "page", "blank", "short", "killed"

\* A row is the number the broker gave it.
ASSUME HistoryConstants ==
  /\ Rows \subseteq Int /\ IsFiniteSet(Rows)
  /\ Outsiders \subseteq Rows /\ PageSize \in Nat \ {0}
  /\ Resettle \in Nat /\ HistoryFloor \in Nat /\ Resettle < HistoryFloor
  /\ FirstDay \in Nat

VARIABLES today,
          feed,    \* row -> its date at the broker, Absent if it is not there
          edits,   \* how often the feed changed
          cache,   \* data/transactions/<book>.json
          pull,    \* the pull in progress: its window, what it has read
          faults   \* how much went wrong

historyVars == <<today, feed, edits, cache, pull, faults>>

Absent == 0
NoRow == [r \in Rows |-> Absent]
Ours == Rows \ Outsiders
NoDocument == [kind |-> "absent"]
Torn == [kind |-> "torn"]
NoPull == [kind |-> "none"]

Dated(rows, first, last) == {r \in Rows : rows[r] # Absent /\ rows[r] \in first .. last}

\* What the broker has of the window a pull reads, and where in it a row stands:
\* it serves the newest first.
Window == Dated(feed, pull.start, pull.end)
UpToRow(r) == {q \in Window : feed[q] > feed[r] \/ (feed[q] = feed[r] /\ q <= r)}
Place(r) == Cardinality(UpToRow(r))

\* The newest row on file; with none, today stands in for it.
Newest ==
  LET dates == {cache.rows[r] : r \in Rows} \ {Absent}
  IN IF dates = {} THEN today ELSE Max(dates)

\* Mutation: a later pull starts at the newest row on file.
WindowStartsAtNewest ==
  LET floor == today - HistoryFloor
  IN IF cache.kind = "document" /\ cache.reaches <= floor THEN Newest ELSE floor

\* Where the next pull starts: the whole history until one has reached it.
WindowStart ==
  LET floor == today - HistoryFloor
  IN IF cache.kind = "document" /\ cache.reaches <= floor THEN Newest - Resettle ELSE floor

HistoryInit ==
  /\ today = FirstDay
  /\ feed \in [Rows -> 1 .. FirstDay \cup {Absent}]
  /\ edits = 0 /\ faults = 0
  /\ cache = NoDocument /\ pull = NoPull

(***************************************************************************)
(* The broker.                                                             *)
(***************************************************************************)
Disturbed == IF pull = NoPull THEN pull ELSE [pull EXCEPT !.disturbed = TRUE]

Edit(r, date) ==
  /\ edits < MaxEdits /\ edits' = edits + 1
  /\ feed' = [feed EXCEPT ![r] = date]
  /\ pull' = Disturbed
  /\ UNCHANGED <<today, cache, faults>>

\* A row settles at most Resettle days after its date.
Posts == \E r \in Rows : \E date \in (today - Resettle) .. today :
           feed[r] = Absent /\ Edit(r, date)
TakesBack == \E r \in Rows : feed[r] # Absent /\ Edit(r, Absent)

DayTurns ==
  /\ today < LastDay /\ pull = NoPull
  /\ today' = today + 1
  /\ UNCHANGED <<feed, edits, cache, pull, faults>>

(***************************************************************************)
(* A pull.                                                                 *)
(***************************************************************************)
\* A file that cannot be parsed stops the command before it asks anything.
OpenPull ==
  /\ pull = NoPull /\ cache # Torn
  /\ pull' = [kind |-> "reading", start |-> WindowStart, end |-> today, offset |-> 0,
              read |-> NoRow, disturbed |-> FALSE]
  /\ UNCHANGED <<today, feed, edits, cache, faults>>

\* Mutation: the walk stops at a page that held nothing of ours.
PageOfOurs(raw, total, short) ==
  /\ pull.kind = "reading"
  /\ LET offset == pull.offset + Cardinality(raw)
     IN pull' = [pull EXCEPT !.offset = offset, !.disturbed = @ \/ short,
                             !.read = [r \in Rows |-> IF r \in raw \cap Ours THEN feed[r] ELSE @[r]],
                             !.kind = IF offset >= total \/ raw \cap Ours = {} THEN "read" ELSE "reading"]
  /\ UNCHANGED <<today, feed, edits, cache>>

\* A page of raw rows: ours are kept, all are counted.  The pull is over when
\* the count reaches the total, or when the page is empty.
Page(raw, total, short) ==
  /\ pull.kind = "reading"
  /\ LET offset == pull.offset + Cardinality(raw)
     IN pull' = [pull EXCEPT !.offset = offset, !.disturbed = @ \/ short,
                             !.read = [r \in Rows |-> IF r \in raw \cap Ours THEN feed[r] ELSE @[r]],
                             !.kind = IF offset >= total \/ raw = {} THEN "read" ELSE "reading"]
  /\ UNCHANGED <<today, feed, edits, cache>>

Raw == {r \in Window : Place(r) \in (pull.offset + 1) .. (pull.offset + PageSize)}

ReadPage ==
  /\ pull.kind = "reading"
  /\ Page(Raw, Cardinality(Window), FALSE)
  /\ UNCHANGED faults

Fault(kind) == kind \in Failures /\ faults < MaxFaults /\ faults' = faults + 1

\* The answer is 200 and empty although the window holds rows.
BlankPage == pull.kind = "reading" /\ pull.offset = 0 /\ Fault("blank") /\ Page({}, 0, FALSE)

\* A later page comes back empty, or a page comes back without its total: the
\* pull is over with part of its window read, and commits that part.
ShortPage ==
  /\ pull.kind = "reading" /\ Fault("short")
  /\ \/ pull.offset > 0 /\ Page({}, Cardinality(Window), TRUE)
     \/ Page(Raw, Cardinality(Raw), TRUE)

PageFails ==
  /\ pull.kind = "reading" /\ Fault("page")
  /\ pull' = NoPull
  /\ UNCHANGED <<today, feed, edits, cache>>

OnFile == IF cache.kind = "document" THEN cache.rows ELSE NoRow

\* What was on file of the window goes, what was read comes in its place.
Replaced ==
  [kind    |-> "document",
   rows    |-> [r \in Rows |-> IF pull.read[r] # Absent THEN pull.read[r]
                               ELSE IF OnFile[r] \in pull.start .. pull.end THEN Absent ELSE OnFile[r]],
   reaches |-> IF cache.kind = "document" THEN Min({pull.start, cache.reaches}) ELSE pull.start]

\* Nothing read of a window that has rows on file is taken for a hiccup.
Hiccup == pull.read = NoRow /\ Dated(OnFile, pull.start, pull.end) # {}

Commit ==
  /\ pull.kind = "read"
  /\ cache' = IF Hiccup THEN cache ELSE Replaced
  /\ pull' = NoPull
  /\ UNCHANGED <<today, feed, edits, faults>>

\* The write is in place: killed in it, the file is cut short.
KilledWriting ==
  /\ pull.kind = "read" /\ ~Hiccup /\ Fault("killed")
  /\ cache' = Torn /\ pull' = NoPull
  /\ UNCHANGED <<today, feed, edits>>

\* Somebody deletes the file, which the store says is always safe.
Deletes ==
  /\ cache = Torn /\ cache' = NoDocument
  /\ UNCHANGED <<today, feed, edits, pull, faults>>

HistoryNext ==
  \/ Posts \/ TakesBack \/ DayTurns
  \/ OpenPull \/ ReadPage \/ BlankPage \/ ShortPage \/ PageFails
  \/ Commit \/ KilledWriting \/ Deletes

HistorySpec == HistoryInit /\ [][HistoryNext]_historyVars

\* plaid-sync runs every night and a run goes on to its end; a torn file is
\* seen and deleted.
FairHistory ==
  /\ HistorySpec
  /\ WF_historyVars(OpenPull) /\ WF_historyVars(ReadPage)
  /\ WF_historyVars(Commit) /\ WF_historyVars(Deletes)

-----------------------------------------------------------------------------
Known(r) == OnFile[r] # Absent

\* A row that is on file and still stands at the broker is dropped from the file
\* by no pull that read its window as it stands, which a feed that moved
\* meanwhile or a short answer keeps it from (_sync_transactions: one commit at
\* the end, paged on the raw count; replace_window drops a window wholesale).
NothingStandingIsDropped ==
  [][\A r \in Ours :
       (Known(r) /\ feed[r] # Absent /\ cache'.kind = "document" /\ cache'.rows[r] = Absent)
         => pull.disturbed]_historyVars

\* Every row that stands at the broker is on file in the end, unless it is older
\* than a pull reaches back: from the newest row on file, or from today when
\* there is none (plaid_cli._window, _RESETTLE_WINDOW_DAYS).
RecentRowsAreKept ==
  \A r \in Ours :
    feed[r] # Absent ~> \/ Known(r) \/ feed[r] = Absent
                        \/ cache.kind = "document" /\ feed[r] < Newest - Resettle
                        \/ feed[r] < today - HistoryFloor

\* "An interrupted first backfill must stay repairable by a later run": whatever
\* stands at the broker within the first pull's reach is on file in the end
\* (plaid_cli._window).
BackfillIsRepaired ==
  \A r \in Ours :
    feed[r] # Absent ~> \/ Known(r) \/ feed[r] = Absent \/ feed[r] < today - HistoryFloor
=============================================================================
