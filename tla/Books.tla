------------------------------- MODULE Books -------------------------------
(***************************************************************************)
(* Portfolio files: oracle.portfolios reads and writes them, plaid-sync,   *)
(* wallet-sync and the exchange syncs (oracle.plaid_cli, wallet_cli,       *)
(* exchange_cli) put what Accounts read into them, oracle.balance_store    *)
(* keeps the savings balances beside them.  Pure operators: each sync maps *)
(* the file it found to the file it leaves.                                *)
(*                                                                         *)
(* A file is absent, unreadable, or a document: the hand-written settings  *)
(* above `positions:` and the generated part.  Shares are a whole number   *)
(* of the eighth decimals that are printed.                                *)
(***************************************************************************)
EXTENDS Accounts

CONSTANTS Starter,        \* the document `--init` begins with
          MinValue,       \* the value floor when nobody sets one
          HalfLives,      \* horizon -> days a view of it stands
          AllKinds        \* the kinds of level there are

NoFile == [kind |-> "absent"]
Unreadable == [kind |-> "unreadable"]
IsDoc(file) == file.kind = "document"

Horizons == {"scalp", "swing", "position", "macro"}
RiskPostures == {"conservative", "moderate", "aggressive"}
DefaultDomain == "stock"

(***************************************************************************)
(* Reading a file.                                                         *)
(***************************************************************************)
BenchmarkStands(b) ==
  \/ b.type = "symbol" /\ b.key # ""
  \/ b.type = "flat_rate" /\ b.rate # {}
  \/ b.type = "held_flat"

MandateStands(m) ==
  /\ m.name # "" /\ m.horizon \in Horizons /\ m.posture \in RiskPostures
  /\ Len(m.benchmarks) \in 1 .. 3
  /\ \A i \in DOMAIN m.benchmarks : BenchmarkStands(m.benchmarks[i])

\* A conservative mandate reads the levels first, the others the roster.
LeadsWith(m) == IF m.posture = "conservative" THEN "levels" ELSE "sentiment"

OneRowPerTicker(positions) == \A r, s \in positions : r.ticker = s.ticker => r = s

Loads(file) ==
  /\ IsDoc(file)
  /\ file.positions # {} /\ \A r \in file.positions : r.ticker # "" /\ r.shares > 0
  /\ OneRowPerTicker(file.positions)
  /\ file.mandate # {} /\ MandateStands(Only(file.mandate))
  /\ \A kinds \in file.levels : kinds \subseteq AllKinds

DomainOf(file) == IF file.domain = {} THEN DefaultDomain ELSE Only(file.domain)

\* What a reader gets of a file that loads; a row that names no domain is of
\* the file's, and a file that is silent is stale after its horizon's half-life.
Load(file) ==
  LET mandate == Only(file.mandate)
  IN [mandate    |-> mandate,
      positions  |-> {[r EXCEPT !.domain = IF r.domain = "" THEN DomainOf(file) ELSE r.domain] :
                        r \in file.positions},
      levels     |-> IF file.levels = {} THEN AllKinds ELSE Only(file.levels),
      cash       |-> file.cash, cashBy |-> file.cashBy,
      staleAfter |-> IF file.staleAfter = {} THEN HalfLives[mandate.horizon] ELSE Only(file.staleAfter)]

IsStale(book, age) == age > book.staleAfter

\* The files to load, each once, the named ones first.
NamesToLoad(explicit, every, available) ==
  LET all == explicit \o (IF every THEN available ELSE <<>>)
  IN FoldLeft(LAMBDA seen, n : IF Contains(seen, n) THEN seen ELSE Append(seen, n), <<>>, all)

(***************************************************************************)
(* Writing one: the settings stay as they were, the rest is replaced.      *)
(***************************************************************************)
\* A first write has a header and no mandate.
Header(domain) ==
  [kind |-> "document", mandate |-> {}, levels |-> {}, domain |-> {domain}, staleAfter |-> {},
   minValue |-> {}, accounts |-> {}, source |-> "zerion", wallets |-> 0,
   positions |-> {}, cash |-> {}, cashBy |-> <<>>]

\* A row names its domain where it is not the file's, and the cash is split
\* where more than one account holds some.
WritePositions(file, domain, rows, cash, cashBy) ==
  LET doc == IF IsDoc(file) THEN file ELSE Header(domain)
  IN [doc EXCEPT !.positions = {[r EXCEPT !.domain = IF @ = DomainOf(doc) THEN "" ELSE @] : r \in rows},
                 !.cash = cash,
                 !.cashBy = IF Cardinality(DOMAIN cashBy) > 1 THEN cashBy ELSE <<>>]

Left(file, exit) == [file |-> file, exit |-> exit]

(***************************************************************************)
(* plaid-sync, one account.  A file that is not YAML stops the command.    *)
(***************************************************************************)
Narrow(file) == IF IsDoc(file) THEN file.accounts ELSE {}

PlaidSync(file, answer, dryRun) ==
  LET rows == PlaidRows(answer.payload, Narrow(file))
      cash == CashFrom(answer.payload, Narrow(file))
  IN IF ~answer.reached THEN Left(file, 1)
     ELSE IF file.kind = "unreadable" THEN Left(file, 2)
     ELSE IF rows = {} THEN Left(file, 1)
     ELSE IF dryRun THEN Left(file, 0)
     ELSE Left(WritePositions(file, DefaultDomain, rows, cash.total, cash.by), 0)

\* History is kept for the books a held-flat benchmark judges.
WantsHistory(file) ==
  Loads(file) /\ \E i \in DOMAIN Only(file.mandate).benchmarks :
                   Only(file.mandate).benchmarks[i].type = "held_flat"

\* The token of an account already linked is left alone.
RememberToken(env, portfolio, token) ==
  IF portfolio \in DOMAIN env THEN env
  ELSE [p \in DOMAIN env \cup {portfolio} |-> IF p = portfolio THEN token ELSE env[p]]

\* What `plaid-sync` is run for: the accounts named, or every linked one.
SyncNames(named, available, env) ==
  IF named # <<>> THEN named ELSE SelectSeq(available, LAMBDA n : n \in DOMAIN env)

(***************************************************************************)
(* The balances beside the book (oracle.balance_store).                    *)
(***************************************************************************)
\* Every account answered tonight is overwritten, the others are carried; a
\* file that cannot be read is left to be looked at.
MergeBalances(store, balances, today) ==
  IF store.kind = "unreadable" THEN store
  ELSE LET old == IF store.kind = "absent" THEN <<>> ELSE store.accounts
       IN [kind |-> "document",
           accounts |-> [n \in DOMAIN old \cup DOMAIN balances |->
             IF n \in DOMAIN balances THEN [balance |-> balances[n], fetched |-> today] ELSE old[n]]]

\* The accounts an answer no longer names.
CarriedBalances(store, balances) ==
  IF store.kind = "document" THEN DOMAIN store.accounts \ DOMAIN balances ELSE {}

SyncBalances(store, payload, dryRun, today) ==
  LET found == BalancesFrom(payload)
  IN IF found = Refused THEN Left(store, 1)
     ELSE IF DOMAIN found.balances = {} \/ dryRun THEN Left(store, 0)
     ELSE Left(MergeBalances(store, found.balances, today), IF store.kind = "unreadable" THEN 1 ELSE 0)

(***************************************************************************)
(* wallet-sync, one account: every address on it folds into one book.      *)
(***************************************************************************)
\* Through Alchemy: each address read, its failed networks asked again.
OneAlchemy(reads, floor, prefer) ==
  LET sols   == {i \in DOMAIN reads : reads[i].stake # {}}
      staked == IF sols = {} THEN <<>>
                ELSE [t \in {"SOL"} |-> MapThenSumSet(LAMBDA i : Only(reads[i].stake), sols)]
      healed(i) == ReadAddress(reads[i], reads[i].again)
      found  == WalletRows(FlattenSeq([i \in DOMAIN reads |-> healed(i).tokens]), floor, prefer, staked)
  IN IF \E i \in DOMAIN reads : reads[i].raised THEN Refused
     ELSE [kind |-> "read", rows |-> found.rows, cash |-> found.cash,
           failed |-> UNION {healed(i).failed : i \in DOMAIN reads} \cup found.unpriced]

\* Through Zerion: one call answers for every chain or raises.
OneZerion(reads, floor, prefer) ==
  LET found == ZerionRows(FlattenSeq([i \in DOMAIN reads |-> reads[i].tokens]), floor, prefer)
  IN IF \E i \in DOMAIN reads : reads[i].raised THEN Refused
     ELSE [kind |-> "read", rows |-> found.rows, cash |-> found.cash, failed |-> {}]

Floor(file, given) ==
  IF given # {} THEN Only(given) ELSE IF IsDoc(file) /\ file.minValue # {} THEN Only(file.minValue) ELSE MinValue

WalletSync(file, given, reads, prefer, dryRun) ==
  LET floor == Floor(file, given)
      found == IF file.source = "alchemy" THEN OneAlchemy(reads, floor, prefer)
               ELSE OneZerion(reads, floor, prefer)
  IN IF file.kind = "unreadable" THEN Left(file, 2)
     ELSE IF file.kind = "absent" THEN Left(file, 1)
     ELSE IF file.wallets = 0 \/ file.source \notin {"alchemy", "zerion"} THEN Left(file, 1)
     ELSE IF found = Refused THEN Left(file, 1)
     ELSE IF found.failed # {} \/ found.rows = {} THEN Left(file, 1)
     ELSE IF dryRun THEN Left(file, 0)
     ELSE Left(WritePositions(file, "crypto", found.rows, found.cash, <<>>), 0)

(***************************************************************************)
(* kraken-sync and coinbase-sync.                                          *)
(***************************************************************************)
\* A missing book is a hint and no failure; a new one is staged beside the file
\* it becomes.
ExchangeSync(file, answer, init, dryRun) ==
  LET doc == IF init THEN Starter ELSE file
      rows == answer.rows
  IN CASE init /\ file # NoFile -> Left(file, 1)
       [] ~init /\ file = NoFile -> Left(file, 0)
       [] OTHER ->
            IF \/ doc.kind = "unreadable"
               \/ doc.kind = "document" /\ doc.mandate = {}
               \/ answer = Refused
            THEN Left(file, 1)
            ELSE IF rows = {} THEN Left(file, 1)
            ELSE IF dryRun THEN Left(file, 0)
            ELSE Left(WritePositions(doc, "crypto", rows, answer.cash, <<>>), 0)
=============================================================================
