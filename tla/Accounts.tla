------------------------------ MODULE Accounts ------------------------------
(***************************************************************************)
(* What an account holds, from what its API answers: oracle.plaid for the  *)
(* brokers, oracle.wallet (Alchemy) and oracle.zerion for the wallets,     *)
(* oracle.kraken_account and oracle.coinbase_account for the exchanges.    *)
(* Each turns an answer into the rows of a portfolio file, or refuses it   *)
(* whole.  Pure operators.                                                 *)
(*                                                                         *)
(* Quantities and prices are whole numbers.  A value a venue may leave out *)
(* is a set of at most one: {} for nothing said.                           *)
(***************************************************************************)
EXTENDS Integers, Sequences, FiniteSetsExt, SequencesExt

CONSTANTS Stables,        \* the stablecoins, which are cash
          Native,           \* network -> the ticker of its own coin
          ContractTicker,   \* contract -> the ticker it goes by here
          ForeignFiat,      \* currencies no book has a place for
          Renames,          \* a venue's name for an asset -> the usual one
          MaxPages          \* pages a wallet is read for

Only(s) == CHOOSE x \in s : TRUE
Total(seq, amount(_)) == FoldLeft(LAMBDA sum, x : sum + amount(x), 0, seq)
Where(seq, f(_), v) == SelectSeq(seq, LAMBDA x : f(x) = v)
Image(seq, f(_)) == {f(seq[i]) : i \in DOMAIN seq}
Apply(f, x) == IF x \in DOMAIN f THEN f[x] ELSE x

Row(ticker, shares, cost, domain, figi, mark, staked) ==
  [ticker |-> ticker, shares |-> shares, cost |-> cost, domain |-> domain,
   figi |-> figi, mark |-> mark, staked |-> staked]

TickerOf(x) == x.ticker
ValueOf(x) == x.value
Refused == [kind |-> "refused"]

(***************************************************************************)
(* A broker through Plaid.                                                 *)
(***************************************************************************)
\* Naming no account means all of them.
Covers(narrowed, account) == narrowed = {} \/ account \in narrowed

Usable(h) == h.kind # "cash" /\ h.ticker # "" /\ h.quantity # {} /\ \A q \in h.quantity : q > 0

\* One security in several accounts is one row; a basis missing from any of
\* them leaves the row without a cost.
PlaidRow(ticker, held) ==
  LET total == Total(held, LAMBDA h : Only(h.quantity))
      basis == IF \E i \in DOMAIN held : held[i].basis = {} THEN {}
               ELSE {Total(held, LAMBDA h : Only(h.basis)) \div total}
  IN Row(ticker, total, basis, IF Last(held).kind = "crypto" THEN "crypto" ELSE "stock",
         Last(held).figi, Last(held).price, {})

PlaidRows(payload, narrowed) ==
  LET held == SelectSeq(payload.holdings, LAMBDA h : Covers(narrowed, h.account) /\ Usable(h))
  IN {PlaidRow(t, Where(held, TickerOf, t)) : t \in Image(held, TickerOf)}

\* Investment accounts that were reachable and held nothing.
Idle(payload, narrowed) ==
  {a \in Range(payload.accounts) :
     /\ a.type = "investment" /\ Covers(narrowed, a.id)
     /\ \A i \in DOMAIN payload.holdings : payload.holdings[i].account # a.id}

\* A cash holding beats what the account calls available; an account that says
\* neither has no entry, and the entries go by the account's name.
CashFrom(payload, narrowed) ==
  LET kept(a) == SelectSeq(payload.holdings,
                   LAMBDA h : h.account = a.id /\ h.kind = "cash" /\ h.value # {})
      cash(a) == IF kept(a) # <<>> THEN {Total(kept(a), LAMBDA h : Only(h.value))} ELSE a.available
      said    == SelectSeq(payload.accounts, LAMBDA a :
                   a.type = "investment" /\ Covers(narrowed, a.id) /\ cash(a) # {})
      by      == [n \in {said[i].name : i \in DOMAIN said} |->
                   Only(cash(Last(SelectSeq(said, LAMBDA a : a.name = n))))]
  IN [by    |-> by,
      total |-> IF said = <<>> THEN {} ELSE {MapThenSumSet(LAMBDA n : by[n], DOMAIN by)}]

\* What the savings and current accounts hold; refused rather than guessed when
\* two of them go by one name or one by none.
BalancesFrom(payload) ==
  LET found == SelectSeq(payload.accounts, LAMBDA a : a.type = "depository")
      names == {found[i].name : i \in DOMAIN found}
  IN IF "" \in names \/ Cardinality(names) # Len(found) THEN Refused
     ELSE [kind |-> "read",
           balances |-> [n \in names |->
             LET a == Only({x \in Range(found) : x.name = n})
             IN [available |-> a.available, current |-> a.current]]]

\* The transactions of one page that can be kept.
TransactionsFrom(page, narrowed) ==
  SelectSeq(page, LAMBDA t : Covers(narrowed, t.account) /\ t.id # "" /\ t.dated)

(***************************************************************************)
(* Wallets: candidates, and one row per ticker from them.                  *)
(***************************************************************************)
Candidate(ticker, units, price, contract, staked) ==
  [ticker |-> ticker, units |-> units, price |-> price, contract |-> contract, staked |-> staked]

Worth(c) == c.units * c.price

\* One ticker's candidates once a pin has picked among the contracts.
Pinned(group, prefer) ==
  LET t == group[1].ticker
  IN IF t \in DOMAIN prefer THEN SelectSeq(group, LAMBDA c : c.contract = prefer[t]) ELSE group

\* Quotes further than a quarter apart are two assets under one name.
Agree(group) ==
  LET prices == {group[i].price : i \in DOMAIN group}
  IN 4 * (Max(prices) - Min(prices)) <= Max(prices)

\* The richest contract gives the row its mark and its figi.
FoldedRow(group) ==
  LET most   == Max({Worth(group[i]) : i \in DOMAIN group})
      lead   == SelectSeq(group, LAMBDA c : Worth(c) = most)[1]
      staked == Total(group, LAMBDA c : c.staked)
  IN Row(lead.ticker, Total(group, LAMBDA c : c.units + c.staked), {}, "crypto", lead.contract,
         {lead.price}, IF staked = 0 THEN {} ELSE {staked})

\* Candidates that cannot be one asset give no row at all.
Fold(candidates, prefer) ==
  {FoldedRow(g) : g \in {g \in {Pinned(Where(candidates, TickerOf, t), prefer) :
                                 t \in Image(candidates, TickerOf)} :
                           g # <<>> /\ Agree(g)}}

(***************************************************************************)
(* A wallet through Alchemy.                                               *)
(***************************************************************************)
\* The pages read, and the networks that did not answer: "*" when pages remain.
WalletRead(pages) ==
  LET ends == {i \in DOMAIN pages : ~pages[i].more}
      last == Min(ends \cup {Len(pages), MaxPages})
      read == SubSeq(pages, 1, last)
  IN IF \E i \in DOMAIN read : read[i].refused THEN Refused
     ELSE [kind   |-> "read",
           tokens |-> FlattenSeq([i \in DOMAIN read |-> read[i].tokens]),
           failed |-> UNION {read[i].partial : i \in DOMAIN read}
                        \cup (IF pages[last].more THEN {"*"} ELSE {})]

\* One address: a network that failed is asked again alone, and what the first
\* answer said of it is dropped.
ReadAddress(first, again) ==
  LET retried == first.failed \ {"*"}
      kept    == SelectSeq(first.tokens, LAMBDA t : t.network \notin retried)
      healed  == {n \in retried : again[n].failed = {}}
  IN [tokens |-> kept \o FlattenSeq([i \in 1 .. Cardinality(healed) |->
                   again[SetToSeq(healed)[i]].tokens]),
      failed |-> (first.failed \cap {"*"}) \cup UNION {again[n].failed : n \in retried}]

IsNative(t) == t.contract = ""
\* A network's own coin is known by the network, a token by what it declares.
SymbolOf(t) ==
  IF IsNative(t) THEN IF t.network \in DOMAIN Native THEN Native[t.network] ELSE ""
  ELSE IF ~t.readable THEN ""
  ELSE IF t.contract \in DOMAIN ContractTicker THEN ContractTicker[t.contract] ELSE t.symbol

\* What one token counts as.
TokenClass(t, floor, staked) ==
  CASE SymbolOf(t) = "" -> "unreadable"
    [] SymbolOf(t) # "" /\ t.units = 0 -> "empty"
    [] SymbolOf(t) # "" /\ t.units # 0 /\ t.price = {} -> "unquoted"
    [] OTHER ->
         IF SymbolOf(t) \in Stables THEN "cash"
         ELSE IF t.units * Only(t.price) < floor /\ ~(IsNative(t) /\ SymbolOf(t) \in DOMAIN staked)
         THEN "dust" ELSE "candidate"

\* The quote of a ticker's first native token, held or not.
NativePrice(tokens, ticker) ==
  LET own == SelectSeq(tokens, LAMBDA t : IsNative(t) /\ SymbolOf(t) = ticker)
  IN IF own = <<>> THEN {} ELSE own[1].price

\* A stake joins its ticker's first native candidate, or stands as one of its own.
WithStake(candidates, tokens, staked) ==
  LET join(found, ticker) ==
        LET native == {i \in DOMAIN found : found[i].ticker = ticker /\ found[i].contract = ""}
            price  == NativePrice(tokens, ticker)
        IN IF staked[ticker] = 0 THEN found
           ELSE IF native # {} THEN [found EXCEPT ![Min(native)].staked = @ + staked[ticker]]
           ELSE IF price = {} THEN found
           ELSE Append(found, Candidate(ticker, 0, Only(price), "", staked[ticker]))
  IN FoldLeft(join, candidates, SetToSeq(DOMAIN staked))

\* Rows, cash, and the staked tickers that reached no row with their stake whole.
WalletRows(tokens, floor, prefer, staked) ==
  LET class(t) == TokenClass(t, floor, staked)
      liquid   == [i \in DOMAIN Where(tokens, class, "candidate") |->
                     LET t == Where(tokens, class, "candidate")[i]
                     IN Candidate(SymbolOf(t), t.units, Only(t.price), t.contract, 0)]
      whole    == SelectSeq(WithStake(liquid, tokens, staked), LAMBDA c :
                    c.staked = 0 \/ (c.units + c.staked) * c.price >= floor)
      rows     == Fold(whole, prefer)
      cash     == Where(tokens, class, "cash")
  IN [rows     |-> rows,
      cash     |-> IF cash = <<>> THEN {} ELSE {Total(cash, LAMBDA t : t.units * Only(t.price))},
      unpriced |-> {t \in DOMAIN staked :
                      staked[t] # 0 /\ ~\E r \in rows : r.ticker = t /\ \E s \in r.staked : s >= staked[t]}]

(***************************************************************************)
(* A wallet through Zerion.                                                *)
(***************************************************************************)
IsStaked(p) == p.type \in {"staked", "locked"}

\* A staked entry that restates a plain balance of the same size on its chain.
IsReceiptDuplicate(p, positions) ==
  \E i \in DOMAIN positions :
    /\ positions[i].type = "wallet" /\ positions[i].chain = p.chain
    /\ positions[i].ticker # p.ticker /\ positions[i].quantity = p.quantity

PositionClass(p, positions) ==
  CASE p.ticker = "" -> "unreadable"
    [] p.ticker # "" /\ (p.value = {} \/ p.price = {}) -> "unquoted"
    [] OTHER -> IF IsStaked(p) /\ IsReceiptDuplicate(p, positions) THEN "duplicate"
                ELSE IF p.ticker \in Stables THEN "cash" ELSE "candidate"

\* Folded first, and only then held against the floor.
ZerionRows(positions, floor, prefer) ==
  LET class(p) == PositionClass(p, positions)
      kept     == Where(positions, class, "candidate")
      found    == [i \in DOMAIN kept |->
                     LET p == kept[i]
                     IN Candidate(p.ticker, IF IsStaked(p) THEN 0 ELSE p.quantity, Only(p.price),
                                  p.contract, IF IsStaked(p) THEN p.quantity ELSE 0)]
      cash     == Where(positions, class, "cash")
  IN [rows     |-> {r \in Fold(found, prefer) : r.shares * Only(r.mark) >= floor},
      cash     |-> IF cash = <<>> THEN {} ELSE {Total(cash, LAMBDA p : Only(p.value))},
      unpriced |-> {}]

(***************************************************************************)
(* Kraken.  Balances come in the order of their codes.                     *)
(***************************************************************************)
EarnSuffixes == {"S", "M", "P", "B", "F"}
FeeCredits == {"KFEE", "FEE"}

KrakenTicker(b) == Apply(Renames, b.name)

\* A suffix nobody has looked up, or money no book holds, refuses the account.
KrakenRefuses(b) ==
  b.quantity # 0 /\ (\/ b.suffix \notin EarnSuffixes \cup {"", "HOLD"}
                     \/ KrakenTicker(b) \notin FeeCredits /\ KrakenTicker(b) \in ForeignFiat)

IsMoney(ticker) == ticker = "USD" \/ ticker \in Stables

KrakenRow(ticker, parts) ==
  LET staked == Total(parts, LAMBDA b : IF b.suffix \in EarnSuffixes THEN b.quantity ELSE 0)
  IN Row(ticker, Total(parts, LAMBDA b : b.quantity), {}, "crypto", parts[1].base, parts[1].mark,
         IF staked = 0 THEN {} ELSE {staked})

\* A row without a mark is kept: nothing says it is dust.
KrakenRows(balances, floor) ==
  LET held  == SelectSeq(balances, LAMBDA b : b.quantity # 0 /\ KrakenTicker(b) \notin FeeCredits)
      money == SelectSeq(held, LAMBDA b : IsMoney(KrakenTicker(b)))
      coins == SelectSeq(held, LAMBDA b : ~IsMoney(KrakenTicker(b)))
  IN IF \E i \in DOMAIN balances : KrakenRefuses(balances[i]) THEN Refused
     ELSE [kind |-> "read",
           rows |-> {r \in {KrakenRow(t, Where(coins, KrakenTicker, t)) : t \in Image(coins, KrakenTicker)} :
                       \A m \in r.mark : r.shares * m >= floor},
           cash |-> {Total(money, LAMBDA b : b.quantity * (IF b.mark \ {0} = {} THEN 1 ELSE Only(b.mark)))}]

(***************************************************************************)
(* Coinbase.                                                               *)
(***************************************************************************)
\* The key may look and do nothing else.
PermittedKey(can, uuidReadable) ==
  /\ {"can_view", "can_trade", "can_transfer"} \subseteq DOMAIN can
  /\ can["can_view"] = "true"
  /\ \A field \in DOMAIN can \ {"can_view"} : can[field] = "false"
  /\ uuidReadable

CoinbaseTicker(e) == Apply(Renames, e.asset)

CoinbaseRefuses(e) ==
  \/ e.platform # "consumer" \/ e.type \notin {"wallet", "staked", "fiat"}
  \/ e.type = "fiat" /\ CoinbaseTicker(e) # "USD"
  \/ CoinbaseTicker(e) \in ForeignFiat

CoinbaseRow(ticker, parts) ==
  LET shares == Total(parts, LAMBDA e : e.quantity)
      value  == Total(parts, ValueOf)
      staked == Total(parts, LAMBDA e : IF e.type = "staked" THEN e.quantity ELSE 0)
      based  == \A i \in DOMAIN parts : parts[i].basis # {}
  IN Row(ticker, shares,
         IF based /\ shares # 0 THEN {Total(parts, LAMBDA e : Only(e.basis)) \div shares} ELSE {},
         "crypto", parts[1].asset, IF shares # 0 THEN {value \div shares} ELSE {},
         IF staked = 0 THEN {} ELSE {staked})

\* What the entries add up to must be what the account says it holds, to a
\* dollar or half a percent; a kind of holding never mapped refuses it all.
CoinbaseRows(breakdown, floor) ==
  LET held  == SelectSeq(breakdown.positions, LAMBDA e : e.quantity # 0 \/ e.value # 0)
      seen  == Total(held, ValueOf)
      gap   == Max({seen - breakdown.total, breakdown.total - seen})
      money == SelectSeq(held, LAMBDA e : IsMoney(CoinbaseTicker(e)))
      coins == SelectSeq(held, LAMBDA e : ~IsMoney(CoinbaseTicker(e)))
      of(t) == Where(coins, CoinbaseTicker, t)
  IN IF \/ breakdown.unmapped
        \/ \E i \in DOMAIN held : CoinbaseRefuses(held[i])
        \/ gap > 1 /\ 200 * gap > breakdown.total
     THEN Refused
     ELSE [kind |-> "read",
           rows |-> {CoinbaseRow(t, of(t)) : t \in
                       {x \in Image(coins, CoinbaseTicker) : Total(of(x), ValueOf) >= floor}},
           cash |-> {Total(money, ValueOf)}]
=============================================================================
