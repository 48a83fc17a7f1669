-------------------------------- MODULE Worth --------------------------------
(***************************************************************************)
(* What it all comes to: core.networth and the networth command (the       *)
(* total, its ledger, the change over days), treasury (parked money), and  *)
(* the benchmarks a mandate is judged by (oracle.benchmarks,               *)
(* core.held_flat, core.transactions).  Pure operators.                    *)
(*                                                                         *)
(* Money, shares and prices are whole numbers, a return is a fraction      *)
(* [num, den]; what may be missing is a set of at most one.                *)
(***************************************************************************)
EXTENDS Accounts

CONSTANTS HorizonSlack,   \* horizon in days -> days its baseline may be older
          UnpricedSlack,  \* more unpriced rows than last time that pass
          Tolerance,      \* percent a price may differ from the broker's mark
          SeriesFor,      \* benchmark key -> the price series it names
          MaxCarry,       \* days a close is carried over a shut market
          DomainKey       \* domain -> benchmark key; "_default" for the others

(***************************************************************************)
(* The total (core.networth).  A result is a reviewed book:                *)
(* [book, readings, mismatched], a reading [ticker, value, from].          *)
(***************************************************************************)
\* A row whose price is nothing like the broker's mark is another instrument's.
MarkDisagrees(price, mark) ==
  \E p \in price, k \in mark : k > 0 /\ 100 * (IF p > k THEN p - k ELSE k - p) > Tolerance * k

Mismatched(positions, prices) ==
  {positions[i].ticker : i \in {i \in DOMAIN positions : MarkDisagrees(prices[i], positions[i].mark)}}

WhyOut(result, r) ==
  IF r.value = {} THEN "unpriced" ELSE IF r.ticker \in result.mismatched THEN "mismatched" ELSE "priced"
Priced(result)  == SelectSeq(result.readings, LAMBDA r : WhyOut(result, r) = "priced")
LeftOut(result) == SelectSeq(result.readings, LAMBDA r : WhyOut(result, r) # "priced")

CashOf(book) ==
  IF DOMAIN book.cashBy # {} THEN MapThenSumSet(LAMBDA a : book.cashBy[a], DOMAIN book.cashBy)
  ELSE MapThenSumSet(LAMBDA c : c, book.cash)

PotOf(result) == Total(Priced(result), LAMBDA r : Only(r.value)) + CashOf(result.book)

\* No total where a read failed (results or parked missing) or nothing is there.
NetWorth(results, parked) ==
  IF results = {} \/ parked = {} \/ (results = {<<>>} /\ parked = {0}) THEN {}
  ELSE LET all == Only(results)
           lot == Only(parked)
       IN {[total      |-> lot + Total(all, PotOf),
            pots       |-> Len(all) + (IF lot = 0 THEN 0 ELSE 1),
            unpriced   |-> Total(all, LAMBDA r : Len(LeftOut(r))),
            mismatched |-> UNION Image(all, LAMBDA r : r.mismatched),
            parked     |-> lot,
            byBook     |-> [n \in Image(all, LAMBDA r : r.book.name) |->
                              PotOf(Last(SelectSeq(all, LAMBDA r : r.book.name = n)))]]}

\* The asset a row is counted under: what it wraps, then what it is a claim on.
GroupOf(canonical, underlying, reading) ==
  LET base == IF reading.from # {} THEN Only(reading.from) ELSE canonical[reading.ticker]
  IN Apply(underlying, base)

\* The same money regrouped by asset; cash takes the name Cash, whoever has it.
Exposure(results, parked, canonical, underlying) ==
  LET all == Only(results)
      parts == FlattenSeq([i \in DOMAIN all |->
                 [j \in DOMAIN Priced(all[i]) |->
                    [asset |-> GroupOf(canonical, underlying, Priced(all[i])[j]), book |-> all[i].book.name,
                     value |-> Only(Priced(all[i])[j].value)]]])
      cash  == SelectSeq([i \in DOMAIN all |-> [book |-> all[i].book.name, value |-> CashOf(all[i].book)]]
                           \o <<[book |-> "treasury", value |-> Only(parked)]>>, LAMBDA c : c.value # 0)
      worth(asset) == IF asset = "Cash" /\ cash # <<>> THEN Total(cash, ValueOf)
                      ELSE Total(SelectSeq(parts, LAMBDA p : p.asset = asset), ValueOf)
  IN IF NetWorth(results, parked) = {} THEN {}
     ELSE {[total    |-> Only(NetWorth(results, parked)).total,
            slices   |-> [asset \in Image(parts, LAMBDA p : p.asset) \cup (IF cash = <<>> THEN {} ELSE {"Cash"}) |->
                            worth(asset)],
            excluded |-> FlattenSeq([i \in DOMAIN all |->
                           [j \in DOMAIN LeftOut(all[i]) |->
                              [book |-> all[i].book.name, ticker |-> LeftOut(all[i])[j].ticker,
                               why |-> WhyOut(all[i], LeftOut(all[i])[j])]]])]}

(***************************************************************************)
(* The ledger of totals: a row a night, merged between two machines.       *)
(***************************************************************************)
Night(net, day, at, stale) ==
  [date |-> day, at |-> at, total |-> net.total, parked |-> net.parked, byBook |-> net.byBook,
   unpriced |-> net.unpriced, mismatched |-> net.mismatched, stale |-> stale]
Trusted(night) == ~night.stale /\ night.mismatched = {}

\* A line that does not parse, or lacks a field or a time zone, is passed over.
ReadLedger(lines) == SelectSeq(lines, LAMBDA n : n.readable)

\* The last run of each day by its clock, the earlier line when two agree.
LatestPerDate(nights) ==
  {nights[i] : i \in {i \in DOMAIN nights :
     \A j \in DOMAIN nights : nights[j].date = nights[i].date =>
        nights[j].at < nights[i].at \/ (nights[j].at = nights[i].at /\ i <= j)}}

NewestOf(nights) == {n \in nights : \A k \in nights : k.date <= n.date}

Baseline(nights, today_, days) ==
  LET target == today_ - days
  IN NewestOf({n \in LatestPerDate(nights) :
                 n.date \in (target - HorizonSlack[days]) .. target /\ Trusted(n)})

\* The change over each horizon there is a baseline for; uneven when the two
\* nights left different rows out, or tonight is not to be trusted.
ChangeOver(net, nights, today_, trusted) ==
  LET base(days) == Baseline(nights, today_, days)
  IN [days \in {d \in DOMAIN HorizonSlack : base(d) # {}} |->
        LET was == Only(base(days))
        IN [amount |-> net.total - was.total,
            pct    |-> IF was.total = 0 THEN {} ELSE {[num |-> net.total - was.total, den |-> was.total]},
            uneven |-> was.unpriced # net.unpriced \/ ~trusted]]

\* Why a night that differs from the last is not recorded unasked.
Drift(was, net, booksChanged, unpricedOk) ==
  (IF ~booksChanged /\ DOMAIN was.byBook # DOMAIN net.byBook THEN {"books"} ELSE {})
  \cup (IF ~booksChanged /\ was.parked > 0 /\ net.parked = 0 THEN {"treasury"} ELSE {})
  \cup (IF ~unpricedOk /\ net.unpriced > was.unpriced + UnpricedSlack THEN {"unpriced"} ELSE {})

\* Tonight's figure, or none: any book or treasury row that was left out refuses.
\* Where the books are, the treasury is read; its absence is nothing parked.
TonightsWorth(books, treasury, results) ==
  IF books.problems \/ books.loaded = 0 \/ treasury.problems THEN {}
  ELSE NetWorth({results}, IF treasury.parked = {} THEN {0} ELSE treasury.parked)

\* `networth --record`: one row appended, or the ledger as it was.
RecordNight(lines, net, day, at, stale, booksChanged, unpricedOk) ==
  IF net = {} THEN [lines |-> lines, exit |-> 1]
  ELSE LET before == NewestOf({n \in LatestPerDate(ReadLedger(lines)) : n.date < day})
           drifts == UNION {Drift(was, Only(net), booksChanged, unpricedOk) : was \in before}
       IN IF drifts # {} THEN [lines |-> lines, exit |-> 1]
          ELSE [lines |-> Append(lines, Night(Only(net), day, at, stale) @@ [readable |-> TRUE]), exit |-> 0]

(***************************************************************************)
(* Parked money (oracle.treasury_file, treasury).                          *)
(***************************************************************************)
\* A row is [what, venue, amount, source, apy]: an amount typed in, or an
\* account whose savings balance it is.
ParkedStands(r) ==
  /\ r.what # "" /\ r.venue # ""
  /\ (r.amount = {}) # (r.source = {})
  /\ \A n \in r.amount : n > 0
  /\ \A s \in r.source : s.portfolio # "" /\ s.account # ""

\* One row to a venue and a thing; judged by a rate alone, under its own name.
TreasuryStands(file) ==
  /\ file.rows # <<>>
  /\ \A i \in DOMAIN file.rows : ParkedStands(file.rows[i])
  /\ \A i, j \in DOMAIN file.rows :
       file.rows[i].what = file.rows[j].what /\ file.rows[i].venue = file.rows[j].venue => i = j
  /\ file.mandate.name = "treasury"
  /\ \A i \in DOMAIN file.mandate.benchmarks : file.mandate.benchmarks[i].type = "flat_rate"

\* What the row is worth now: its amount, or the balance the sync last stored; a
\* row whose balance cannot be read is left out, and says so.
ParkedAmount(r, balances) ==
  IF r.source = {} THEN r.amount
  ELSE UNION {IF s.portfolio \notin DOMAIN balances THEN {}
              ELSE IF s.account \notin DOMAIN balances[s.portfolio] THEN {}
              ELSE LET entry == balances[s.portfolio][s.account]
                   IN IF entry.current # {} THEN entry.current ELSE entry.available : s \in r.source}

ParkedDay(r, balances, updated) ==
  IF r.source = {} THEN updated
  ELSE LET s == Only(r.source) IN balances[s.portfolio][s.account].fetched

\* What is parked, what it earns on what says so, and how old the oldest of it is.
TreasuryOf(file, balances, updated) ==
  LET kept    == SelectSeq(file.rows, LAMBDA r : ParkedAmount(r, balances) # {})
      amount(r) == Only(ParkedAmount(r, balances))
      earning == SelectSeq(kept, LAMBDA r : r.apy # {})
      base    == Total(earning, amount)
      days    == Image(kept, LAMBDA r : ParkedDay(r, balances, updated))
  IN [total    |-> Total(kept, amount),
      apy      |-> IF base = 0 THEN {} ELSE {[num |-> Total(earning, LAMBDA r : amount(r) * Only(r.apy)), den |-> base]},
      updated  |-> IF days = {} THEN updated ELSE Min(days),
      problems |-> Len(kept) # Len(file.rows)]

\* Cash in the books that could be parked, an account at a time.
IdleCash(books) ==
  UNION {IF DOMAIN b.cashBy # {} THEN {[book |-> b.name, account |-> a, amount |-> b.cashBy[a]] : a \in DOMAIN b.cashBy}
         ELSE {[book |-> b.name, account |-> b.name, amount |-> c] : c \in b.cash} : b \in books}

(***************************************************************************)
(* Having held still (core.transactions, core.held_flat).  A transaction   *)
(* is [type, subtype, date, ticker, quantity, amount, secured].            *)
(***************************************************************************)
TransactionKind(t) ==
  CASE t.type = "cash" /\ t.subtype \in {"deposit", "contribution"} -> "deposit"
    [] t.type = "cash" /\ t.subtype \in {"withdrawal", "distribution"} -> "withdrawal"
    [] t.type = "cash" /\ t.subtype \in {"dividend", "dividend reinvestment", "qualified dividend", "interest"} -> "dividend"
    [] t.type = "buy" /\ t.subtype \in {"buy", "reinvest"} -> "buy"
    [] t.type = "sell" /\ t.subtype = "sell" -> "sell"
    [] \/ t.type = "fee" /\ t.subtype \in {"miscellaneous fee", "management fee", "account fee"}
       \/ t.type = "cash" /\ t.subtype = "fee" -> "fee"
    [] OTHER -> "other"

\* Money that came or went, or that the basket earned.  A broker's amount is
\* positive when money leaves the account.
FlowFrom(t) ==
  LET kind == TransactionKind(t)
  IN IF kind \in {"deposit", "withdrawal"} \/ (kind = "other" /\ ~t.secured)
     THEN {[date |-> t.date, amount |-> -t.amount, kind |-> "external"]}
     ELSE IF kind = "dividend" THEN {[date |-> t.date, amount |-> -t.amount, kind |-> "income"]}
     ELSE {}

Unclassified(transactions, anchor) ==
  SelectSeq(transactions, LAMBDA t : t.date >= anchor /\ TransactionKind(t) = "other" /\ t.secured)

\* Today's shares walked back over the trades; none when a share is missing.
AnchorShares(sharesToday, transactions, anchor) ==
  LET trades  == SelectSeq(transactions, LAMBDA t : /\ t.date >= anchor /\ TransactionKind(t) \in {"buy", "sell"}
                                                    /\ t.ticker # "" /\ t.quantity # {})
      tickers == DOMAIN sharesToday \cup Image(trades, TickerOf)
      net(x)  == Total(SelectSeq(trades, LAMBDA t : t.ticker = x), LAMBDA t : Only(t.quantity))
      was(x)  == (IF x \in DOMAIN sharesToday THEN sharesToday[x] ELSE 0) - net(x)
  IN IF \E x \in tickers : was(x) < 0 THEN {}
     ELSE {[x \in {x \in tickers : was(x) > 0} |-> was(x)]}

Basket(sharesToday, transactions, anchor) ==
  LET flows == FlattenSeq([i \in DOMAIN transactions |->
                 IF transactions[i].date >= anchor THEN SetToSeq(FlowFrom(transactions[i])) ELSE <<>>])
  IN {[anchor |-> anchor, shares |-> s, flows |-> SortSeq(flows, LAMBDA f, g : f.date < g.date)] :
        s \in AnchorShares(sharesToday, transactions, anchor)}

\* prices[ticker][day], where there is one.
PriceOn(prices, ticker, day) == IF ticker \in DOMAIN prices /\ day \in DOMAIN prices[ticker] THEN {prices[ticker][day]} ELSE {}
RawValue(basket, prices, day) ==
  IF \E x \in DOMAIN basket.shares : PriceOn(prices, x, day) = {} THEN {}
  ELSE {MapThenSumSet(LAMBDA x : basket.shares[x] * prices[x][day], DOMAIN basket.shares)}

\* One flow into the units and what a unit is worth (multiplier * raw): money
\* from outside buys units, income makes each worth more.
Flowed(state, flow, raw) ==
  LET unit == [num |-> state.mult.num * raw, den |-> state.mult.den]
  IN IF flow.kind = "external"
     THEN [state EXCEPT !.units = [num |-> @.num * unit.num + flow.amount * unit.den * @.den,
                                   den |-> @.den * unit.num]]
     ELSE LET whole == [num |-> state.units.num * unit.num, den |-> state.units.den * unit.den]
          IN [state EXCEPT !.mult = [num |-> @.num * (whole.num + flow.amount * whole.den), den |-> @.den * whole.num]]

One == [num |-> 1, den |-> 1]
StateOn(basket, prices, day) ==
  LET step(found, flow) ==
        UNION {IF raw * state.mult.num = 0 THEN {} ELSE {Flowed(state, flow, raw)} :
                 state \in found, raw \in RawValue(basket, prices, flow.date)}
      walked == FoldLeft(step, {[units |-> One, mult |-> One]},
                         SelectSeq(basket.flows, LAMBDA f : f.date <= day))
  IN IF day < basket.anchor THEN {}
     ELSE {[units |-> state.units, worth |-> [num |-> state.mult.num * raw, den |-> state.mult.den]] :
             state \in walked, raw \in RawValue(basket, prices, day)}

\* What a unit made between two days; a unit is worth something or there is none.
ReturnOver(basket, prices, start, end) ==
  {[num |-> b.worth.num * a.worth.den - a.worth.num * b.worth.den, den |-> a.worth.num * b.worth.den] :
     a \in {a \in StateOn(basket, prices, start) : a.worth.num # 0}, b \in StateOn(basket, prices, end)}

(***************************************************************************)
(* What a mandate is measured against (oracle.benchmarks).                 *)
(***************************************************************************)
BenchmarkFor(domain) == SeriesFor[IF domain \in DOMAIN DomainKey THEN DomainKey[domain] ELSE DomainKey["_default"]]

\* The first day a mandate's benchmark was seen on, kept in a file for good.
Anchored(anchors, key, day) == IF key \in DOMAIN anchors THEN anchors ELSE anchors @@ (key :> day)

\* [kind] and what it resolved to, with the anchors as they are left.
Resolve(b, cached, given, anchors) ==
  LET none == [kind |-> "unresolved", anchors |-> anchors]
      key  == <<given.mandate, "held_flat">>
      first == Min(Image(given.transactions, LAMBDA t : t.date))
      kept == Anchored(anchors, key, first)
      basket == Basket(given.shares, given.transactions, kept[key])
  IN CASE b.type = "flat_rate" -> IF b.rate = {} THEN none ELSE [kind |-> "rate", rate |-> Only(b.rate), anchors |-> anchors]
       [] b.type = "symbol" ->
            IF b.key \notin DOMAIN SeriesFor \/ SeriesFor[b.key] \notin DOMAIN cached THEN none
            ELSE [kind |-> "series", series |-> cached[SeriesFor[b.key]], anchors |-> anchors]
       [] b.type = "held_flat" ->
            IF ~given.supplied \/ given.transactions = <<>> THEN none
            ELSE IF \/ basket = {} \/ DOMAIN Only(basket).shares = {}
                    \/ Unclassified(given.transactions, kept[key]) # <<>>
                    \/ RawValue(Only(basket), given.prices, kept[key]) = {}
            THEN [none EXCEPT !.anchors = kept]
            ELSE [kind |-> "held", basket |-> Only(basket), anchors |-> kept]
       [] OTHER -> none

\* The close on a day: the newest at or before it, none if that is too long ago.
CloseOn(series, day) ==
  LET known == {d \in DOMAIN series : d \in (day - MaxCarry) .. day} IN IF known = {} THEN {} ELSE {series[Max(known)]}

\* The return over so many days; a rate is simple interest.
BenchmarkReturn(found, given, days, day) ==
  LET start == day - days
  IN CASE found.kind = "held" -> ReturnOver(found.basket, given.prices, start, day)
       [] found.kind = "series" ->
            {[num |-> b - a, den |-> a] : a \in CloseOn(found.series, start) \ {0}, b \in CloseOn(found.series, day)}
       [] OTHER -> {[num |-> found.rate * days, den |-> 36500]}

\* Since when: a series' own start, the basket's anchor, or the rate's first report.
SinceInception(found, mandate, day) ==
  CASE found.kind = "held" -> {day - found.basket.anchor}
    [] found.kind = "series" -> IF DOMAIN found.series = {} THEN {} ELSE {day - Min(DOMAIN found.series)}
    [] OTHER -> {day - Anchored(found.anchors, <<mandate, "flat_rate">>, day)[<<mandate, "flat_rate">>]}
=============================================================================
