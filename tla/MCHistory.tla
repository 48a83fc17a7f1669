----------------------------- MODULE MCHistory -----------------------------
(***************************************************************************)
(* The transaction history on small feeds, and what the account readers    *)
(* and the syncs do with every small answer.                               *)
(***************************************************************************)
EXTENDS History, Books, Worth, Yields, Cards

MCStables == {"usdc"}
MCNative == [eth |-> "ETH", sol |-> "SOL"]
MCContractTicker == [c9 |-> "renamed"]
MCForeignFiat == {"EUR"}
MCRenames == [XBT |-> "BTC"]
MCHalfLives == [scalp |-> 1, swing |-> 7, position |-> 30, macro |-> 90]
MCAllKinds == {"zone", "gap"}
Mandate(posture, type) ==
  [name |-> "m", horizon |-> "swing", posture |-> posture,
   benchmarks |-> <<[type |-> type, key |-> "spy", rate |-> {}]>>]
MCStarter == [Header("crypto") EXCEPT !.mandate = {Mandate("moderate", "symbol")}]

MCHorizonSlack == 1 :> 0 @@ 7 :> 1
MCSeriesFor == [sp500 |-> "gspc", btc |-> "btcusd"]
MCDomainKey == [crypto |-> "btc", _default |-> "sp500"]

UpTo(n, S) == UNION {[1 .. k -> S] : k \in 0 .. n}
Sum(seq, f(_)) == Total(seq, f)

-----------------------------------------------------------------------------
(* Brokers. *)
Holding(account, ticker, kind, quantity, basis, value) ==
  [account |-> account, ticker |-> ticker, kind |-> kind, quantity |-> quantity, basis |-> basis,
   value |-> value, figi |-> "", price |-> {}]
Holdings == {Holding(a, t, "equity", q, b, {}) :
               a \in {"a1", "a2"}, t \in {"x", ""}, q \in {{}, {0}, {2}}, b \in {{}, {3}}}
Payload(accounts, holdings) == [accounts |-> accounts, holdings |-> holdings]
Account(id, name, available) ==
  [id |-> id, name |-> name, type |-> "investment", available |-> available, current |-> {}]

\* A broker's shares are all there, once, and a cost is said only when every
\* account said one (plaid.rows_from).
ASSUME PlaidKeepsEveryShare ==
  \A held \in UpTo(2, Holdings) : \A narrowed \in {{}, {"a1"}} :
    LET rows == PlaidRows(Payload(<<>>, held), narrowed)
        ours == SelectSeq(held, LAMBDA h : h.quantity = {2} /\ h.ticker = "x" /\ (narrowed = {} \/ h.account = "a1"))
    IN /\ MapThenSumSet(LAMBDA r : r.shares, rows) = 2 * Len(ours)
       /\ \A r \in rows : (r.cost # {}) <=> (\A i \in DOMAIN ours : ours[i].basis # {})

\* Accounts of different names each have their cash in the total; two of one
\* name have only the later one's (plaid.cash_from).
ASSUME SharedNameLosesCash ==
  \A n \in {"one", "two"} : \A a, b \in {{}, {1}, {5}} :
    LET cash == CashFrom(Payload(<<Account("a1", "one", a), Account("a2", n, b)>>, <<>>), {})
        both == MapThenSumSet(Only, {a} \ {{}}) + (IF b = {} THEN 0 ELSE Only(b))
    IN cash.total = IF a = {} /\ b = {} THEN {}
                    ELSE IF n = "one" /\ b # {} THEN b ELSE {both}

\* Savings that share a name are refused, the same case cash_from sums wrongly
\* (plaid.balances_from).
ASSUME SharedNameIsRefusedForSavings ==
  \A n \in {"one", "two", ""} :
    LET savings(id, name) == [Account(id, name, {1}) EXCEPT !.type = "depository"]
    IN (BalancesFrom(Payload(<<savings("a1", "one"), savings("a2", n)>>, <<>>)) = Refused) <=> n # "two"

-----------------------------------------------------------------------------
(* Wallets. *)
Found == {Candidate("t", u, p, c, s) : u \in {0, 1}, p \in {4, 5, 8}, c \in {"c1", "c2"}, s \in {0, 2}}

\* Candidates become one row with all their units, or none when their quotes are
\* more than a quarter apart; a pin leaves the others out (wallet._fold).
ASSUME FoldAddsOrRefuses ==
  \A found \in UpTo(2, Found) : \A pinned \in BOOLEAN :
    LET prefer == IF pinned THEN [t \in {"t"} |-> "c1"] ELSE <<>>
        kept == SelectSeq(found, LAMBDA c : pinned => c.contract = "c1")
        rows == Fold(found, prefer)
    IN IF rows = {}
       THEN kept = <<>> \/ \E i, j \in DOMAIN kept : 4 * (kept[i].price - kept[j].price) > kept[i].price
       ELSE \A r \in rows : r.shares = Sum(kept, LAMBDA c : c.units + c.staked)

Token(network, contract, symbol, units, price) ==
  [network |-> network, contract |-> contract, readable |-> TRUE, symbol |-> symbol,
   units |-> units, price |-> price]
Tokens == {Token("sol", "", "", u, p) : u \in {0, 1, 4}, p \in {{}, {2}, {3}}}
            \cup {Token("eth", "c1", "SOL", 4, {2}), Token("eth", "c2", "usdc", 4, {1})}

\* A stake is in a row whole, or its ticker is reported and the sync is called
\* incomplete (wallet.rows_from).
ASSUME StakeIsWholeOrReported ==
  \A tokens \in UpTo(2, Tokens) : \A stake \in {0, 1, 4} :
    LET read == WalletRows(tokens, 6, <<>>, [t \in {"SOL"} |-> stake])
    IN stake > 0 => ("SOL" \in read.unpriced <=> ~\E r \in read.rows : r.ticker = "SOL" /\ \E s \in r.staked : s >= stake)

\* A stake worth less than the floor is dropped as dust and then reported as one
\* that found no quote, so the book is left alone (wallet.rows_from).
ASSUME DustStakeStopsTheSync ==
  \A units \in {0, 1} : WalletRows(<<Token("sol", "", "", units, {2})>>, 6, <<>>, [t \in {"SOL"} |-> 1]).unpriced = {"SOL"}

Answer(networks, failed) ==
  [tokens |-> [i \in 1 .. Cardinality(networks) |-> [network |-> SetToSeq(networks)[i]]], failed |-> failed]

\* Whatever the first answer and the retries said, no network's tokens are
\* counted from both, and one that failed twice is reported (wallet_cli, _one_alchemy).
ASSUME NoNetworkCountsTwice ==
  \A told, broke \in SUBSET {"eth", "sol"} : \A again \in [{"eth", "sol"} -> BOOLEAN] :
    LET retry == [n \in {"eth", "sol"} |-> Answer({n}, IF again[n] THEN {} ELSE {n})]
        read  == ReadAddress(Answer(told, broke), retry)
    IN /\ \A i, j \in DOMAIN read.tokens : read.tokens[i].network = read.tokens[j].network => i = j
       /\ read.failed = {n \in broke : ~again[n]}

\* A staked entry beside a plain balance of its size on the same chain is one
\* holding; a dust impostor is folded in before the floor and takes the row with
\* it when its quote disagrees (zerion.rows_from).
Position(type, ticker, quantity, price, contract) ==
  [type |-> type, chain |-> "eth", ticker |-> ticker, quantity |-> quantity, price |-> {price},
   value |-> {quantity * price}, contract |-> contract]
ASSUME ReceiptIsOneHolding ==
  ZerionRows(<<Position("wallet", "stETH", 3, 5, "c1"), Position("staked", "ETH", 3, 5, "")>>, 1, <<>>).rows
    = {Row("stETH", 3, {}, "crypto", "c1", {5}, {})}
ASSUME ImpostorTakesTheRow ==
  \A quote \in {1, 3, 4, 5} :
    (ZerionRows(<<Position("wallet", "t", 3, 5, "c1"), Position("wallet", "t", 1, quote, "c2")>>, 6, <<>>).rows = {})
      <=> quote < 4

-----------------------------------------------------------------------------
(* Exchanges. *)
Balance(name, suffix, quantity, mark) ==
  [name |-> name, base |-> name, suffix |-> suffix, quantity |-> quantity, mark |-> mark]
Balances == {Balance(n, s, q, m) : n \in {"XBT", "EUR", "USD"}, s \in {"", "S", "Z"}, q \in {0, 3}, m \in {{}, {2}}}

\* An account is read whole or refused: an unknown suffix or foreign money with
\* something in it refuses, and what is read is all there but for marked dust
\* (kraken_account.rows_from).
ASSUME KrakenReadsAllOrNothing ==
  \A held \in UpTo(2, Balances) :
    LET read == KrakenRows(held, 5)
        odd  == \E i \in DOMAIN held : held[i].quantity > 0 /\ (held[i].suffix = "Z" \/ held[i].name = "EUR")
        btc  == Sum(held, LAMBDA b : IF b.name = "XBT" THEN b.quantity ELSE 0)
    IN /\ (read = Refused) <=> odd
       /\ ~odd => MapThenSumSet(LAMBDA r : r.shares, read.rows) = btc

Entry(asset, type, quantity, value, basis) ==
  [asset |-> asset, platform |-> "consumer", type |-> type, quantity |-> quantity, value |-> value, basis |-> basis]
Entries == {Entry("BTC", t, 2, v, b) : t \in {"wallet", "staked"}, v \in {1, 150}, b \in {{}, {2}}}
             \cup {Entry("USD", "fiat", 3, 3, {}), Entry("EUR", "fiat", 3, 3, {})}

\* What an accepted account lists is what it says it is worth, to a dollar or
\* half a percent (coinbase_account.rows_from).
ASSUME CoinbaseAddsUp ==
  \A held \in UpTo(2, Entries) : \A total \in {0, 1, 4, 150, 300} :
    LET read == CoinbaseRows([unmapped |-> FALSE, positions |-> held, total |-> total], 5)
        worth == Sum(held, ValueOf)
    IN read # Refused =>
         /\ worth - total \in (-1) .. 1 \/ 200 * (worth - total) \in (-total) .. total
         /\ \A i \in DOMAIN held : held[i].asset # "EUR"

\* A key that may trade or transfer is refused, and one that says neither
\* (coinbase_account.check_permissions).
ASSUME OnlyAReadingKey ==
  \A can \in [{"can_view", "can_trade", "can_transfer"} -> {"true", "false", "maybe"}] :
    PermittedKey(can, TRUE) <=> can = [can_view |-> "true", can_trade |-> "false", can_transfer |-> "false"]

-----------------------------------------------------------------------------
(* Files. *)
RowOf(ticker, shares, domain) == Row(ticker, shares, {}, domain, "", {}, {})
RowSets == {{RowOf("x", 1, d), RowOf("y", 2, e)} : d, e \in {"stock", "crypto"}} \cup {{}}
Files == {NoFile, Unreadable}
  \cup {[Header(d) EXCEPT !.mandate = m, !.positions = p, !.wallets = w, !.source = s] :
          d \in {"stock", "crypto"}, m \in {{}} \cup {{Mandate(q, t)} : q \in {"moderate", "bold"}, t \in {"symbol", "held_flat"}},
          p \in RowSets, w \in {0, 1}, s \in {"zerion", "alchemy", "both"}}

\* What a sync writes can be read back as it was meant, whatever domain the book
\* goes by, if somebody wrote a mandate (portfolios.write_positions, load).
ASSUME WrittenIsReadBack ==
  \A book \in Files : \A rows \in RowSets \ {{}} : \A domain \in {"stock", "crypto"} :
    LET after == WritePositions(book, domain, rows, {}, <<>>)
    IN /\ Loads(after) <=> (\E m \in after.mandate : MandateStands(m))
       /\ Loads(after) => Load(after).positions = rows
       /\ IsDoc(book) => after.mandate = book.mandate

PlaidAnswers ==
  [reached : BOOLEAN,
   payload : {Payload(<<>>, h) : h \in {<<>>, <<Holding("a1", "x", "equity", {2}, {}, {})>>,
                                        <<Holding("a1", "x", "equity", {0}, {}, {})>>}}]
Reads == {[raised |-> r, tokens |-> t, failed |-> f, stake |-> s, again |-> [eth |-> Answer({}, a)]] :
            r \in BOOLEAN, t \in {<<>>, <<Token("eth", "c1", "big", 4, {5})>>}, f \in {{}, {"*"}, {"eth"}},
            a \in {{}, {"eth"}}, s \in {{}, {3}}}

\* No sync empties a book, and one that fails leaves the book as it was
\* (plaid_cli.sync, wallet_cli.sync, exchange_cli.run).
ASSUME FailureLeavesTheFile ==
  \A book \in Files :
    LET stands(left) == /\ left.exit # 0 => left.file = book
                        /\ left.file # book => left.file.positions # {}
        alchemy == IsDoc(book) => book.source # "zerion"
    IN /\ \A answer \in PlaidAnswers : stands(PlaidSync(book, answer, FALSE))
       /\ \A read \in Reads : alchemy => stands(WalletSync(book, {}, <<read>>, <<>>, FALSE))
       /\ \A rows \in RowSets : \A init \in BOOLEAN :
            stands(ExchangeSync(book, [kind |-> "read", rows |-> rows, cash |-> {}], init, FALSE))

\* A network that never answered, or an address that raised, keeps the wallet's
\* book as it was (wallet_cli._one_alchemy).
ASSUME IncompleteReadIsNotWritten ==
  \A book \in {f \in Files : IsDoc(f) /\ f.source = "alchemy"} : \A read \in Reads :
    (read.raised \/ "*" \in read.failed \/ ("eth" \in read.failed /\ read.again["eth"].failed # {}) \/ read.stake # {})
      => WalletSync(book, {}, <<read>>, <<>>, FALSE).file = book

\* A balance an answer leaves out is carried with the day it was fetched on, and
\* a store nobody can read is not written over (balance_store.merge_write).
Stores == {NoFile, Unreadable}
  \cup {[kind |-> "document", accounts |-> [n \in N |-> [balance |-> 1, fetched |-> 1]]] : N \in SUBSET {"one", "two"}}
ASSUME CarriedBalanceKeepsItsAge ==
  \A store \in Stores : \A names \in SUBSET {"one", "two"} :
    LET accounts == [i \in 1 .. Cardinality(names) |->
                       [Account(SetToSeq(names)[i], SetToSeq(names)[i], {1}) EXCEPT !.type = "depository"]]
        left == SyncBalances(store, Payload(accounts, <<>>), FALSE, 2)
    IN IF store = Unreadable THEN left.file = store
       ELSE \A n \in CarriedBalances(store, [m \in names |-> 2]) : left.file.accounts[n].fetched = 1

\* Linking an account again leaves the token it has (plaid.remember_token).
ASSUME LinkedTokenStays ==
  \A p \in {"a", "b"} : LET env == RememberToken([a |-> "t1"], p, "t2") IN env["a"] = "t1" /\ p \in DOMAIN env

-----------------------------------------------------------------------------
(* What it comes to. *)
Reading(ticker, v) == [ticker |-> ticker, value |-> v, from |-> {}]
Reviewed == {[book |-> [name |-> n, cashBy |-> <<>>, cash |-> c], readings |-> r, mismatched |-> w] :
               n \in {"one", "two"}, c \in {{}, {4}}, w \in {{}, {"x"}},
               r \in {<<>>} \cup {<<Reading("x", v), Reading("y", {3})>> : v \in {{}, {2}}}}
ReviewedPairs == {s \in UpTo(2, Reviewed) : \A i, j \in DOMAIN s : s[i].book.name = s[j].book.name => i = j}

\* Regrouped by asset it is the same money, and every row is in it or named as
\* left out (networth.exposure, networth.of).
ASSUME SameMoneyByAsset ==
  \A results \in ReviewedPairs : \A lot \in {{}, {0}, {5}} :
    LET net  == NetWorth({results}, lot)
        by   == IF lot = {} THEN {} ELSE Exposure({results}, lot, [x |-> "x", y |-> "x"], <<>>)
    IN /\ (net = {}) <=> (lot = {} \/ (results = <<>> /\ lot = {0}))
       /\ \A e \in by : /\ MapThenSumSet(LAMBDA a : e.slices[a], DOMAIN e.slices) = Only(net).total
                       /\ Only(net).total = Only(lot) + MapThenSumSet(LAMBDA n : Only(net).byBook[n], DOMAIN Only(net).byBook)
                       /\ Len(e.excluded) = Only(net).unpriced

Nights == {[date |-> d, at |-> a, total |-> 10, parked |-> 0, byBook |-> [one |-> 10], unpriced |-> 0,
            mismatched |-> {}, stale |-> s, readable |-> TRUE] : d \in {2, 3, 9}, a \in 1 .. 3, s \in BOOLEAN}
Ledgers == {l \in UpTo(3, Nights) : \A i, j \in DOMAIN l : l[i].at = l[j].at => i = j}

\* What the ledger says does not depend on the order its lines were merged in
\* (networth.latest_per_date).
ASSUME MergeOrderSaysNothing ==
  \A lines \in Ledgers : \A days \in {1, 7} :
    /\ LatestPerDate(lines) = LatestPerDate(Reverse(lines))
    /\ \A n \in Baseline(lines, 10, days) :
         /\ Trusted(n) /\ 10 - n.date \in days .. (days + HorizonSlack[days])
         /\ \A i \in DOMAIN lines : lines[i].date = n.date => lines[i].at <= n.at

\* A later run of the same day that is not to be trusted takes the day's trusted
\* row with it: the horizon has no baseline, or an older one (networth.baseline).
ASSUME StaleRerunHidesTheNight ==
  \E lines \in Ledgers : \E i \in DOMAIN lines :
    lines[i].date = 3 /\ Trusted(lines[i]) /\ Baseline(lines, 10, 7) = {}

Worths == {[total |-> 10, parked |-> k, byBook |-> [n \in N |-> 5], unpriced |-> u, mismatched |-> {}] :
             k \in {0, 5}, N \in {{"one"}, {"one", "two"}}, u \in {0, 2, 3, 5}}

\* A night that lost a book, the treasury or its prices is not recorded unasked;
\* rows lost a few at a time are (networth.cli._drift).
ASSUME LostBookIsRefused ==
  \A was, net \in Worths : \A asked, fine \in BOOLEAN :
    LET lines == <<Night(was, 4, 1, FALSE) @@ [readable |-> TRUE]>>
        after == RecordNight(lines, {net}, 5, 2, FALSE, asked, fine)
        lost  == \/ ~asked /\ (DOMAIN was.byBook # DOMAIN net.byBook \/ (was.parked = 5 /\ net.parked = 0))
                 \/ ~fine /\ net.unpriced - was.unpriced > UnpricedSlack
    IN after.lines = IF lost THEN lines ELSE Append(lines, Night(net, 5, 2, FALSE) @@ [readable |-> TRUE])

-----------------------------------------------------------------------------
(* Having held still. *)
Deal(type, subtype, date, quantity, amount) ==
  [type |-> type, subtype |-> subtype, date |-> date, ticker |-> IF quantity = {} THEN "" ELSE "x",
   quantity |-> quantity, amount |-> amount, secured |-> quantity # {}]
Trades == {Deal("buy", "buy", d, {2}, 4) : d \in {1, 3}} \cup {Deal("sell", "sell", d, {-2}, -4) : d \in {1, 3}}
Money == {Deal("cash", "deposit", d, {}, -5) : d \in {1, 2, 3}} \cup {Deal("transfer", "transfer", d, {}, 3) : d \in {1, 2}}
Income == {Deal("cash", "dividend", 2, {}, -5)}
Paths == {[x |-> (1 :> a @@ 2 :> b @@ 3 :> c)] : a \in {2, 3}, b \in {1, 2}, c \in {0, 2, 5}}

\* The shares at the anchor and the trades since are today's shares
\* (held_flat.anchor_shares).
ASSUME TradesWalkBack ==
  \A deals \in UpTo(3, Trades) : \A now \in 0 .. 4 : \A anchor \in {1, 2} :
    LET net == Sum(deals, LAMBDA t : IF t.date >= anchor THEN Only(t.quantity) ELSE 0)
        was == AnchorShares([x |-> now], deals, anchor)
    IN was = IF now < net THEN {} ELSE {[t \in (IF now = net THEN {} ELSE {"x"}) |-> now - net]}

Same(a, b) == a.num * b.den = b.num * a.den
\* Money put in or taken out is no return; what the basket earned is
\* (held_flat.state_on).
ASSUME DepositsEarnNothing ==
  \A deals \in UpTo(2, Money) : \A prices \in Paths : \A end \in {2, 3} :
    LET still == Only(Basket([x |-> 4], <<>>, 1))
        moved == Only(Basket([x |-> 4], deals, 1))
        paid  == Only(Basket([x |-> 4], SetToSeq(Income), 1))
        over(basket) == ReturnOver(basket, prices, 1, end)
        exact == prices["x"][end] - prices["x"][1]
    IN /\ Same(Only(over(still)), [num |-> exact, den |-> prices["x"][1]])
       /\ over(moved) # {} => Same(Only(over(moved)), Only(over(still)))
       /\ prices["x"][end] > 0 => Only(over(paid)).num * Only(over(still)).den > Only(over(still)).num * Only(over(paid)).den

\* A mandate's benchmark starts on the first day it was seen, whatever the
\* history reaches back to later (benchmarks._anchor).
ASSUME AnchorIsForGood ==
  \A first, later \in UpTo(2, Trades) : \A now \in {0, 4} :
    LET given(deals) == [supplied |-> TRUE, mandate |-> "m", transactions |-> deals, shares |-> [x |-> now],
                         prices |-> [x |-> [d \in 1 .. 3 |-> 2]]]
        flat == [type |-> "held_flat", key |-> "", rate |-> {}]
        once == Resolve(flat, <<>>, given(first), <<>>).anchors
        again == Resolve(flat, <<>>, given(later), once).anchors
    IN /\ first # <<>> => again = once /\ once[<<"m", "held_flat">>] = Min(Image(first, LAMBDA t : t.date))
       /\ first = <<>> => once = <<>>

Parked(amount, source, apy) == [what |-> "cash", venue |-> "bank", amount |-> amount, source |-> source, apy |-> apy]
ParkedRows == {Parked({a}, {}, y) : a \in {2, 4}, y \in {{}, {1}, {5}}}
                \cup {Parked({}, {[portfolio |-> p, account |-> "a"]}, {3}) : p \in {"here", "gone"}}
Stored == [here |-> [a |-> [current |-> {}, available |-> {6}, fetched |-> 2]]]

\* What is parked is counted whole or the night is refused, and as old as its
\* oldest reading; the rate is over the rows that have one (treasury.treasury_for).
ASSUME ParkedIsWholeOrRefused ==
  \A list \in UpTo(3, ParkedRows) :
    LET pot  == TreasuryOf([rows |-> list], Stored, 4)
        left == SelectSeq(list, LAMBDA r : r.source # {} /\ Only(r.source).portfolio = "gone")
        worth(r) == IF r.source = {} THEN Only(r.amount) ELSE 6
        kept == SelectSeq(list, LAMBDA r : r.source = {} \/ Only(r.source).portfolio = "here")
    IN /\ pot.problems <=> left # <<>>
       /\ pot.total = Sum(kept, worth)
       /\ pot.updated = IF \E i \in DOMAIN kept : kept[i].source # {} THEN 2 ELSE 4
       /\ \A y \in pot.apy : y.num \in y.den .. (5 * y.den)
-----------------------------------------------------------------------------
(* Yields.  Three protocols of which each may be a fork of the others; 9 is *)
(* an id nobody carries.  Today is day 300.                                *)
Protocol(slug, audits, forked) ==
  [slug |-> slug, id |-> slug, audits |-> {audits}, forked |-> forked, hallmarks |-> 0]
Forks == {<<>>, <<1>>, <<2>>, <<3>>, <<9>>, <<2, 3>>}
Payloads == {{Protocol(s, 1 - Cardinality({s} \cap bare), forked[s]) : s \in 1 .. 3} :
               bare \in {{}, {1}, {3}}, forked \in [1 .. 3 -> Forks]}
Wrap(wrapper, protocol, pools) ==
  [asset |-> 1, wrapper |-> wrapper, contract |-> 10 + wrapper, protocol |-> protocol, pools |-> pools]
Asked == <<Wrap(1, 1, <<7>>)>>
PoolFacts(apy, outlier) ==
  [apy |-> {apy}, reward |-> {}, outlier |-> {outlier}, stable |-> {TRUE}]
Born(days) == [s \in 1 .. 3 |-> <<[day |-> {days[s]}, total |-> {1}]>>]
VenueWeb(payload, days) ==
  [protocols |-> {payload}, history |-> Born(days), pools |-> {(7 :> PoolFacts(3, FALSE))}]
Today == 300
Births == {26, 27, 178, 179}
Night1(web) == AppendReadings(<<>>, FetchVenues(Asked, web, 1, {}))

\* The facts of every protocol there is, without a walk or a store.
WholeFacts(payload, days) ==
  [s \in 1 .. 3 |->
     [UnreadFacts(s) EXCEPT !.audited = MetadataOf(payload, The({p \in payload : p.slug = s})).audited,
                            !.parents = ParentsOf(payload, The({p \in payload : p.slug = s})),
                            !.first = {days[s]}, !.incidents = {0}]]
\* What may be trusted, by definition: the least set of audited protocols that
\* are old, or less old and forked from one that may.
RECURSIVE Trustworthy(_, _, _)
Trustworthy(payload, days, ok) ==
  LET age(s) == Today - days[s]
      more == {p.slug : p \in {p \in payload :
                /\ p.audits = {1}
                /\ \/ age(p.slug) >= 274
                   \/ age(p.slug) >= 122 /\ ToSet(p.forked) \cap ok # {}}}
  IN IF more = ok THEN ok ELSE Trustworthy(payload, days, more)

\* One night's fetch walks far enough up the forks for the gate to say of a
\* protocol what the whole payload says of it, rings of forks included, and that
\* is what its ancestors' audits and ages come to (defillama.parse_venue_metadata,
\* safety.gate).
ASSUME LineageIsWellFounded ==
  \A payload \in Payloads : \A days \in {<<a, b, c>> : a \in Births, b \in {26, 178}, c \in {26, 27}} :
    LET stored == ProtocolFacts(Night1(VenueWeb(payload, days)))
    IN /\ 1 \in DOMAIN stored
       /\ Gate(stored[1], Today, stored) = Gate(WholeFacts(payload, days)[1], Today, WholeFacts(payload, days))
       /\ Gate(stored[1], Today, stored).passed <=> 1 \in Trustworthy(payload, days, {})

\* Two nights on which any endpoint may be down and the first may be killed in
\* its writing: an age read once is kept, not asked for again, and one not read
\* is asked for the next night (altsignal_cli, altsignal_store, fetch_venues).
Down(web, which) ==
  [protocols |-> IF "protocols" \in which THEN {} ELSE web.protocols,
   pools     |-> IF "pools" \in which THEN {} ELSE web.pools,
   history   |-> IF "history" \in which THEN [s \in 1 .. 3 |-> <<>>] ELSE web.history]
ASSUME AnAgeIsReadOnce ==
  \A which \in [1 .. 2 -> SUBSET {"protocols", "pools", "history"}] : \A kept \in 0 .. 4 :
    LET payload == {Protocol(1, 1, <<2>>), Protocol(2, 1, <<>>)}
        web(n)  == Down(VenueWeb(payload, IF n = 1 THEN <<178, 26, 26>> ELSE <<300, 300, 300>>), which[n])
        full    == FetchVenues(Asked, web(1), 1, {})
        torn    == kept < Len(full)
        first   == IF torn THEN AppendReadings(<<>>, SubSeq(full, 1, kept)) \o <<{}>>
                   ELSE AppendReadings(<<>>, full)
        again   == FetchVenues(Asked, web(2), 2, KnownAges(first))
        second  == AppendReadings(first, again)
        before  == ProtocolFacts(first)
        after   == ProtocolFacts(second)
    IN /\ \A s \in DOMAIN before : s \in DOMAIN after /\ (before[s].first # {} => after[s].first = before[s].first)
       /\ \A i \in DOMAIN again : again[i].kind = "venue_first_tvl" => again[i].key \notin KnownAges(first)
       /\ which[2] = {} /\ ~torn => \A s \in 1 .. 2 : s \in DOMAIN after /\ after[s].first # {}
       /\ which[2] \cap {"protocols", "history"} = {} /\ torn => 2 \in DOMAIN after /\ after[2].first # {}
       /\ \A s \in DOMAIN after : Gate(after[s], Today, after).passed => after[s].first # {}

\* A parent nobody carries leaves no trace, so a fork of it reads as a protocol
\* of its own, and not as one whose lineage could not be confirmed
\* (defillama.parse_venue_metadata, safety._lineage).
ASSUME DroppedParentReadsStandalone ==
  LET payload == {Protocol(1, 1, <<9>>)}
      stored  == ProtocolFacts(Night1(VenueWeb(payload, <<26, 26, 26>>)))
  IN Gate(stored[1], Today, stored).lineage = "standalone"

\* Wrappers of one asset, held in one book or another or not, whose protocols
\* pass or do not and whose pools were read or not.
Lines(pools, audited) ==
  AppendReadings(<<>>,
    Say("defillama", "venue_safety_facts", <<1>>, {[audited |-> {audited}, parents |-> <<>>, incidents |-> 0]}, 1)
    \o Say("defillama", "venue_first_tvl", <<1>>, {26}, 1)
    \o Each(ByName(DOMAIN pools), LAMBDA p : Say("defillama", "venue_pool", <<p>>, {pools[p]}, 1)))
Stake(ticker, figi, shares) == [asset |-> 1, ticker |-> ticker, figi |-> figi, shares |-> shares]
Stakes == {<<>>} \cup {<<Stake(0, {-1}, 4)>>, <<Stake(1, {}, 4)>>, <<Stake(1, {99}, 4)>>,
              <<Stake(0, {11}, 4), Stake(2, {}, 6)>>, <<Stake(5, {98}, 1), Stake(6, {}, 3)>>}
Wrappers == <<Wrap(1, 1, <<7>>), Wrap(2, 1, <<8, 9>>)>>
PoolReads == UNION {[D -> {PoolFacts(2, FALSE), PoolFacts(5, FALSE), PoolFacts(9, TRUE)}] : D \in SUBSET {7, 8, 9}}

\* A wrapper held is listed with every pool it has, read or not, passing or not;
\* one not held only where it passes and is not an outlier; and what passes
\* stands before what does not, that before what was never read.  A namesake that
\* carries another contract is not the wrapper (yields.scan).
ASSUME HeldIsNeverDropped ==
  \A positions \in Stakes : \A pools \in PoolReads : \A audited \in BOOLEAN :
    LET lines   == Lines(pools, audited)
        options == OptionsFor(Wrappers, positions, ProtocolFacts(lines), lines, Today)
        shown   == {<<options[i].wrapper, options[i].pool>> : i \in DOMAIN options}
        held(w) == HeldShares(w, positions) # {}
        rank(o) == IF o.gate = {} THEN 2 ELSE IF The(o.gate).passed THEN 0 ELSE 1
    IN /\ Cardinality(shown) = Len(options)
       /\ held(Wrappers[1]) => \E i \in DOMAIN positions : positions[i].figi \in {{}, {Wrappers[1].contract}}
       /\ \A i \in DOMAIN Wrappers : LET w == Wrappers[i] IN \A p \in ToSet(w.pools) :
            <<w.wrapper, p>> \in shown <=>
              held(w) \/ (p \in DOMAIN pools /\ audited /\ pools[p].outlier # {TRUE})
       /\ \A i \in DOMAIN options : \A j \in DOMAIN options : i < j =>
            /\ rank(options[i]) <= rank(options[j])
            /\ rank(options[i]) = rank(options[j]) /\ rank(options[i]) < 2 =>
                 The(The(options[i].facts).apy) >= The(The(options[j].facts).apy)

\* A review's note, and the treasury's advice, name the best of what the yields
\* view lists as passing and not held, and a book that cannot say what it holds
\* is told nothing (review.yield_note, treasury.book).
ASSUME NoteIsTheBestNotHeld ==
  \A positions \in Stakes : \A pools \in PoolReads : \A audited \in BOOLEAN :
    LET lines    == Lines(pools, audited)
        options  == OptionsFor(Wrappers, positions, ProtocolFacts(lines), lines, Today)
        free     == SelectSeq(options, LAMBDA o : o.held = {})
        notes    == YieldNotes([i \in DOMAIN positions |-> [value |-> {positions[i].shares}, ticker |-> positions[i].ticker]],
                               [i \in DOMAIN positions |-> 1], positions, Wrappers, lines, Today)
        advice   == Advice(Wrappers, lines, Today)
    IN /\ notes # {} <=> Readable(positions) /\ free # <<>>
       /\ \A n \in notes : /\ n.apy = The(Head(free).facts).apy
                           /\ \A a \in n.already : a[1] # n.wrapper
                           /\ \A i \in DOMAIN positions : positions[n.reading].shares >= positions[i].shares
       /\ ~Readable(positions) => notes = {}
       /\ Len(advice) = Cardinality({p \in DOMAIN pools : audited /\ pools[p].outlier # {TRUE}})

\* An asset held anywhere is shown with every mandate that holds it, or counted
\* as matched when no venue of its wrappers has anything to say; and a row of
\* parked money is read, unfetched or unconfigured, as its venue is
\* (yields.scan, treasury.book).
ASSUME MatchedIsNeverSilent ==
  \A one, two \in Stakes : \A pools \in PoolReads : \A audited \in BOOLEAN :
    LET lines  == Lines(pools, audited)
        books  == <<[mandate |-> 1, positions |-> one], [mandate |-> 2, positions |-> two]>>
        view   == YieldsFor(books, Wrappers, lines, Today)
        venues == <<[venue |-> 1, protocol |-> 1, pools |-> <<7>>], [venue |-> 2, protocol |-> 2, pools |-> <<8>>]>>
        safety == RowSafety(<<[venue |-> 1], [venue |-> 2], [venue |-> 3]>>, venues, ProtocolFacts(lines), Today)
    IN /\ view.matched = (IF one \o two = <<>> THEN 0 ELSE 2) /\ view.configured = 2 /\ view.span = {<<1, 1>>}
       /\ Len(view.assets) = (IF \/ \E w \in ToSet(Wrappers) : HeldShares(w, one \o two) # {}
                                 \/ view.matched > 0 /\ audited /\ \E p \in DOMAIN pools : pools[p].outlier # {TRUE}
                              THEN 1 ELSE 0)
       /\ \A i \in DOMAIN view.assets : view.assets[i].mandates = {b \in {1, 2} : books[b].positions # <<>>}
       /\ safety = (1 :> [state |-> "read", gate |-> {Gate(ProtocolFacts(lines)[1], Today, ProtocolFacts(lines))}]
                    @@ 2 :> [state |-> "not_fetched", gate |-> {}] @@ 3 :> [state |-> "unconfigured", gate |-> {}])

\* An unlock schedule's two windows add up to what the sections release between
\* their ends, however the sections start and stop (defillama.parse_unlock_schedule).
Points == {<<>>, <<[day |-> 10, unlocked |-> 1]>>, <<[day |-> 90, unlocked |-> 2], [day |-> 105, unlocked |-> 5]>>,
           <<[day |-> 50, unlocked |-> 1], [day |-> 150, unlocked |-> 3], [day |-> 400, unlocked |-> 9]>>}
ASSUME UnlocksAddUp ==
  \A sections \in UpTo(3, Points) : \A now \in {5, 60, 100, 120, 310} :
    LET schedule == UnlockSchedule({[sections |-> sections, tbd |-> {}]}, now)
        released(day) == Sum(sections, LAMBDA s : LET past == {s[i].unlocked : i \in {i \in DOMAIN s : s[i].day <= day}}
                                                  IN IF past = {} THEN 0 ELSE Max(past))
    IN /\ schedule = {} <=> sections = <<>>
       /\ \A u \in schedule : /\ u.past >= 0 /\ u.scheduled >= 0 /\ u.today = released(now)
                              /\ u.past + u.scheduled = released(now + 90) - released(now - 30)

\* A side of a comparison does not depend on which side it is: swapped, every
\* cell and ratio changes hands, and the captions name the same protocol save
\* where the ratios are equal; and nothing is divided by nothing (compare.card).
Side(asset) == [asset |-> asset, fees |-> asset, tvl |-> asset, coin |-> asset, exchanges |-> <<asset, 10 * asset>>]
Figure(asset, kind, value, at) ==
  Say(IF kind \in {"open_interest", "volume_24h", "market_cap"} THEN "coingecko" ELSE "defillama",
      kind, <<asset>>, value, at)
CardLines ==
  {AppendReadings(<<>>, Figure(1, "market_cap", cap, 1) \o Figure(2, "market_cap", {6}, 1)
     \o Figure(1, "open_interest", oi, 1) \o Figure(10, "open_interest", {1}, 2) \o Figure(2, "open_interest", {3}, 2)
     \o Figure(1, "protocol_tvl", {5}, 1) \o Figure(1, "protocol_category", kind, 1)
     \o Figure(2, "protocol_category", {"perps"}, 1) \o Figure(2, "volume_24h", {4}, 3)
     \o Figure(2, "protocol_revenue_30d", {2}, 1) \o Figure(1, "protocol_revenue_30d", revenue, 2)) :
   cap \in {{}, {3}, {6}}, oi \in {{}, {0}, {2}}, kind \in {{}, {"perps"}, {"lending"}}, revenue \in {{}, {0}, {2}}}
ASSUME SidesAreAlike ==
  \A lines \in CardLines :
    LET card(a, b) == The(CompareFor(a, b, <<Side(1), Side(2)>>, lines).card)
        one == card(1, 2)  two == card(2, 1)
    IN /\ \A row \in DOMAIN one.metrics : /\ one.metrics[row][1] = two.metrics[row][2]
                                          /\ one.metrics[row][2] = two.metrics[row][1]
       /\ (one.metrics["tvl"][1].state = "not_comparable") <=> (one.metrics["tvl"][2].state = "not_comparable")
       /\ \A r \in DOMAIN one.ratios :
            /\ \A q \in one.ratios[r].left \cup one.ratios[r].right : q[2] # 0
            /\ one.ratios[r].left = two.ratios[r].right /\ one.ratios[r].right = two.ratios[r].left
            /\ one.ratios[r].caption = two.ratios[r].caption
               \/ \E a \in one.ratios[r].left, b \in one.ratios[r].right : a[1] * b[2] = b[1] * a[2]
       /\ one.spans = <<two.spans[2], two.spans[1]>>
       /\ CompareFor(1, 3, <<Side(1), Side(2)>>, lines) = [code |-> 1, card |-> {}]

\* A source that cannot be reached costs its own readings and no other's, and a
\* night that read nothing writes nothing (altsignal_cli).  A chain that shares
\* its name with a protocol has a block, an empty one, by the protocol's readings
\* alone (review.altsignal.chain_lines).
SignalsCfg == [chains |-> <<[asset |-> 1, chain |-> 1]>>, protocols |-> <<>>, venues |-> Asked, wrappers |-> <<>>,
               markets |-> <<[platform |-> "kalshi", key |-> 4, why |-> "w"],
                             [platform |-> "polymarket", key |-> 5, why |-> "v"]>>]
SignalsWeb(downs) ==
  [down |-> downs, tvl |-> (1 :> <<{}, {3}>>), stables |-> (1 :> <<>>), dex |-> (1 :> {2}),
   protocols |-> IF 2 \in downs THEN {} ELSE {{Protocol(1, 1, <<>>)}}, history |-> (1 :> <<[day |-> {26}, total |-> {1}]>>),
   pools |-> IF 3 \in downs THEN {} ELSE {(7 :> PoolFacts(3, FALSE))},
   kalshi |-> (4 :> {60}), polymarket |-> (5 :> [i \in 1 .. 5 |-> [name |-> i, yes |-> {(30 * i) % 100}]]),
   graduated |-> IF 6 \in downs THEN {} ELSE {<<[mint |-> {8}, pools |-> <<{2}>>], [mint |-> {9}, pools |-> <<>>]>>}]
ASSUME OneSourceDown ==
  \A downs \in SUBSET (1 .. 6) :
    LET all   == SnapshotSignals(<<>>, SignalsCfg, SignalsWeb({}), 3)
        owner(r) == CASE r.source = "kalshi" -> 4 [] r.source = "polymarket" -> 5 [] r.source = "pumpfun" -> 6
                      [] r.kind = "venue_pool" -> 3 [] r.kind \in {"venue_safety_facts", "venue_first_tvl"} -> 2
                      [] OTHER -> 1
        night == FetchAltsignal(<<>>, SignalsCfg, SignalsWeb(downs), 3)
        macro == MacroRow(SignalsCfg.markets[2], night.lines)
    IN /\ night.lines = AppendReadings(<<>>, SelectSeq(all, LAMBDA r : owner(r) \notin downs))
       /\ night.code = 1 <=> downs = 1 .. 6
       /\ ChainLines(<<2, 1>>, SignalsCfg, night.lines) =
            CASE 1 \notin downs -> (2 :> {[kind |-> "chain_tvl", value |-> 3], [kind |-> "dex_volume", value |-> 2]})
              [] {1, 2} \subseteq downs -> <<>>
              [] OTHER -> (2 :> {})
       /\ macro = {} <=> 5 \in downs
       /\ \A m \in macro : /\ Len(m.top) = 3 /\ m.others = 2
                           /\ \A i \in 1 .. 3 : m.top[i][2] \in {60, 50, 30}
=============================================================================
