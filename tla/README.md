# tegan-trades: a verification of the trading desk

TLA+ models of this repository: the order path from an approval to the row that
says how it ended, the files two machines append to and merge, the reading of a
chart and the queue made of it, the corpus a night builds, the accounts it reads
and what it says of them in the morning. TLC checks them on small instances;
TLAPS proves the results that matter most for every value of the constants.

    tlc -workers 2 -config order_hl.cfg MCOrder       # any run: PROJECT.json "runs"
    tlapm OrderLifecycleProofs.tla                     # and the other *Proofs modules

## The system

A nightly job on a droplet ingests videos and posts, distils stances from them,
reads the accounts and the alternative data, scores candidate trades, renders a
queue and mails a digest. A person on a laptop triages that queue (`setups
--execute`): each approval is written to a decisions sidecar and may become a
bracket order (entry, stop, target) at Alpaca or Hyperliquid. The nightly's
`book --reconcile` later asks the venues what became of the orders and goes on
to book the trades that are over (`close_out`). Both machines append to the same
JSONL files, merged through an rclone mirror.

### Components, their state, and what makes them correct

| component | state | operations | what must hold | modelled in |
|---|---|---|---|---|
| `execution.store` | `orders.jsonl`, append-only | five kinds of row; views: latest row, placed, unsettled, awaiting exit, order ids, risk | a view never forgets an order that is still owed a verdict or a close | OrderLog |
| `execution.session`, `oracle.execute.offer` | `Session`: duplicate guard, risk, committed, cached equity | open, prepare, execute, decline | never two live brackets on one candidate; every approval leaves a row | OrderLifecycle, RiskBook, Sitting |
| `execution.book_cli`, `book`, `outcome` | none of its own: decides rows, then appends them | reconcile, close-out, cancel | verdicts agree with the venue; each exit is booked once and whole; while two trades share an instrument, to its own | OrderLifecycle |
| `execution.broker`, `alpaca_broker`, `wire` | the venue's | place, cancel, states, live_keys, fills | what an unanswered question means: blocked, not free | OrderLifecycle (venue side external) |
| `execution.plan`, `sizing`, `portfolio`, `budget`, `account`, `desk` | `Desk`: a session per venue | build, book, headroom, open | pooled ceiling and buying power never promised twice; the smallest ceiling wins | RiskBook |
| `oracle.mirror`, `core.jsonl_sync` | four copies of each SYNCED file | reconcile | no row lost, doubled or reordered; every row arrives | MirrorSync |
| `oracle.decisions` | sidecar and its vault copy | append_decision, sync_mirror | the copies stay comparable; mirroring is never latched off | MirrorSync |
| `scripts/nightly.sh`, `data-pull.sh`, `backup.sh` | stamps, the mirror | pull, work, backup | a backup never overwrites what a pull did not merge | MirrorSync (in part) |
| `core.structure`, `dealing_range`, `imbalance`, `liquidity`, `trigger` | none; a cache of bars that grows | swings, breaks, zones, pools, triggers | what was read of closed bars never changes | Structure, PriceLevels, Chart |
| `core.setups`, `exits`, `review`, `score`, `oracle.replay` | none | build, gate, collapse, review, grade | trades can be placed as drawn; the reports agree with one another | Setups, Candidates, Verdicts, Chart |
| `oracle.setups_cli`, `queue`, `exclusions` | decisions, exclusions, approvals note | sample, triage, archive, approve | an approval is noted, if a note is kept, and leaves a trace; the cap starves nobody | Queue, Sitting |
| `core.routing`, `gaps`, `funding`, `oracle.venue_routing` | none | quote, rank, choose | a closed gate loses to every open one, then cost decides | VenueRouting |
| `ingestion` | transcripts, dead letters, spend ledger | verify, sweep, search, reconcile | only the hopeless is buried; the ledger never claims more than was billed | Feeds, Corpus |
| `distill`, `brain` | theses, stances, an index and its ledger | read, extract, index, search, fold | what is captured is read in the end; the index matches the files | Passages, Corpus |
| `oracle.plaid`, `wallet`, `zerion`, `kraken_account`, `coinbase_account` | none | an answer becomes rows, or is refused | what is read is whole or refused | Accounts |
| `oracle.portfolios`, `*_cli`, `balance_store` | portfolio files | read, write, sync | a failed sync leaves the file as it found it | Books |
| `oracle.transaction_store`, `plaid_cli` | one history file a book | window, page, commit | nothing that stands is dropped; what stands arrives | History |
| `core.networth`, `networth`, `treasury`, `oracle.benchmarks` | a ledger of nights | total, regroup, guard, compare | the same money however it is grouped | Worth |
| `oracle.altsignal*`, `review.altsignal` | a month's readings | fetch, append, read | one source down takes nothing else with it | Signals |
| `core.safety`, `venue_facts`, `yields`, `treasury.book` | none | gate, rank, advise | age is inherited along a well-founded lineage | Yields |
| `compare` | none | one card | the two sides are treated alike | Cards |
| `digest` | a memory of what was said | build, mail, save | nothing told twice, nothing forgotten | Overnight, Digest |
| `oracle.setups_sync`, price cache | cached bars, an age | refresh, freshness check | - | not modelled |
| `dashboard`, `llm` | none | a local view; an API wrapper | - | not modelled |

How they interact: triage appends to the approvals note, then to the sidecar,
and *then* offers an order, so an approval outlives a failed order; a session
and a book pass share nothing but `orders.jsonl`, with no lock, and read it at
different moments; the two machines share nothing but the mirror, with no lock
either; the venue, the market and the broker's books move on their own all the
time; the nightly's steps share nothing but the files each leaves for the next.
That is where the hard behaviour is: rows decided on a state that has moved,
replies that never come, processes that die between two writes, answers taken
for absence, a window that opens where the last one is thought to have closed.
PROJECT.json lists each such hazard at its line with the properties that would
catch it.

## The modules

### Orders and files

**OrderLog** is `store.py`: the row kinds and every view, as pure operators over
a sequence of rows. A row has the fields the views read: key, outcome, the
venue's status and quantity, the order it names, its risk; a close also has the
`reason` the code gives it, `unknown` when the log does not hold the three leg ids
of the bracket. The `network` filter is one log per network.

**OrderLifecycle** is one venue with its triage session and book pass. `orders`
and `fills` are the venue (external, from how the adapters use it), `session`
and `prompt` the open `Session` and the plan shown at "execute? [y/N]", `pass`
and `todo` the book pass and the rows it has decided on and not yet appended.
Actions follow the code: `OpenSession`, `OfferRefused`, `OfferPlanned` ... for
`offer` with each of its exits; `BeginReconcile`/`BeginCloseOut` decide all rows
from one reading of the venue, `WriteReconciliation`/`WriteClose` append them
one at a time, because `book_cli` does. The two venues differ where the adapters
do: Alpaca refuses a reused client_order_id and reports each leg's status,
Hyperliquid accepts again and reports none.
Candidates may share an instrument (`SymbolOf`) and stand on either side of it
(`DirectionOf`); `Named` are the brackets whose leg ids the log comes to hold.
What closes a candidate's trade is decided as `close_out` does it: by instrument,
side and time, and, when the exit list has two of the instrument, by leg id too.
Three conventions stand for what the feed says. Prints bear distinct stamps, so
"at or after the entry's end" is after it. Hyperliquid states of each print
whether it closes exposure; the model has one side to a coin there
(`OneSidePerCoin`), where that and the side are the same. And the price and stop
a close needs beside the quantity are taken as on the row.
`Faults` is the set of things the environment may do: `again` (an approved
candidate comes back), `partial`, `unnamed`, `lost`, `killed` (kinds of broken
placement), `crash`, `concurrent`.

**TradeLedger** is what the log promises a reader: a trade is sent, settled,
and booked if it was held, and never sent again while held. OrderLifecycle
implements it under the mapping `LedgerState` (the last row that is not a
refusal or a failure).

**RiskBook** is a `Desk` of two venues. `exposed` is the recorded risk of the
brackets live at each, `risk` and `committed` the sessions' running totals,
`equity` their cache. `prepare` gathers what `plan.build` is given and `build`
is its arithmetic: the wanted size, the ceilings of `apply_caps`, the two floors
of `min_budget_fill`, the lot rounded down, the minimum notional. Size is
counted in units whose stop-out costs one, so size and risk are one number and
price is a constant; an unmeasured ceiling is `{}` and a measured one `{n}`,
which is the code's None/0.0 distinction. Equity, and so the ceiling, does not
move while the model runs, though the code reads it afresh at each sitting
(portfolio.py:111): a ceiling that falls below what is already at risk is exceeded
with nothing sent, and the next plan is refused. `Book.unpriced`, the live keys
without a recorded risk (portfolio.py:149), is left out: it is printed and counts
as no risk.

**MirrorSync** is one SYNCED file on the laptop, the droplet and the mirror,
with the laptop's vault copy. `mirror.reconcile` is four steps per machine
(fetch, read, write, upload), since another process may act between any two.
`merge_lines` is the code's function. `Faults`: `race`, `outage`, `unreadable`,
`crash`, `overlap`, `vaultless`, `loss`.

### The chart and the queue

**Structure** (swings, breaks of structure, displacement, the week built of
days) and **PriceLevels** (ranges, gaps, order blocks, pools, triggers, levels)
are `core`'s five modules as pure functions of whole-numbered bars; a mean is a
cross-multiplied comparison. **Setups** builds a candidate from a person's call:
its zone, entry, stop, ladder of exits, target, and each refusal in the code's
order. **Candidates** folds many into a queue row (`collapse`, one per asset, the
order of the queue), **Verdicts** is what is said beside it: the chart-led
review, the nearby levels, the replay of a bracket and the scores of the people.
A pool is a set of swings and a ladder a set of rungs: what the code keeps in the
order it found them, and nobody reads in that order.
**Chart** puts them over time: `bars` is the cache, the newest bar still forming;
days pass, pulls rewrite or extend it, a sitting reads everything once and a
bracket goes on the record. What a day may bring is `Moves`, a set of constants
(a change, two wicks, a volume); `Printed` is every bar they make of a close that
leaves no price at nothing, so the bars there can be are not bounded.

**Queue** is the sampled queue (`oracle.queue`), **VenueRouting** the price of
an overnight gap and of carry and the choice between venues (a term nobody
measured is absent, never zero), **Sitting** a triage sitting from its first
prompt to its last write: `decided` is the sidecar, `note` the vault's approvals
note, section by section, `excluded` the exclusions file, `orders` the rows the
offers left. A sitting opens with the note (`filing`), which needs the vault, or
without it (`--no-vault-note`). Approve is two writes and an offer, in the
code's order; `Dies...` is a death between any two of them, or inside the first,
since `append_note` rewrites the whole note in place and a kill leaves any
beginning of it. `unnoted` is a history variable: approvals given without the
note, and those whose section such a kill took. An offer out of the desk's reach
is recorded against the run's own network, as the code does, with its own
status. The kinds of refusal an offer may end in are one status. A row is a
place in the build's population, as queue.py keeps "Indices throughout".

### The corpus

**Feeds** is what ingestion decides of one video, one day of X or one channel,
**Passages** what distill and brain make of a text: rows kept one by one, the
chunker, the index's rows, search, the folding of stances into views. **Corpus**
is a night: sweep, search, distil, extract, index, each item a step, each write
a step, with kills between any two. `world` is what is out there (videos with
the day their captions come, posts with the day the search sees them), `stamp`
the mtimes the index's fingerprint is made of, `billed` what xAI charges against
`ledger`, what the program believes.

### Accounts, signals, the morning

**Accounts** turns each API's answer into rows or refuses it; **Books** is the
portfolio file each sync finds and leaves; **History** the pages of a broker's
transactions committed into a file while rows are posted and taken back (`cache` is
the file; a page is a set of rows, those at the next places of the window).
**Worth** is the total, its regrouping, the ledger of nights, parked money and
the benchmarks. **Signals** is the nightly fetch of alternative data, its store
with torn lines, and the lines a review prints from it; **Yields** the safety
gate and everything that asks it; **Cards** one protocol beside another.
**Overnight** is what each section of the digest says, **Digest** the mornings:
a digest is built, mailed and only then remembered. The roster section's scope,
tonight's rows and what is open, is any set of assets (`wanted`). `skipped` is a
history variable: the videos a digest took as told without showing them.

`MCOrder`, `MCRisk`, `MCChart`, `MCCorpus`, `MCSitting`, `MCHistory` and
`MCDigest` hold what the configurations name - the series, worlds, candidates,
stances - and the assumptions TLC evaluates about the pure operators.

## The runs

| run | instance | what it shows |
|---|---|---|
| `order_hl` | Hyperliquid, 1 candidate, 3 brackets, lot 1; again, unnamed, crash, concurrent | `OneBracketPerKey`, `GuardCoversPosition`, and the log implements TradeLedger |
| `order_alpaca` | Alpaca, 1 candidate, lot 2; every fault but unnamed | `SettledIsTrue`, `ClosedIsFlat`, `ClosesMatchFeed` |
| `order_two` | Alpaca, 2 candidates of one instrument; crash, concurrent; with fairness | `CeilingHolds`, `SharedExitsAreOwn`, `UnsettledUntilReconciled`, `AwaitingUntilClosed`, `EveryFinishedTradeIsBooked` |
| `risk` | 2 venues, 4 candidates, ceilings 5 + 4, lot 2, caps 1 and 3; silent, broke | `PooledCeiling`, `PowerCoversOrders`, `SizeIsSmallestCeiling` |
| `mirror` | 1 shared row, 2 rows a machine; race, outage, crash; with fairness | `OwnOrderKept`, `NoRowTwice`, `VaultFollows`, `LocalOnlyGrows`, `LaptopCatchesUp` |
| `mirror_backup` | as above with a failed pull | refutes `RemoteOnlyGrows` (see below) |
| `chart` | 7 histories of 19 to 33 bars, each going on for 1 to 3 days of 4 possible bars; 11 calls, 6 stances | `NeverRepaints`, `TradeIsOrdered`, `InternalTargetAhead`, `NoCrossAdvice`, `PoolsAreUntaken`, `LevelsAgreeWithReview`, `ReplayIsFinal` |
| `corpus` | 5 worlds, 4 days, 1 fault anywhere, 2 searches, 2 documents a night; with fairness | `OnlyHopelessBuried`, `LedgerIsFloor`, `IndexIsCurrent`, `EveryCaptureIsRead` |
| `corpus_gap` | as `corpus`, without fairness | refutes `FailedDayIsRetried` (see below) |
| `sitting` | 3 candidates for 2 places, 2 venues, with the note or without, 1 day's turn, 1 market move or 1 death; with fairness | `ApprovedIsNoted`, `ApprovalLeavesATrace`, `EveryCandidateIsReviewed` |
| `history` | 3 rows (1 not kept: of another account, or unreadable), pages of 1, days 4 to 5, reach 3, resettle 1, 2 edits, 1 fault; with fairness | `NothingStandingIsDropped`, `RecentRowsAreKept` |
| `digest` | 3 videos, days 5 to 7, any scope of the roster, 2 runs of `setups`, 1 order event, 1 fault | `ToldOnce`, `NothingIsForgotten` |

Why these bounds. Three brackets on one candidate are the first that let a stale
verdict, a guard read and a re-entry belong to three different placements; a
fourth repeats them. Lot 2 is the least that has a partial fill and a partial
exit. Two candidates of one instrument are what pooled risk and the ambiguity
guard need: either may be on the exit list when a pass reads it, and come off or
be joined by the other before the row is written. In `risk`
the wanted sizes are the whole of each venue's share and rounding loses one, so
every ceiling, both floors and the minimum are each the deciding one somewhere;
four candidates fill both books over several sittings. In `mirror` two rows per
machine are the least that can be reordered, and one of the laptop's is shared
history. `MaxNoise` bounds refusal and failure rows, which only matter as the
*latest* row of a key. `order_hl` leaves out `lost`, `killed` and `partial`:
with them the guard fails on Hyperliquid, as the hazard list says, and no
document promises otherwise.

A trade needs some twenty bars before the engine sees one, so `chart` does not
enumerate bars from nothing: each history ends a bar before the case it is there
for - a trigger about to fire (`Fired`, three days, so that a bracket can fill
and be settled), one armed short, an entry outside the range, a resistance, a
reached target, a runner, a weekly zone - and from there every bar of the small
market is tried. Windows are cut to match (`Width` 1, weeks of two days). In
`corpus` each world has one thing wrong in it, and one fault may strike at any
step of any night; two documents a night against up to four that wait is what
makes the limit bite, and four days reach past the lookback and the grace.
`sitting` has one candidate more than places, so the cap leaves somebody out
every night. In `history` a page of one row makes every shift of the feed fall
between two pages, and a resettle margin below the reach is what a moved window
needs. In `digest` the windows are two days, a first digest's one, and the memories
two, the least that keeps what a window still reaches; so within three mornings a
video is published, distilled late, left behind by a digest without a memory and
dropped from one.

The pure operators are checked as assumptions of the MC modules, over every
small input: MCCorpus has six (the passages cover the text, the views agree with
the per-document priors, a clean watchlist is one the sweep can work ...),
MCDigest twelve (one for each promise of a section), MCSitting eight (strata,
the queue, gates before cost ...), MCHistory thirty-four (each reader whole or
refused, a written book read back as it was meant, the same money by asset, the
lineage well founded, the card's two sides alike ...) and MCChart one. Some of
them state what the code does where its documents say otherwise; those are named
in the next section.

Accounts, Books, Worth, Signals, Yields and Cards, and most of Passages and
Overnight, are there for these assumptions: no run's property depends on the first
six, and what is known of them is what the assumptions say on those inputs.

The passing runs have between 9 000 and 1 300 000 states; `order_two` (two minutes),
`history`, `digest` and `sitting` (a minute or more each) are the longest.

What the configurations leave out on purpose. Corpus excludes a kill between a
transcript's .txt and .json, and, with `KillsForced` FALSE, a kill of
`brain-index --force`: each loses a document for good and is a finding below.
`sitting` floors routing costs to whole basis points. `Worth`, `Signals`,
`Yields` and `Cards` keep no state between runs beyond a row a night, so they are
operators checked by assumptions, over one month's store file, with names as
numbers and positive denominators. In Corpus a write never brings an older file
back: a file restored with an older mtime, which index_cli.py:69-72 concedes and
leaves to `--force`, is not modelled; and a post is dated the day it was asked for
(x_search.py:262), since the searches' windows return posts of that day only. In
History a row no reader can parse (plaid_cli.py:263, 272) is one of `Outsiders`:
counted by the page, not kept. In Verdicts `resolve` always has a fill window; none
(`fill_within=None`) is a `FillWithin` past the last bar, which the theorem covers,
and `tail_days` only hands it fewer bars; in src/ only the scripts/probe_* pass
either.

## Where the code and its documents disagree

PROJECT.json "findings" quotes both sides of each. Two have a run that checks
the sentence and finds the behaviour that breaks it:

- `mirror_backup`: after a failed pull the wholesale backup overwrites the
  mirror with a copy that lacks the laptop's rows (`RemoteOnlyGrows`).
- `corpus_gap`: the resume point is the newest captured day, so a day whose
  search failed is never asked for again once the next day answers
  (`FailedDayIsRetried`).

The others were met while modelling. Some have a property that states the
sentence and is in no run because the code does not keep it; it is named here.

Orders and files. A resting order approved a second time is refused as a
duplicate, and that refusal takes it off the reconcile list. Of two positions on
one instrument only those on the exit list count as holders, so while the
other's fill is not yet reconciled, or once its close is booked, one's exit can
be booked to the other (`CloseNamesOwnExit`; what the guard does keep is
`SharedExitsAreOwn`). The other candidate's own leg counts as unattributable
too: two trades that each come off by their own leg after the other's entry hold
each other back for good (`KnownLegsAreBooked`), which is why
`EveryFinishedTradeIsBooked` excepts them. An entry filled in part and then
cancelled is a position no guard, risk total or exit list knows. An equity of
zero raises through `offer`, which says it never raises. A fetch that times out
is read as an empty mirror (`UploadOnlyAdds`), and the pull that opens a session
after a lost sidecar leaves two copies neither of which begins the other:
mirroring stays off. A vault that fails for one decision and not for the next
leaves a gap with the same effect. `merge_lines` collapses equal lines of the
remote side; the docstring of `HyperliquidBroker.live_keys` is stale; the
portfolio floor measures against the size before every cap; `account.headroom`
does not see an earlier sitting of the same night.

The chart and the queue. A block on the range's boundary takes the boundary's
name away and the thesis is refused as having no target
(`RefusalMeansNoLiquidity`); a trigger's stop can lie on the profit side of its
entry (`TriggerStopBehindEntry`); a structural target can be behind price
(`TargetAhead`); a person who turned under another spelling is shown as a
supporter (`ReversalsShown`). Chart states these four and MCChart has the
histories that break them (`MCBoundRuns`). A candidate deferred from inside its
zone does not return when price does; the approvals note is called append-only
and rewritten whole, so a kill can take earlier sections with it; a near tie
goes to cost, not to evidence; a ticker that two perp dexs list is costed at the
median of both.

The corpus. A kill of `index --force` loses a transcript's passages
(`KilledIndexIsRedone`), a kill between .txt and .json a transcript. A post that
arrives after its day was read is never distilled. An empty assets column does
not mean what vector_store.py says, nor hide a transcript as nightly.sh says.
The docstring of `brain.extract` is stale and `chunk_transcript`'s starts are
not always increasing.

Accounts and signals. A first pull that answers with nothing makes the backfill
unreachable (`BackfillIsRepaired`); a short page replaces a whole window; the
hiccup guard keeps rows that were taken back; a torn history file stops every
later sync; two accounts of one name lose the cash of one; a stake that is dust
stops the wallet sync; a stale second run hides the night's baseline; a fork
whose parent was dropped is read as standalone; a chain that shares its slug
with a protocol gets a block with no line.

The digest. A digest built while no video is remembered shows the short window
and takes what is older as told. That is meant for the first one, when an older
program had sent those; but it is so again after a lost memory, or after nights
with nothing distilled, and a video distilled late in between is told by no
digest, where state.py promises that a lost file only costs a repeat
(`LossOnlyRepeats`). An event between the morning's digest and a run of `setups`
by hand is in no digest (`NoEventFallsBetween`); a failed mail loses the book's
and the queue's news, which are windowed by snapshot and not by what was said.

## Fairness

`NightlyFairness` (order_two): the nightly runs `book --reconcile` every day and
again after a crash, so beginning a pass that has work, and appending a row it has
decided on, happen if they are possible again and again (strong fairness: a crash,
or a night when the venue does not answer, may stop any one of them); a pass that
is done ends and an open session is closed (weak). Nothing is assumed of which row
is appended first, nor of the venue's fills. The property is that again and again
every finished trade is booked, but those the guard may hold back; a booked trade
stays booked.

`DailyFairness` (mirror): the droplet's nightly and the laptop's scheduled pull
(`PULL_EARLIEST`, data-pull.sh:83-121) each run daily, and rclone works
infinitely often, so a successful fetch by each machine and the nightly's backup
are strongly fair; steps of a reconcile under way are weakly fair.

`FairSpec` of Corpus: the timer starts a night again and again, whatever
happened to the last one (strong), and a night under way goes on (weak). Nothing
is assumed of the searches or of the model's answers beyond the bound on faults.

`FairSpec` of Sitting: the operator keeps sitting down and answering what is
asked (strong on an answer, since a death may take the prompt away; weak on the
opening, the offer and the end), and the vault comes back. Without an operator
nothing is ever reviewed.

`FairHistory`: plaid-sync runs every night (weak on opening a pull,
reading a page and committing), and a torn file, which every later run trips
over, is seen and deleted.

## The proofs

Assumed throughout: only the named assumptions of each module on its constants
(TLC evaluates them on every run), plus what a theorem states. `Keys` is finite;
a memory of the digest is no shorter than the window it serves, and a video has
one date (`DigestConstants`); no two candidates of one build share a key
(`SittingConstants`, `collapse`); a broker's rows are finitely many and numbered, and
a pull's margin is shorter than its reach (`HistoryConstants`); what a world lists is
among its videos and its paths are documents (`WorldsAssumption`); the series a
chart starts from are two or more well-formed bars, moves and levels are whole
numbers (`ChartAssumption`), and the engine's windows, reaches and tolerances are
what `core`'s defaults are, naturals (`StructureAssumption`, `LevelsAssumption`,
`VerdictsAssumption`).

**DataProofs** - what the others keep needing about data. A set of naturals has a
least member (`LeastExists`, from the well-foundedness of the naturals). A total
over a finite set, which the community module folds in no order it names, exists,
is unique, and is what the fold returns (`SumIsFold`); taking one member away
takes its value away (`SumProperties`), and a total that is covered member by
member is covered (`SumCovered`).

**OrderLifecycleProofs**
- `TypeCorrect`: TypeOK for any candidates, lots, ceilings and faults.
- `DuplicateGuardSound`: OneBracketPerKey, on Alpaca under every fault, on
  Hyperliquid when placements are not broken (`partial`, `lost`, `killed`
  excluded: without an id the venue cannot refuse and the log does not know).
  Alpaca's argument is short: the venue accepts a key once (`OneBracketEver`).
  Hyperliquid's needs `GuardInv`, since the guard is computed once and the world
  moves on. It speaks of the brackets that stand, that is, were not killed:
  each is the latest placement in the log (`StandingIsOnRecord`), there is one a
  candidate (`OneStandingPerKey`), an open session's guard contains every key
  that has one (`OpenSessionKnows`), a plan on the screen is for a key not in it
  (`PromptIsUnplaced`), and rows a pass still has to write place nothing
  (`TodoPlacesNothing`).
- `OpenPositionsAreGuarded`: GuardCoversPosition on Hyperliquid for entries that
  fill whole (`Lot = 1`), adding `DeadIsEmpty`: a killed entry holds nothing.
- `CeilingIsKept`: CeilingHolds, on both venues when every order taken leaves a
  placed row. `RiskInv` says that a bracket that can lose is in the log with the
  risk it was sent with (`RiskIsOnRecord`), that an open session's total counts
  every candidate that has one (`OpenSessionCounts`), and that the plan on the
  screen fits beside that total (`PromptFits`). So what can be lost is covered,
  candidate by candidate, by what the session counts (`StakeCovers`), and one more
  bracket adds its own plan. On Hyperliquid one bracket a candidate is
  `DuplicateGuardSound`'s argument again: two of them would be counted once.

It begins with what one append does to the views of the log: it changes those of
one candidate, and only placements change which order a key names. "The last row
that ..." is a CHOOSE over row numbers (`LastIsLargest`).

Then what a book pass writes, on Alpaca with every order named.
- `VerdictsStayTrue`: SettledIsTrue. `VerdictInv` says that a placement in the
  log names a bracket of its own candidate, and that every verdict, written or
  only decided on, is one a bracket of its candidate has settled into; such a
  bracket keeps it (`BracketsLast`) and the candidate has no other.
- `ClosedTradesAreFlat`, `HistoryCountsOnce`, when in addition no two candidates
  share an instrument (`OwnSymbol`): ClosedIsFlat,
  ClosesMatchFeed. `FeedInv` ties the fill feed to the brackets: as many exit
  prints as a bracket has exited, its entry prints before them, none while the
  entry works. With it the exits a pass counts for a candidate are its bracket's,
  all of them, and once they cover the entry no more can come, so a close decided
  on an old reading is still true when it is written (`ClosesCounted`).
  `CloseInv` adds that no exit is decided on or written twice (`OnceOnly`) and
  that no placement and no verdict follows a close, so a candidate that a pass
  closed in part before it died is never reopened. That it is not finished either
  is the price: its other exits stay out of the history.

And of instruments that are shared, on either venue and under every fault:
- `SharedClosesAreOwn`: SharedExitsAreOwn. The guard looks at the exit list when
  the pass decides and the row is written some steps later, so `SharedInv` carries
  its answer over them: a pass holds closes only, while it closes out
  (`TodoOfPhase`), and each close it still has to write, if another trade on the
  exit list NOW shares the instrument, is of a print the candidate's own leg ids
  name (`GuardedCloses`). At the decision two trades on the list are two holders
  (`TwoHold`), so a stray print would have stopped it (`GuardDecides`); afterwards
  nothing joins the list until the pass is over, for only a verdict does and no
  verdict is written by it any more (`ListShrinks`), and a key's order and an
  order's key stay what they were (`NamesStayOwn`).

Last, what any reader of the log may rely on.
- `LogKeepsTheLedger`: the log implements TradeLedger, on Alpaca under every
  fault, on Hyperliquid with `partial`, `lost` and `killed` excluded. The step
  that is not obvious is a placement: the log has nothing that stops an order for
  a trade it calls held. `HeldFilledWhole` says such a candidate has a bracket
  that filled whole, which the venue (Alpaca) or every session's guard
  (`GuardInv`) holds against a second. `TodoInTurn` and `OneVerdictEach` say that
  what a pass decided is still in turn when it comes to write it.
- `PlacedWaitForVerdicts`, `HeldWaitForCloses`: neither work list drops a
  candidate before its row is written, when no decided candidate is offered again
  (`again` excluded; the first finding above is what happens with it). `WaitInv`
  adds that a session writes only of candidates the log has not heard of
  (`PromptIsNew`) and a pass of candidates that still wait (`TodoWaits`).

**RiskBookProofs**
- `RiskBookTypeCorrect`: TypeOK.
- `SmallestCeilingWins`: the two rounds of capping in `plan.build` are one
  minimum over all the ceilings, rounded once.
- `PooledCeilingHolds`: for any equities, caps and prices, if some venue answers
  and none with live brackets stays closed. `BookInv` adds `RiskCounted` (a
  session's total covers what is live at its venue, from the moment it opens)
  and `PromptFitsBook` (the plan on the screen still fits beside the totals).
  Both assumptions are needed: with `mute` or `unreachable` TLC finds the
  ceiling exceeded, which portfolio.py:28-33 accepts.
- `PowerIsNeverPromisedTwice`: `PowerInv` says the venue's figure lags by no
  more than this sitting's committed total, and the plan on the screen fits.
  Needs `samenight` and `unstated` excluded: an account that states no buying
  power turns the budget off, which account.py's `headroom` intends.

**FilesProofs** - MirrorSync and History, which share no state: each theorem is of its
own module's specification.
- `NoEventIsDoubled`: NoRowTwice, under every fault. `SoundInv` extends it to the
  copies a reconcile holds and adds that no file has a row still to be entered,
  so an append cannot repeat one.
- `DisksOnlyGrow`: LocalOnlyGrows unless a pull runs inside a session
  (`overlap`). `OneWriter`: while a machine reconciles nothing else there writes
  the file; hence `ReadIsCurrent`: what `merge_file` is about to write still
  begins with what is on the disk.
- `OrderIsKept`, `VaultStaysBehind`: OwnOrderKept, VaultFollows and NeverLatched
  unless a disk is lost, a vault append fails or a pull runs inside a session.
  `OrderInv` adds that a machine's own file holds every row it entered
  (`Complete`) and that an open session's two copies are equal (`VaultInStep`).

These rest on what `merge_lines` does for any two files: it keeps the local file
verbatim (`MergeExtends`), takes each row from one of the two (`MergeInvents`),
makes no row two even when the mirror holds it twice (`MergeInjective`), and
keeps each machine's order if both had it (`MergeOrdered`). `Picked` lists a set
of places in order; that `Nth` does (`NthLists`) is a counting argument over the
least natural with enough places below it.

- `StandingRowsStay`: NothingStandingIsDropped, for any rows, page size, margins,
  edits and failures. A commit removes a row whose date ON FILE lies in the window,
  and a pull reads the rows whose date AT THE BROKER does, which may since have become
  an earlier one. `HistoryInv` says why that is no gap: a row
  dated back is still no older than the margin of any window the file makes a pull
  ask for (`MovedWithinMargin`), because a file that exists has been reached back in
  once (`WindowOf`) and a row settles within the margin of its own day
  (`ReadIsRecent`). `WalkIsWhole` is the walk: a pull that nothing disturbed has read
  its window up to its offset, and in the end all of it, or nothing, which `Hiccup`
  catches. That the offset, a count of rows, is a place in the window, and that an
  empty page means its end, is counting: places are distinct (`PlacesDiffer`), so a
  page's worth of them has no hole (`PagesFill`).

**SittingProofs** - for any candidates, venues, cap, sample and draws, and any
number of days, moves and deaths.
- `ApprovalsAreNoted`: ApprovedIsNoted. The note is written before the verdict and
  no other verdict approves anybody. A section is missing only where `unnoted` says
  so: the sitting ran without the note, or a rewrite of the note was cut off.
- `ApprovalsAreSent`: ApprovalLeavesATrace. `SittingInv` says that a sitting's
  rows are distinct places of the build, so a verdict settles its own candidate
  and no earlier one (`OthersKeepVerdict`), and that the next row is the least
  place ahead (`AdvanceGoesOn`), so none is gone past unasked. An offer,
  whatever it ends in, writes its row before the next comes up: for the venue
  the queue showed, or that the desk does not reach it. That the queue repeats
  nobody follows from what `BuildQueue` draws from (`QueueShowsPop`), for both
  samples.

**CorpusProofs** - for any worlds, any number of nights, faults and kills.
- `SpendIsAFloor`: LedgerIsFloor. `SpendInv` adds that the files on disk together
  never come to more than was billed, for a day asked again writes over its own
  (`OneMoreFile`); that is why making the ledger up from them claims nothing false.
- `OnlyTheHopelessAreBuried`: OnlyHopelessBuried. `BurialInv` carries it into the
  registry a run holds in memory; a video is buried on a missing caption only when
  its grace is over, and `WorklistIsListed` says a night only works on videos that
  exist.
- `IndexStaysCurrent`: IndexIsCurrent, when no pass forced by hand is killed
  (`~KillsForced`). `FilesInv` says what the ledger of the index records is no
  newer than the files; `PassInv` that a pass has put back all of its document
  but what is still in its pool, that it does not vouch for the one it is at,
  and that its snapshot of the ledger still agrees for all it has left.
  `InterruptedPassIsRedone` draws from it the promise of index_cli.py:170, which
  the finding above shows broken by a kill of `--force` and by nothing else.

**DigestProofs** - for any stances, windows, memories and faults.
- `NothingIsToldTwice`: ToldOnce. The memory forgets by the day a thing was FIRST
  told, so what makes it sound is that by then no digest looks back on it.
  `Truthful` says each entry's date is one on which all it tells of was out,
  `IsOver` that it is past its window, and `ToldInv` that whoever was told of it
  and not by a lost memory finds it remembered or over. A new voice has no date of
  its own: it is over once the person's first word has left the window, which
  needs that every person, asset and horizon has a newest stance (`FoldedViews`).
- `AllIsTold`: NothingIsForgotten, a property of the step that delivers.
  `SaidInv` says that what is remembered was told, or passed over, and that a
  draft shows what it looked back on and does not remember. The property itself
  bounds what is passed over: only by a digest built while no video is
  remembered, and only videos older than its short window. Whether the first
  digest or a later one is not told apart, because the code does not. TLC found
  a weaker form of it true that the proof showed not to be inductive: a draft's
  memory of the roster must be of what it shows, not of what it takes as told.

**ChartProofs** - for any series, moves, calls and stances, and any number of days.
The state has one inductive invariant, `StateInv`: the cache holds two or more
well-formed bars and is at most a day behind the calendar, and what a sitting read
was read of bars it still has. All that is hard is in the operators.
- `NoReaderLooksAhead`: NeverRepaints. A pull rewrites the newest bar and leaves
  the ones before it (`StateStep`), so a reader that stops at a closed day sees
  what it saw. There is a lemma for each reader (`AgreeSwings`, `AgreeBreaks`,
  `AgreeZones`, `AgreeRange`, `AgreeGaps`, `AgreePools`, `AgreeAtr`,
  `AgreeWeekly`, whose newest week may be half over) and a context is made of
  them (`AgreeContext`).
- `SettledForGood`: ReplayIsFinal. A limit fills on the first day it is reached and
  the bracket resolves on the first that touches a level; days to come are
  neither, and a limit not filled in its time is not filled by them (`ResolveAgrees`).
- `OnlyUntakenLiquidity`: PoolsAreUntaken. `Pooled` is the invariant of the sweep:
  after each bar no pool alive has been passed since its newest swing, its swings
  lie within the tolerance, and a swing nobody passed is in exactly one pool
  (`AfterBarKeeps`). The sweep is a recursive function, so that it is what its
  recursion says is itself proved: a bar without a value would have a first one
  (`SweepExists`), and so would a bar at which `Pooled` fails (`SweepPooled`).
- `EveryTradeIsOrdered`, `InsideTradesAimAhead`: TradeIsOrdered and
  InternalTargetAhead, from what the gates let through (`ZoneGates`). Every rung
  of a ladder is past the entry, and past the range's boundary there is at most
  one, a pool (`ExitRungs`). A thesis that is let through buys below the middle
  of the range or sells above it (`ThesisAllowed`), so one side is offered
  (`OneSide`) and the boundary it aims at is still ahead of price
  (`BoundIsAhead`).
- `QueueAndReviewAgree`: NoCrossAdvice. The review's advice needs the weekly trend
  (`AdviceNeedsTrend`) and a thesis against that trend is refused, so the two cannot
  face opposite ways.
- `LevelsSideWithReview`: LevelsAgreeWithReview. An approach of five eighths, which
  is what `locate` asks of a zone, means that price is in the block
  (`ReachedIsInside`), so the same zone is printed, as inside and on the same side.

Four of these modules are written so that they can be proved about. A queue's
rows are functions on places of the build and a work list is a set with a least
member, as queue.py's own indices are, since the provers do not unfold
`SelectSeq` or a sort; a sum is `SumFunction`; an entry set in a mapping is `Put`;
the pools of a chart and the rungs of a ladder are sets, and its sweep is a recursive
function of the bar.

Only model-checked. Liveness (`EveryFinishedTradeIsBooked`, `LaptopCatchesUp`,
`EveryCaptureIsRead`, `EveryCandidateIsReviewed`, `RecentRowsAreKept`): no prover
here handles fairness. And the assumptions of the MC modules, which compare
operators, many of them recursive, with their definitions on small inputs: what such
an operator computes for every input is an induction over data. Every other property
of a passing run has a theorem.

## Not modelled

- The price cache and its freshness check (`oracle.setups_sync`, `core.cache`):
  one age asked once. What a sitting reads is `bars` of Chart, at one moment.
- `dashboard` and `llm`: a local view, whose Refresh button is the `overlap`
  fault of MirrorSync, and a wrapper around one API.
- `resample.to_h12`: the calendar of half days.
- P&L, fees, funding and R: arithmetic on rows already attributed.
- Request bodies, number formats, listings and page layout.
- The nightly's gates, stamps and notifications. `data-pull --force` is an
  operator's explicit repair, which gives up local rows by intent.
- The triage of theses into the knowledge base, a one-off copy by hand.
- A real position whose placement the log never learnt of is in OrderLifecycle
  (`lost`, `killed`), not in RiskBook.

## Plan

The order in which the project was built: OrderLog; OrderLifecycle and
TradeLedger; MirrorSync; RiskBook; their proofs; Structure, PriceLevels, Setups,
Candidates, Verdicts, Chart; Feeds, Passages, Corpus; Queue, VenueRouting,
Sitting; Accounts, Books, History; Worth, Signals, Yields, Cards; Overnight,
Digest; then the proofs: OrderLifecycleProofs, FilesProofs, RiskBookProofs,
SittingProofs, CorpusProofs, DigestProofs, ChartProofs, over DataProofs. All of
it is done. What would add most next: the nightly as one specification (a failed
step, its stamp, the day it is retried) composed of Corpus, History and Digest;
a sitting composed with OrderLifecycle, so that an approval's row is the order's
first.
