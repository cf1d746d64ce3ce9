# Arbys: the trading core, specified

Arbys watches sports markets on two prediction-market venues, Kalshi and
Polymarket US, and buys both sides of a game on paper when together they cost
less than the dollar one of them must pay. This directory holds TLA+ modules of
that program (`src/arbys/`), the TLC runs that check them and the theorems
TLAPS has proved about them.

Everything runs on one asyncio event loop: a function without an `await` is
atomic, and every `await` (database writes, mostly) lets any other task in.
The models take steps exactly from one await to the next.

## The system

| part | state | operations | what is hard |
|---|---|---|---|
| paper brokers (`shared/paper_broker.py`, `fees.py`), one per venue | per account: cash, quantity, average price, open fees, realized profit | preview, fill, snapshot and restore, settle, close a ghost, hydrate, reset | fees carried from fill to settlement; rollback; writes awaited after memory changed |
| execution router (`shared/execution_router.py`) | none | submit: preview all legs, fill all or undo | all legs or none |
| cash sweep (`shared/cash.py`, `ingest/cash_sweep_service.py`) | counters | level an account's venues every minute | runs between other tasks' awaits |
| detectors (`shared/arb_engine.py`, `qty.py`) | none | the best pair of a group, its size and profit | the engine and `/monitored` choose a pair separately |
| engine (`ingest/engine_runtime.py`, `shared/quotebook.py`) | quotes with ages, registered groups | upsert, evaluate, register | stale, replayed and one-sided quotes |
| live opportunities (`backend/state.py`) | the offers of each group, a bounded queue per subscriber | replace a group's offers, publish what is new, subscribe | an offer outlives its quotes; a full queue drops |
| ticket service (`backend/ticket_service.py`) | ticket rows | submit a ticket, record refusals | checks before an await, effects after it; dropped writes |
| auto-trader (`ingest/auto_trade_service.py`) | cooldown and non-fill windows, a queue | handle, stop | serial consumer against concurrent clicks; cancelled mid-ticket |
| application state (`backend/state.py`) | draining, in-flight count, opportunity sets, subscriptions | bootstrap, shutdown, reset, sync_ingest | drain order; interleaved resets and rebuilds |
| auto-settler (`ingest/auto_settle_service.py`) | settled, seen and pinned groups | tick | reads results from prices; its memory dies with the process |
| venue settler (`ingest/venue_settle_service.py`, `adapters/settlement.py`) | a pass | settle held legs, record unrecorded ones | races the auto-settler; restarts; dropped records |
| persistence (`shared/persistence.py`, `db/`) | the database | `run_write`: retry, then drop and count | late, reordered and lost absolute writes |
| discovery (`discovery/`) | the registry of groups | pass: upsert, retire | database first, memory second |
| Polymarket US feed (`adapters/polymarket_us_ws.py`, `polymarket_us.py`) | sockets, repair budgets | subscribe, repair, escalate, poll | bounded retries that must not starve |
| Kalshi feed (`adapters/kalshi_ws.py`, `kalshi.py`) | a ladder per side of a market | snapshot, delta, derive both asks, poll | a ladder must survive drops and rebuilds |
| reports (`db/repositories.py`, `backend/performance.py`) | none that lasts: what a page has read so far | counts, figures, the paged log | one figure computed in SQL and in Python; a page's statements are awaited one by one, without a snapshot |
| HTTP surface (`backend/app.py`) | none of its own | read, and the clicks; `POST /quotes`, the reset | handlers that write memory and database in two steps |
| frontend | none of its own | | |

A quote goes feed → worker → quote book → engine → opportunity set → auto-trader
queue (or an operator's click) → ticket service → router → brokers → sink →
database; settlement goes back from the book, or the venue's own answer, to the
brokers.

## The modules

### PaperBroker
The brokers of all venues, the router and the sweep, for one event group.
`cash`, `qty`, `openFees` and `realized` are `_AccountState`'s tables; `basis`
is quantity times average price, the only form in which the code uses the
average. Money is whole units, `Unit` to the dollar, so prices multiply without
rounding where the instance is chosen so; the 28-digit `Decimal` rounding of the
code is not modelled, and a fee rounds down.

`Submit` is the preview loop and the snapshot, `ApplyFill` one leg, `RollBack`
the refusal that restores the copies: legs are separate steps, so that the
properties see the account half filled, and `LoopFree` keeps every other task
out meanwhile, as the absence of awaits does. The preview is taken with the
funds check of each leg alone, which is what the router does. `SettleOutcome`
is `settle_outcome_async` up to its await; `Sweep` is plan and transfer.
Tickets are all pairs of legs with a positive edge after fees, the guarantee of
both detectors; which one a detector would pick, and at what size, is left
open, so what holds here holds for any choice of theirs. Selling
(`_release`) has no caller and is left out. Resets and hydration are Ledger's.
After the first leg of a group settles no ticket is submitted here (TicketFlow
looks at that race).

### AtomicTicket
What the router promises, with no commit, limit, snapshot or rollback in it:
`FillTicket` buys both legs at once, one of each side, for less than the pair
will pay; `SettleOutcome` and `Sweep` are all that else may touch an account.
PaperBroker implements it with the refinement mapping `CommittedCash`,
`CommittedQty` (`RefinesAtomicTicket`): while the loop is busy the buyer's
account is what the snapshot holds, so the first leg, a refusal and the rollback
are stutters, and the second leg is the whole ticket. A rollback that forgot one
table, or a leg filled above its limit, would have no step of AtomicTicket to
map to.

### Market and Detector
Market is the event group and the exact cost of a contract with its fee.
Detector is `arb_engine.py` and `qty.py` as operators on the quotes of a group:
`Detected` is `detect_cross_venue_two_leg` (executable pairs, the most
profitable, the first on a tie), `Complementary` is `detect_complementary_set`
for the two legs of one venue, `Offers` what `evaluate_now` publishes, and
`TradeableQty` the sizing with its three kinds of depth (a number, an empty
book, not reported). `Displayed`, `HasArb` and `UncappedQty` are the row of
`/monitored`, which `list_monitored` and `_rank_pairs` compute again in their
own way. `RowNamesOffer` says that the two agree; `DeskProofs` proves it.

### QuoteFeed
From a venue's book to a live opportunity. `resting` is what the venue has, and
`frames` what is on the wire; `Connect`, `Disconnect`, `RestartFeed`,
`ReadFrame` are the Kalshi socket, whose `ladder` (`_MarketBook`) outlives the
connection and not the adapter; `PumpQuote` is `IngestWorker._pump`, a quote at a
time, so that the two outcomes of a frame are evaluated one after the other.
`PollKalshi` and `QuoteArrives` are the pollers and the Polymarket US quotes,
with `PmQuote` the derivation of both sides from one book and `Upserted` the
quote book's back-dating and its refusal of older quotes. `PushQuote`,
`PushRecorded` and `PushFails` are `POST /quotes`, which updates the book before
its writes and tells the engine after them. It takes a quote of any outcome, of
Kalshi's too: `byHand` has the Kalshi sides whose quote in the book was pushed
since the feed last quoted them, and `LadderMirrorsVenue` speaks of the ladder
for both sides but of the quote only for the others. A level holds lots, the
contracts bid there in coarse units; a delta adds to them and a level with none
left is gone, so that a delta applied twice or to an old ladder shows.
`Evaluate` is `_evaluate` with `_set_group_opportunities`; `Subscribe` to
`Deliver` is `/ws/opportunities` and its bounded queue.

The group is registered from the start. `register_group` evaluates nothing, so
the offers of a group registered when its legs are quoted already wait for the
next quote of one of them, and until then the live set has not what the
detector would find: `OffersMatchDetector` says nothing of that time.

### Ledger
The account in memory and its rows. A task changes memory in one step
(`Fill`, `Sweep`, `SettleGame` and `SettleNext`, `Reset`, `SeedVenue`) and then
awaits its transactions in the order `emit_order_events`, `submit_arb_ticket`,
`on_settled` and `reset_paper_account` begin them. A transaction carries the values read when it
began; it `Lands`, is `GivenUp` (`run_write`), or is `Refused` by a foreign key
that finds no row. `stale` is the account object that a leg's writes go on
holding after a reset made another, `EmitRaises` the `KeyError` of one not seeded
yet; `funded` are the venues whose broker has a balance entry, which seeding
makes and also any fill, paying settlement or transfer. `captured` and `suspect` are bookkeeping: they tell a row whose last
reading of memory has landed from one where it was dropped, or overtaken by an
older one.

A leg's settlement is one row. The code appends one for each settlement, and
`ticket_outcomes` and `list_paper_settlements` may then pick different ones of a
leg settled twice; here the result is the constant `Winner`, so that all rows of
a leg would say the same, and keeping one of them loses nothing.

### Reports
The queries on Ledger's rows: the ticket log's filters and its cursor, the
count on the account strip, the figures of `/performance` with its curve, venues
and leagues. `paper_performance` awaits its statements one by one in a session
without snapshot isolation, and so does the model: `ReadScalars`, then the
tickets, orders, fills and settlements of `list_paper_tickets` (`ReadTickets` to
`ReadSettlements`, with its early returns), then `ReadExcluded`, and `Answer`
sends the response, made of what was read without another await. Between any
two of them `AccountNext` lets the ledger move:
a ticket, a settlement, a reset, a write that lands late. `scalars`, `seen` and
`withheld` are what the statements returned.

So the figures of one page may be of different moments, and `ReportsAgree` says
what that may do to them. `Came` are the tickets that landed after the scalars
were read and are hydrated all the same, `Gone` those the scalars had as traded
and the second statement did not find so: still pending and then refused, or
erased by a reset. The slices of the mix add up to the attempts but for these;
a ticket whose outcome the scalars had keeps it or is erased, so no ticket is in
two slices; the leagues' nets add up to the header's unless a settled ticket
came; what is computed of the second reading alone (venues, curve, header)
agrees with itself whatever its tables saw. An open leg may be counted as open
at its venue while its ticket's other leg is settled, but with no open ticket the
venues' nets are the header's. `AuditExplainsCash` compares a page with the
account when its rows are `Current`. The log's pages are taken from two
moments, too.

A query's `SUM`, and a list's, is `Total` of the function that the rows are. The
curve's points are rounded to the cent as `quantize` does, half to even, and
tickets of one second follow each other as the stable sort over newest-first
rows leaves them.

### Desk
QuoteFeed and Reports (over Ledger) for one event group. The two share no
variable, since a ticket's pricing from the book is PaperBroker's, so `running`
picks the half that moves instead of multiplying their states.

### TicketFlow
A submission's way through `submit_arb_ticket`, one step per await: refusals
with and without an audit row, the pending row, the router (one atomic
fill-or-refuse, which is what PaperBroker shows of it), the order events, the
final status, the rejected legs. `Handle` is the auto-trader's consumer,
`Click` the endpoint. `held` is the cost of the group's positions, which
`cap_breach` sums; `stage` the game and its settlement. `ShutdownBegins`,
`TraderStops`/`TraderCancelled`, `DrainEnds`/`DrainTimesOut` are
`AppState.shutdown`. Any write may land or be dropped, and one that needs the
ticket's row cannot land without it.

`WipeAccount`, `HistoryDeleted` and `AccountSeeded` are `reset_paper_account`
from one await to the next: the brokers forget the account, the deletion takes
every row, and the seeding ends the memory of what was settled, traded or missed.
A deletion that raises leaves the account wiped, which is a reset that stays
there. A ticket filled before and emitted during it meets the `KeyError` of a
balance that is not there (`EmitRaises`): `submit_arb_ticket` catches
`InsufficientLegsError` only, so the ticket ends without a status and
without a cooldown, and the `finally` still counts it out. A wiped account buys
nothing.

What the detector finds at submission is
chosen freely; the order events of all legs are one await; cooldowns and
windows end at any time; a disabled trader is one that takes no step. The
trader's ticket ids are drawn in a fixed order, since they are
interchangeable.

### Settlement
Both settlers, a ticket and a database that survives restarts, for a pair with
a leg on each venue. Each task has at most one write in flight; writes of
different tasks land in any order or not at all. `db` is what a restart
hydrates. A contract pays 1 or 0 here (a walkover's fraction or a void pays
neither way, and is not modelled), costs are left to PaperBroker, and `cash`
counts payouts only. `Readings` is what a book may say: anything before
kickoff, and afterwards, where `Books` is `{TRUE}`, nothing or the winner. A
venue pass is taken leg by leg: a leg visited is one the pass would come to,
and what it reads again after an await is read again. Tickets stop once the
result is published, since a finished market quotes nothing.

### ShardRepair
One connection of the Polymarket US feed. `silent` is the time since
`_last_ws_at`, `attempts` the connection's own dictionary, `escalations` and
`sinceReconnect` what the adapter keeps across connections, `inPlay` what
`in_play_slugs` and `confirmed_in_play_slugs` answer; clocks count ticks since
the moment the code stores. A frame is one of four kinds: it may carry live
quotes, replayed quotes, a book without a usable price, or nothing for this
shard. `TimeOut` is the timeout of `recv()`, `NextTurn` the check whether the
sweep is due, and `NothingDark`, `Repair` and `Escalate` are the outcomes of a
sweep; games may change between a frame and its sweep. An unreadable frame goes
back to `recv()` without that check, and so puts the sweep off: the model bounds
such frames between two sweeps and the properties count them. `Disconnect` is
any other end of the connection (a `send` that fails in a sweep included),
`Rebuild` a new adapter. Handling a frame takes no time: a full quote queue,
which the shards share, is not modelled. Slugs are split over shards and no slug
is on two, so that one shard stands for all.

### Registry
The groups and what is subscribed for them. `mem` is `AppState.event_groups`
with the engine's registrations, which always change together, each group with
its `source`; `db` is the table; `offered` are the keys of `_opps_by_group`.
`Request` to `Adds` or `Deletes` is the POST and the DELETE of `/event-groups`,
`PassBegins` to `PassEnds` one `run_once` with `_retire_missing`: the write
first (`AddLands`, `RemoveLands`, or `WriteLost`), memory when it has landed.
What a pass finds, whether it is complete and which known groups it finds
changed are free; its upserts are one batch, where the code cuts them in
batches of `GROUP_WRITE_BATCH` (5). `NoSync` to `Rebuild` is `sync_ingest` with `restart_ingest`, one step
per await: the worker's `stop`, the adapters' `close`, then the rest at once. A
worker is a generation, `alive` the generations whose pumps run, and a group
stands for the markets only it needs. `LoopFree` keeps others out between the
stages of a task that has not come to its next await. A pump that crashes by
itself is not modelled.

## The runs

| run | instance | shows |
|---|---|---|
| `broker` | 1 account, 2 venues, 4 outcomes, 2 asks, 3 tickets | cash is covered, conserved and reported exactly; no naked leg; previewed tickets fill; a completed game gains; the brokers implement AtomicTicket |
| `broker_leak` | the same with sizes 1 and 2 and 2 tickets | **violated**: a rollback leaves the first leg's fee behind |
| `tickets` | 1 click, 2 trader runs, cap under two stakes, resets, 1 ticket that loses writes | counter, cap of the serial trader, honest audit rows, clean drain, one fill per cooldown, one miss per window, every ticket and every shutdown ends |
| `tickets_cap` | 2 clicks | **violated**: both pass the cap before either fills |
| `tickets_settled` | as `tickets` | **violated**: a ticket fills after its group was marked settled |
| `settlement` | 1 leg, 1 ticket, 1 restart, a pin of 2 ticks | positions close and records appear, for ever |
| `settlement_pair` | 2 legs, 1 ticket, 1 restart | every contract is paid once in one life of the process; across a restart the venue settler pays again only a payout stored without its record; records agree with the result |
| `shards` | 2 markets, 2 repairs, 2 reconnects, 1 unreadable frame per sweep | at most 2 connections lost per market between its live frames; a silent market is asked for in time; a dead feed is dropped when repairs, budget and cooldown allow |
| `shards_stuck` | 1 market, always in play | **violated**: repairs run out during the cooldown, and nothing escalates again |
| `registry` | 2 groups, 1 request, any passes, 1 restart | memory and database agree about what nobody is writing; retired groups offer nothing; at rest all groups are streamed; no stray worker unless rebuilds overlap; a registered group comes to be streamed |
| `desk` | 1 Kalshi and 1 Polymarket US market; 2 tickets, sweep, settlement, reset, 2 drops; 1 step of the account inside a page | the ladder is the venue's book after any drops, lot for lot; the live set is what the detector finds; a subscriber hears every opportunity its queue has room for; rows and memory agree where nothing was dropped or overtaken; a page agrees with itself, but for what landed or was erased while it was read, and with the account |
| `settlement_whole` | 2 legs | **violated**: a balance write stores a payout ahead of its position and record |

Bounds. In `tickets` one ticket loses writes (`MaxDropped`; all of them if it so
happens; one whose row a reset erased counts): what a lost write does to a
ticket's row concerns that ticket alone. A
reset begins while the trader has two runs to come (`RunsAhead`), so that one may
be in it and one after it; resets follow one another without limit. The theorems
need neither bound.

Two tickets are the least with which a second meets what a first left
behind (cash spent, fees leaked, a cap used). Starting cash covers one leg twice
but not both legs of an expensive pair, so refusals for want of funds happen in
`broker`; refusals for want of size need two sizes, and those `broker_leak` has.
Asks are such that a YES and a NO together pay, or do not. One click and two
runs give the serial trader a second ticket and a rival. One restart separates
what memory forgets from what the database keeps. `CONSECUTIVE_HITS` is 2
instead of 3: the least that has a streak.

In `shards` a tick is a sweep interval; the six seconds of a game in play are
less than one, the ordinary deadline is longer, and the cooldown outlasts the
repairs, as 120 s outlast 5 times 15 s. Two markets let one market's sweep
escalate for another. In `registry` one request against discovery's passes gives
every pair of tasks: two writers of a group, a rebuild inside another's. Two
tasks never hold more than three worker generations; the instance has four. A
request ends once, but passes go on, also after the restart.

In `desk` one Kalshi ladder, that of NO, has one price, from which YES is quoted,
so that a delta can be missed, doubled or applied to an old ladder; it holds up
to two lots there, the least at which a delta that adds differs from one that
sets. The other ladder is empty. Of the two Polymarket US books one has nothing
asked and bids of unknown size, beside which a YES and a NO make an arbitrage or
do not, and one is crossed. A quote is pushed of a Kalshi leg and of the other
venue's. Two frames and a queue of one are the least that fill. A quote is
withheld after one tick, and one with an older source time is refused.
Two tickets of the same second make the log's cursor decide by id. Seeds cover
the first ticket and not always the second; `MaxEvents` counts tickets, dropped
writes and resets together and is 2: a reset under a ticket, a drop inside one,
two tickets out of order. Two tasks have writes in flight at once. The account
takes one step inside a page (`MaxMeanwhile`), between any two of its
statements: a ticket's row lands, changes status or is erased between its two
readings. That a ticket is refused or comes and settles within one page takes
more steps; the theorem has them.
`Excluded` is empty there, so that part of `CountsReconcile` says little.

`broker` may stop (every bound spent) only in states where quotes still change,
so deadlock is checked there, and in the two runs of `ShardRepair`; the others
turn the check off because a shut-down process, a settled game, a ledger whose
events are spent, or an operator without further requests really is the end.

Fairness. `TicketFlow!FairSpec`: while tickets are at their awaits, one of them comes to
its next (`run_write` always returns); a stop and a drain whose condition holds
go on. Neither timeout is
assumed to fire. `Settlement!FairSpec`: a venue pass that began goes on and its
write ends; passes come round (a timer) for each leg; a lookup, and a write,
that is retried every pass succeeds some time. Nothing is assumed of the
auto-settler, the ticket or the other tasks. A lookup that raises ends a whole
pass in the code; assuming answers per leg hides that, and it is listed as a
hazard without a property.

`ShardRepair!FairSpec`: time passes, a `recv()` that timed out wakes, a sweep
that is due runs. The venue owes nothing: no frame, and no new connection.

`Registry!FairSpec`: a task that is at work comes to its next await. Fairness is
strong because the event loop runs what is ready in the order it became so: a
close that has ended cannot be passed over by a discovery task for ever, though
between that task's awaits nothing else is enabled. No request and no pass is
owed.

`desk` assumes no fairness and states no liveness: the venue owes no frame, and
a dropped write is not tried again.

Every property of a passing run has a mutant of the code's definition that
breaks it (`PROJECT.json`).

## What disagrees with the documentation

- Fees are to be carried "on the *currently open* quantity", and a rolled back
  ticket to leave "no trace"; `snapshot_account` copies no open fees. Only
  same-venue tickets can be refused half way, so the default
  `ARBYS_CROSS_VENUE_ONLY` hides it.
- The cap is "cumulative" and `submit_arb_ticket` its "authoritative enforcement
  point"; it is read before an await and used after.
- "A settled group must never be traded again": judged before an await, too.
- A settlement's writes are one transaction, "all of it lands or none of it
  does"; but the payout is in the memory balance first, and any other balance
  write stores it from there.
- `_repair_subscriptions` "raises `DarkMarkets` when repairing in place has
  failed" for a game under way. With the shipped constants this can happen only
  once to a market on its own: the next connection's repairs are spent within
  the cooldown, and a market without repairs is no longer dark. The second of
  its `MAX_ESCALATIONS_PER_SLUG` reconnects then waits for another market of the
  shard to go dark, or for the connection to fail by itself.

Beside these, behaviour that the properties exclude by name:

- Two `restart_ingest` calls that overlap (a POST during a discovery pass) may
  leave a worker running that nothing refers to: `_stop_ingest` clears whatever
  worker is listed after awaiting the one it saw, and `_start_ingest` replaces
  the listed one without a look. The stray's adapters may not be closed either,
  and the Kalshi adapter's `close` does nothing: it keeps streaming. `OneFeed` is
  stated for rebuilds that do not overlap.
- "DB and the in-memory state cannot diverge" (paper_broker.py): a write that is
  given up, or lands after a later one of the same row, leaves the older value.
  `StoreMatchesMemory` leaves out exactly these rows.
- A quote that ages out evaluates nothing, so its opportunity stays in the live
  set until the group is evaluated again; and a `POST /quotes` whose writes raise
  leaves the engine untold. `OffersMatchDetector` is stated for fresh legs and a
  told engine. Tickets are safe from both: they are detected again.
- The ledger's `outcome=open` filter means filled tickets only, while the
  dashboard counts a pending one as open; and `count_open_paper_tickets` counts
  excluded tickets, which every other figure withholds. `OutcomesAgree` compares
  filled tickets.
- A contract bought of a leg that was settled before (`tickets_settled`) makes
  the audit trail credit it a payout that its venue never got.
  `AuditExplainsCash` leaves it out.

## The proofs

`PaperBrokerProofs` proves, for every value of the constants that satisfies the
assumptions in PaperBroker (prices within a dollar, cents whole, sizes and fees
not negative): `TypeOK`, `NoOverdraft`, `RealizedMatchesCash`,
`RealizedNeverOverstated` and `CommitNeverRefused`. None is inductive alone: a
rollback restores whatever the snapshot holds, and a leg is only known to fill
because of what was checked before the commit began. The invariant `IInv` is
their conjunction with `SnapshotSound` (restoring the snapshot would satisfy
the ledger invariants; the fees a rolled back leg leaves behind only widen the
inequality) and `CommitFits` (across venues every leg still to fill previews
clean, is affordable, and shares no venue's cash with another). The lemmas
about `Fee`, `ApplySlippage` and fills bound the arithmetic (no price leaves
its range, no cost is negative); then there is one lemma per action, and
`InvariantStep` joins them.

Its second half proves `RefinesAtomicTicket`, the whole refinement, for any
accounts, venues, prices and sizes. Beside `IInv` it needs
`CommitUnderWay` (nothing is settled during a commit, which has either filled no
leg, the account being what the snapshot holds, or exactly one, within its
limit), and `CheaperFill`: with a fee coefficient of at most a hundred percent a
contract bought below its limit costs no more with its fee than at the limit, so
that the edge the detector computed survives. That is why PaperBroker assumes
`FeeRate` to be at most 100.

Three properties there are sums over all venues or outcomes: `MoneyConserved`,
`NoNakedLeg` and `LockedProfit`, for any finite sets of them. Sums is the library
they rest on: what `SumFunctionOnSet` is on the empty set, on a set without one
of its members, on two disjoint sets, on two functions added, on a function
changed in one place; and that a sum may be taken group by group, or over the
pairs of a first and a second index (`SumGrouped`, `SumPairs`, `CountGrouped`). A
fold is defined by choosing members in no particular order, so each lemma is an
induction over finite sets. The library's induction theorem takes the predicate
as an operator, which the provers cannot instantiate; `FiniteInduction` takes the
set of the subsets for which it holds instead. `MoneyConserved` is then
one lemma per step that moves money. `NoNakedLeg` needs `PairInv`: outside a
commit as many YES as NO, inside one the same of the snapshot, with
`CommitUnderWay` for the second leg. `LockedProfit` needs `GainInv`: whatever
the result will be, an account that traded has gained as if what it holds were
paid already, and a settled outcome is held by nobody.

`TicketFlowProofs` proves all seven safety properties of the `tickets` run for
any finite sets of tickets, any positive stakes and any cap: `TypeOK`,
`InflightExact`, `AuditTruthful`, `CleanDrain`, `SerialTraderKeepsCap`,
`OneFillPerCooldown`, `OneMissPerWindow`. A lemma sorts the steps by what they
do to a ticket (turned away, silenced, admitted, one of six awaits or the raise
at one of them, cancelled, erased by a reset, none). `IInv` adds what the properties leave unsaid: `Progress`, what the rows
of a ticket say at each of its awaits; `Counting`, at which awaits it counts as
in flight; `Serial`, that the consumer is inside at most one submission, begun
outside a cooldown, and that a miss on record without a quiet window is one that
submission is still writing; `CapFits`, that a ticket yet to fill still fits; `Drained`, that a
drain which was waited for left nothing behind. The counter needs the
cardinality lemmas of the library and the finiteness of the ticket sets, its
only use.

`ShardRepairProofs` proves `TypeOK`, `ReconnectsBounded` and `FirstAskInTime`
for any markets, deadlines (the one in play not the longer), sweep interval,
cooldown and budgets. `IInv` adds `CostCharged` (what a market cost since it
last streamed is at most what is charged to it, which no replay lowers);
`RecvBegunInTime` and `SweepRunsInTime` (a `recv()` begins before the sweep is
due, one interval more for each unreadable frame, and lasts one at most);
`HeardBeforeSweep` (what the last sweep did not ask for had been heard within
its deadline), of which the bound is the sum; and `DownAfresh`.

`RegistryProofs` proves the five safety properties of the `registry` run for any
groups, any number of requests at a time, generations and restarts. Three
inductive invariants, each on top of `TypeOK`: `WriteInv` (a task names the
groups it writes; outside `raced` a group has one writer; and where the database
is while it writes) for `MemoryMatchesDb`; `FeedInv` (what is not streamed is
somebody's to see to: a task is syncing or rebuilding, or the pass remembers
that it changed something) for `CoveredAtRest`, which needs nothing about
overlaps; `SoleInv` (without overlaps one task rebuilds, and the worker it stops
is the listed one) for `OneFeed`. `OfferedKnown` is inductive as it stands.

`LedgerProofs` proves `StoreMatchesMemory`, for any tickets, prices, venues, sizes
of the bounds and interleaving of tickets, transfers, settlements, resets and lost
transactions. `LedgerKinds` is the type invariant, with what each kind of task
writes and has left to do. `LedgerInv` adds `WrittenBack`: a row is as memory has
it, or the last task to read memory for it has that transaction under way, or a
ticket is still going to read it (`Due`), or its last reading was dropped or
overtaken; `CarriesMemory`: the transaction so named holds what memory holds,
unless another reading is due; and `ReadOnce`: a ticket reads each row once and
its plan repeats no step. `EmitRaises`, which throws a plan away, loses nothing:
`Due` asks for both balances to exist, and it happens only when one does not.
Each action has a lemma for the kinds and one for the rest; `BegunKeeps` is what
all steps that begin a transaction share. `NamesAssumption` keeps the
names of tickets, of the other tasks and the absent row apart, and every value
from the lack of one; `Venues` must be finite for a reset's plan to be a sequence.

Its next part is about pages. `PagesReconcile` proves `CountsReconcile` of every
page that is answered, `ReportsAreTrue` the rest, with no bound on what the
account does meanwhile. Most of it asks nothing of how the rows came about: that
two figures agree which are computed from one set of read rows holds for any such
set (`PageTypeOK` and `LedgerKinds`: a fill holds a price and a fee, a settlement
a payout, a ticket a status), and so for one put together from several moments.
`OpenJoin` ties the SQL's outer joins to the score; `Figures` gives a score as
what came back less what it cost; `CapitalByLeg` and `ScoreByLeg` turn the sums
over tickets into sums over legs, which `VenuesAddUp` takes by venue;
`NewestExists` finds the last row of a page and the last point of the curve, for
submission times that coincide. What spans two readings needs the ledger:
`StatusInv` says that once a ticket's row has an outcome no transaction still
under way, of whatever task, and no step the ticket has left, has another in it
(`LastWord`, `Spares`), so that only a reset's deletion takes it away; `PageInv` is what that makes of a page:
what the scalars had of such a ticket is what the second reading found, or the
row was erased. `StatusAssumption` keeps an absent ticket from having a status;
that the absent row is no number and no outcome belongs to `NamesAssumption`.

The audit takes more. `AuditExplainsCash` speaks of the moment when nothing is
under way, and is not inductive: a fill changes the cash at once and its rows
follow over nine transactions. `AuditInv` says what the rows will tell when what
is under way has landed. A fill or an order comes (`FillComes`, `OrderComes`)
when its row is there, is in a transaction, or is a step of a plan, a settlement
(`SettlementComes`) when its row is there or in a transaction; the `Buyers`
are the tickets of which both legs come, and `TicketTells` says that a ticket
buys both legs or none, and none before it is submitted. Then `LegTells`: what a
leg realized is the payout of the contracts no longer held less what they cost
(what was `Spent`, but for what is still held), and until its settlement comes
every buyer's contract is held; `CashTells`: a venue's cash is the seed, its
transfers (`Moved`: landed or under way) and what its leg realized, less what
the contracts held cost. While a reset is under way the account is nobody's
(`ResetTells`): the tables are emptied or about to be, and every venue is seeded
or has its seeding ahead. All of it only while `clean`: a transaction given up
or a task beside a reset breaks it, as it breaks the code's trail. Each action
has a lemma; `LandedLegs`, `LegOver` and `VenueFills` read off what `AuditInv`
leaves when nothing is under way, and `NothingLeft`, the lemma of
`StoreMatchesMemory`, turns memory's cash into the balance row. `LegNet`
regroups the scores of a page's tickets by leg, when the page has read the rows
as they stand. A leg that was settled and bought again is kept out by the
property itself. With it `ReportsAreTrue` proves `ReportsAgree` as a whole, for
any tickets, prices, fees, pairs of venues, seeds and winners.

`DeskProofs` proves `RowNamesOffer` for any group of quotes, fees, budgets
and size floors: the pair that the engine publishes is the one pair that the
`/monitored` row names, the row is sorted among the arbitrages, and its uncapped
size is no smaller. The lemmas: the guaranteed profit is the net edge times the
quantity, so the detector's last guard never refuses and both rank by the same
number (`ProfitIsEdgeTimesSize`, `FillableIsExecutable`); the ranking has one
maximum; and an edge after fees is an edge before them. TLC runs no instance of
the statement, which speaks of every size; `desk` compares the published set with
the detector.

It goes on to the feed, for any ladders, books, limits and ages. `FeedKinds` is
the type invariant. `LadderMirrorsVenue` follows from `MirrorInv`: what the ladder
will hold at a level once it has read the frames on the wire, deltas added up
from the last snapshot on, is what rests there at the venue; then, each side
that the pump has no more in hand and nobody pushed a quote of since is quoted
from the ladder. `OffersMatchDetector` is kept by every step
because withholding quotes that no opportunity uses changes none
(`OffersStand`: a pair that is gone was beaten by one that stands, and of
finitely many pairs one ranks first, `BestExists`).
`OffersHeard` needs what one evaluation puts on the queue. `LegsAssumption` says
that both outcomes of the Kalshi market are legs of the group. `DeskTypeOK`, `StoreMatchesMemory` and `ReportsAgree` are then proved of the
composition: a step of the desk is a step of one half and a stutter of the other.

`SettlementProofs` proves the four safety properties of the settlement runs for
any legs, pin length, tickets and restarts. Three invariants on top of `TypeOK`:
`Truthful` (with honest books a settlement in hand names the result, and so does
what is being recorded) for `RecordsMatchResult`; `Accounted` (a recorded leg was
paid; in one life a paid leg holds nothing but what was bought afterwards) for
`EveryContractPaidOnce`; and `Explained` for `VenuePaysAgainOnlyUnrecorded`. The
last needs `Backed` (no quantity in memory, in the database or on its way there
exceeds what was bought) and `Recorded`: of a leg whose payout never got ahead
of its record, no cash is stored without the record, and either what it paid and
holds was bought, or the record stands and the venue is not being asked. Without
the second half a restart would break it; without the first a venue's late answer.

Model-checked only: liveness, with the fairness and `ENABLED` it rests on. Every
invariant that a passing run checks is a theorem.

## Not modelled

- Parsing and matching of market names (`discovery/matcher.py`, `teams.py`, the
  per-sport modules): tables and string functions without state. Registry lets a
  pass find anything.
- Of the detector, complementary sets of more than two legs.
- Of the brokers, selling and the synchronous `settle_outcome`, which nothing
  calls on the paper path; voided markets and fractional payouts; the rounding of
  28-digit decimals; a plan of transfers between more than two venues.
- Of the feeds, the queue that the shards of the Polymarket US socket share, a
  pump whose adapter raises, the Polymarket US book itself, reconnect delays,
  credentials.
- Of persistence, the retries inside `run_write` (a late landing or a drop), the
  singleton lock, the market catalogue's rows, migrations. `PositionsClose` is per leg: a
  lookup that raises ends the pass for the legs after it, which is listed as a
  hazard without a property.
- Of the account in Ledger: a second account, deposits, the operator's choice of
  the result (`Winner` is a constant there; Settlement leaves it open).
- Of the reports, equity, P&L snapshots, the edge and slippage statistics, the
  settled line of the curve.
- The DraftKings adapter (a stub), observability, backtest, scripts, the
  frontend, health and access control.
