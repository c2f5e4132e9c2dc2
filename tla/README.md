# Verification of the trader

TLA+ models of the program's trading core, of the investigations that feed it
and of the components around both, TLC runs that check them on small instances,
and TLAPS proofs of the properties that matter most for every instance. Line numbers refer to files
under `src/`; `PROJECT.json` gives the lines each definition stands for.

    tlc -workers 2 -config ExitCore.cfg MCLiveExit.tla      a run
    tlapm LiveExitProofs.tla                                a proof

## 1. The system

Two processes share the SQLite database `data/trader.db`.

The **trader** (`trader/main.py`) turns news into explorations, explorations
into signals, signals into positions on Alpaca accounts, and positions into
training data. Its threads:

| thread | code | shared state it writes |
|---|---|---|
| explorer workers (`MAX_PARALLEL_EXPLORES`, 1 by default) | `online/orchestrator.py` `_worker_loop` | snapshots, symbols in flight, watches, orders |
| backfill, once at the start | `main.py:255` | the same |
| manual explorations, one thread each | `web/app.py:3224` | the same |
| live exit monitor | `online/live_monitor.py` `live_monitoring_loop` | watches, orders |
| Alpaca trade streams, one per account | `market/alpaca_stream.py` | watches |
| dashboard requests (FastAPI) | `web/app.py` | watches, configs, orders, snapshots |
| liquidation follow-up | `web/app.py:2864` | watches, orders |
| follow-up collector, pattern reviewer, news archive, X stream, feeds | `online/*` | tables and files of their own |

The **tick collector** (`tick_collector/`) streams prices of the held symbols
into its own store, and only reads the trader's watches.

There is no lock around a watch or a position. A watch is one JSON row; every
writer replaces all of it, either unconditionally (`update_watch`) or if the
status is still the expected one (`update_watch_if_current_status`). The
account is changed by calls that take seconds and can time out. The only locks
are around dictionaries and sets in memory.

### Components

For each: state; operations; what talks to it; what is hard; what makes it
correct. `PROJECT.json` repeats the list with the sources and what is modelled.

1. **Watches table and `WatchBuilder`** (`models/watch.py`,
   `db/database.py:272-407`). A row has status (holding → exited →
   cooling_off → sealed), exit, order ids and the exit-in-flight mark.
   Insert, two kinds of update, transitions. Written by six kinds of threads
   from copies. *Correct*: status and exit agree; sealed is final; the status
   moves along the lifecycle.
2. **Live exit monitor** (`online/live_monitor.py:60-615`). A cycle a minute:
   holding watches are checked for an exit and sold (cancel the stop, mark
   pending, close the position, store the id, wait, record), exited ones cool
   off, cooled-off ones are sealed. *Hard*: each step is a write from the row
   read at the start; the stop can fill at any of them; the wait can time out.
   *Correct*: a signal ends in an exit; a price taken from a fill is real.
3. **Live portfolio manager** (`live_monitor.py:617-1500`). Capacity,
   duplicates, position check, buy, insertion of the watch; or the sale of a
   victim first. *Hard*: several workers at once, check and use far apart.
   *Correct*: no position beyond the limit, none twice, each with a watch.
4. **Alpaca broker** (`market/alpaca_broker.py`). No state but the clients;
   buy with confirmation, set stop, close, cancel, poll. *Hard*: time-outs
   that race fills; errors swallowed as "no position".
5. **Reconciliation** (`market/alpaca_reconcile.py`). Four rules that compare
   positions with watches, and `ensure_stops`. Runs in the monitor's loop
   every quarter of an hour, and from the dashboard. *Hard*: two sides read
   at two times. *Correct*: what is sold is exited, what is held is adopted
   once, held positions have a stop that a watch knows.
6. **Trade stream** (`market/alpaca_stream.py`). Fill events, looked up among
   the active watches. *Hard*: events lost while it reconnects, late, or ahead
   of the id's storage. *Correct*: an exit at the fill's price, once.
7. **Orchestrator** (`online/orchestrator.py`). Queue, symbols in flight,
   cooldown, triage, one snapshot per symbol, evaluation; the start of threads
   and streams. *Hard*: threads look and mark at different times; aborts and
   errors at every step; files that come again. *Correct*: no symbol shut out
   for ever, no snapshot traded on twice, the cooldown holds.
8. **Live configs** (`models/live_config.py`, `web/app.py`). Activate,
   deactivate, pause, edit, archive, delete: read-modify-write of one row
   against evaluations in flight. *Correct*: at most one active config per
   account; no watch of a config nobody serves.
9. **Dashboard** (`web/app.py`, `web/sse.py`). Force exit, liquidate, sync,
   adopt, deletions, configs, manual explorations.
10. **Activity tracker, event bus** (`online/activity_tracker.py`,
    `event_bus.py`). Abort flags by job id; bounded subscriber queues.
    *Correct*: an abort stops the job it was meant for.
11. **Follow-up collector** (`online/follow_up_collector.py`). Scheduled
    collections with paid searches. *Hard*: aborts and failures between the
    payment and the row; flags that outlive their collection. *Correct*: every
    follow-up completes, overspending is bounded.
12. **Exploration pipeline, triage, symbol filter** (`online/explorer*.py`,
    `agent_pipeline.py`, `runners/`, `triage.py`, `symbol_filter.py`). Rounds of
    agents on a thread's event loop, each with tools, limits on paid searches and
    a prompt that tells it what those before it found. *Hard*: time-outs and
    aborts of tasks, calls side by side, costs known only afterwards. *Correct*:
    overspending is bounded, an aborted job leaves the next one alone, no finding
    is lost on its way to the next agent.
13. **Exit strategies and backtest** (`market/backtest.py`, `indicators.py`).
    Exit rules, shared with the live monitor; runs with threads, processes and
    caches on disk; capital rules and a simulation of the cash. *Hard*: bars in
    progress; results that outlive the bars they were computed from; two walks
    that must agree. *Correct*: live and backtested exits agree, results are as
    new as the run, money is conserved and the cap kept.
14. **Market data** (`market/data_service.py`, `schwab_*`, `finnhub_client`,
    `yfinance_client`, `market_hours`, `volume_delta_shadow`). Clients with
    fallbacks and caches; the trading calendar; a volume delta from running
    totals. *Hard*: answers in part, kept for a day. *Correct*: what a vendor
    knew is served, volume is counted once.
15. **Feeds, online mode and archive** (`online/feed_manager.py`,
    `online_mode.py`, `news_archive.py`, `websocket/`). Subprocesses, an observed
    directory each, a switch that the market's hours turn too; files. *Hard*:
    toggles that fall in with the start or with a reading of the market; kills
    between the steps of an archiving. *Correct*: an enabled feed is watched, a
    manual choice stands, no article is lost before its retention is over.
16. **X stream** (`online/x_stream_service.py`, `xapi/`). Bursts, threads that
    put rules at X and remove them. *Hard*: rules outlive their burst or the
    process; limits checked and counted apart. *Correct*: every rule has an
    owner, the bursts of a day are bounded.
17. **Tick collector** (`tick_collector/`). Subscriptions follow the holdings;
    volume from running totals, buffered and written in batches; a token shared
    with the trader. *Hard*: streams that die silently, batches that fail,
    shutdown. *Correct*: what is held is streamed, volume is counted once.
18. **Equity curves** (`live_monitor.py:1502-1796`, `db/equity_backfill.py`,
    `scripts/backfill_equity_full.py`). A row of equity per config and time, added
    by the monitor, computed anew by a page or a script. *Hard*: several writers,
    watches that change under them. *Correct*: a row is true of its time.
19. **Snapshots** (`db/database.py`, `scripts/backfill_snapshot_decision_time.py`,
    `scripts/backfill_price_10min.py`). A sealed row, its JSON file and the archive
    of its day; prices that follow-ups add. *Correct*: what was captured at the
    decision stands.
20. **Operator scripts** (`scripts/`). Repairs of exit prices and extremes, import
    of holdings, beside the program. *Hard*: rows read minutes before they are
    written. *Correct*: what was recorded of an exit stands.
21. **Knowledge** (`knowledge/store.py`). Files that threads append to and pages
    save. *Correct*: no append is lost to another.
22. **Legacy watcher and pattern reviewer** (`online/watcher.py`). Check-ins by an
    LLM; not started by the program. *Correct*: every watch is sealed.
23. **Evidence, reflection, LLM clients, settings, notifications** (`evidence/`,
    `reflection/`, `llm/`, `config.py`, `notifications.py`). No protocol between
    writers.

## 2. Plan

Ordered by what would cost most when wrong.

| | module | subject | state |
|---|---|---|---|
| 1 | `WatchRow`, `LiveExit` | one position from its purchase to the sealed watch, all writers | checked, proved |
| 2 | `WatchLifecycle`, `LiveExitLifecycle` | the lifecycle as an abstract specification, and the refinement | checked, proved |
| 3 | `PortfolioEntry` | from signal to watch, several workers | checked, proved |
| 4 | `Investigation` | from news to signal, several threads | checked, proved |
| 5 | `ConfigLifecycle` | configs created, edited, paused, archived, deleted, against evaluations and threads | checked, proved |
| 6 | `TradeStreams` | the dictionary of streams, synchronised by several threads | checked, proved |
| 7 | `Allocation` | a backtest's capital rules and its simulation of the cash | checked, proved |
| 8 | `BacktestExits` | exit rules on live and on complete bars | checked, proved |
| 9 | `BacktestRuns` | a run with its caches, processes and job | checked, proved |
| 10 | `FollowUps`, `Pipeline` | paid work under a cost limit, with aborts and failures | checked, proved |
| 11 | `TickBuffer`, `TickSubscriptions` | the tick collector | checked, proved |
| 12 | `XStream` | bursts and their rules | checked, proved |
| 13 | `NewsArchive` | files from the feed to the archive | checked, proved |
| 14 | `AgentTools`, `TwoPhase` | an agent's prompt, tools, traces and cost; the explorer of two phases | checked, proved |
| 15 | `EquityCurve` | rows of equity and their writers | checked, proved |
| 16 | `SnapshotFields`, `OperatorRepairs` | what scripts write over snapshots and watches | checked, proved |
| 17 | `MarketData` | vendors, fallbacks, caches and filters | checked, proved |
| 18 | `ShadowVolume`, `TickVdd` | volume deltas, on both ways | checked, proved |
| 19 | `Knowledge` | files that several threads append to | checked, proved |
| 20 | `LegacyWatcher` | the old monitor | checked |
| 21 | `Switches` | feeds and online mode | checked, proved |

`MCComponents` composes 5, 6, 10, 12 to 14, 20, 21 and `TickSubscriptions`,
components that are threads, jobs or processes; `MCData` the others, and two
more instances of `LiveExit`. A behaviour of either is one of a single component
(`part`), chosen at the start. "Proved" means that every invariant the runs ask
of the module is a theorem (section 5). What is left to model is in section 7.

The proofs are in modules of their own:

| module | about |
|---|---|
| `LiveExitProofs` | `LiveExit`, and that it implements `WatchLifecycle` |
| `PortfolioEntryProofs`, `InvestigationProofs` | `PortfolioEntry`, `Investigation` |
| `ConfigProofs` | `ConfigLifecycle`, by itself |
| `ComponentProofs` | `TradeStreams`, `XStream`, `NewsArchive`, `Switches`, `FollowUps`, `Pipeline`, `AgentTools`, `TwoPhase` in `MCComponents`, and `ConfigProofs` carried over to both instances there |
| `RecordProofs` | `Knowledge`, `BacktestRuns`, `SnapshotFields`, `OperatorRepairs`, `MarketData`, `BacktestExits`, `TickVdd` in `MCData`, and `LiveExitProofs` carried over to both instances there |
| `QuantityProofs` | `Allocation`, `EquityCurve`, `TickBuffer`, `ShadowVolume` in `MCData` |
| `FoldTheorems` | sums over finite sets, as the community modules' folds compute them |

## 3. The models

### 3.1 `WatchRow` and `LiveExit`

One symbol on one account for one active config. `row` is the watches table
(status, where the exit price comes from, sell and stop ids, exit in flight);
`held`, `open`, `filled` and `sold` are the account; `events` and `buyEvents`
what the stream has still to deliver; `seller`, `stream`, `rec` and `web` the
threads, each with its program counter and **the copy of the row it read**.

| code | actions |
|---|---|
| `run_cycle`, `_check_holding` without exit | `MonitorRead`, `MonitorKeep`, `MonitorExit` |
| `_transition_to_cooling_off`, `_check_cooling_off`, `_seal_watch` | `TransitionToCoolingOff`, `StillCoolingOff`, `SealWatch` |
| selling, in `_check_holding` and `_exit_victim` | `VictimRead`, `CancelStop`, `PersistPending`, `SubmitSell`, `NothingToSell`, `SubmitFails`, `ClearPending`, `PersistSellId`, `SellConfirmed`, `SellUnconfirmed`, `CommitExit` |
| `_handle_sell_fill`, `_handle_buy_fill` | `StreamSellFill`, `StreamBuyFill`, `StreamWrite` |
| `reconcile` | `ReconcileStart` … `ReconcileAdopt` |
| `ensure_stops` | `EnsureStart` … `EnsureBreachExit` |
| force exit, liquidate | `ForceExitRead`, `ForceExitWrite`, `Liquidate` |
| Alpaca (external) | `FillOrder`, `OrderDies`, `LoseEvent` |

`Faults` says which misfortunes or manual interventions may happen, so that a
run can ask about some without the noise of the others: fills that are late or
lost, dying orders, failing calls, positions missed in the bulk look-up, a force
exit, a liquidation, an old sell in the order history, and `sync`: the
dashboard's sync and the thread that follows a liquidation.

Abstractions. Prices are where they come from. Quantities are left out: a
position is held or not, and a sell order takes all of it (Alpaca reserves the
shares, so one order is open at a time). Ranking and broker-less shadow watches
are left out. The six order ids are reused once nothing refers to them, so that
the pool never runs dry. A position is not bought again within this model;
`PortfolioEntry` does that. `Unprotected` names the watches for which no stop
price is known: none was persisted, and with `guard_stop_pct = 0`, the default
(`live_config.py:52`), none can be computed. `ensure_stops` reports these as
UNPROTECTED and skips them (`alpaca_reconcile.py:541`), and no adopted watch has
a persisted one; in `exit_live` it is the second, adopted watch. `CoolingOffElapsed` says that no *other* thread
still holds the row: cooling off lasts 24 market hours, and no handler waits
more than minutes. The assumption is needed, see `SealedIsFinal`.

### 3.2 `WatchLifecycle` and `LiveExitLifecycle`

The lifecycle the head of `models/watch.py` draws, with the parameter `Jumps`
for the steps off that line. `LiveExitLifecycle` maps each row to its status.
The refinement says exactly which jumps stale writes can make: back from exited
or cooling_off to holding, from cooling_off to exited, and from holding to
cooling_off after a stream write that was itself stale; never from or to sealed,
never to absent. The smaller the fault set, the smaller `Jumps` can be.

### 3.3 `PortfolioEntry`

One config and account, several symbols. `status` is the table, `flight` the
watches not sealed yet whose row has `exit_in_flight`, `lots` the buys a position
is made of, `buys` the orders, `pending` the signals to evaluate, `worker` and
`rec` the threads.

| code | actions |
|---|---|
| `_evaluate_for_config` | `Begin`, `CountHoldings`, `Guard`, `CheckPosition`, `InsertWatch` |
| `_find_replacement_victim`, `_exit_victim` | `FindVictim`, `SellVictim`, `CommitVictim` |
| `buy_and_confirm`, `wait_for_fill`, `_resolve_buy_after_timeout` | `Buy`, `AwaitBuy`, `CancelBuy`, `RecoverBuy` |
| `reconcile`, with what matters to a buy | `ReconcilePositions` … `ReconcileAdopt` |
| exits, as `LiveExit` has them | `MonitorExit`, `StopFills`, `StreamExit`, `Seal` |

A worker stands for any thread that explores. Filters, scores and sizes are
inputs: `Signals` pass them. A cancel that the API accepts is effective at once,
unless calls can fail. `Replace = FALSE` is the allocation that skips when full.
One adoption id per symbol and one reconciliation at a time bound the state.

Reconciliation keeps its skips. A missing position's watch is exited
(`ReconcileSold`) unless its exit is in flight, the second look finds the position,
or no filled sell is found or the query fails (`ReconcileMissing`); a position
without a watch is adopted unless an exit of the symbol is in flight
(`ReconcileListed`) or a buy is open (`ReconcileOrders`). A victim's sale can fill,
fail, time out with the mark left on the row, or find nothing to sell; the
monitor's exit can be recorded with the position still held. A watch whose mark
nobody clears holds on without a position: `TrackedIsHeld` excepts it, and
`exit_stuck` shows it.

### 3.4 `Investigation`

`snap` is the snapshots table, keyed by article and symbol as
`snapshot_id_for_symbol` does, with no symbol for the base id; `recent` the
explored ones younger than the cooldown; `inFlight` the dictionary of marks;
`thread` the locals of each thread; `traded` counts evaluations.

| code | actions |
|---|---|
| `process_news_file` up to the id check | `Take` |
| cooldown and marks | `LookUpRecent`, `LookUpInFlight` |
| `run_triage`, cooldown and symbol filter | `Triage`, `SealSkipped` |
| loop over the symbols | `Mark`, `NextSymbol`, `ExploreStops`, `SealExplored`, `Trade`, `Unmark` |
| time, restarts | `CooldownEnds`, `Crash` |

What LLMs and filters answer is any subset of a small set. An abort, an error
or a failed pipeline can come wherever the code checks for it. `MaxRuns` says
how often a file of the article arrives, queued or backfilled; a manual
exploration has an id of its own. `Shared` says whether two threads may have
one article at once. The cooldown is taken to be on (60 minutes by default).
Mock snapshots (`MOCK_LLM`, development) are left out.

Together: a signal that `Trade` evaluates is one of `PortfolioEntry`'s
`Signals`, and two marks for one symbol are its fault `same_symbol`; a watch
that `InsertWatch` inserts is the first watch of `LiveExit`, and a `MonitorExit`
stands for its whole sale.

### 3.5 `ConfigLifecycle`

`conf` is the live_configs table, `hold` the watches, `pos` the accounts'
positions, each with its buyer and a mark: *new* until a watch stands for it,
*tracked* while one does, *unsold* once that watch was exited without a fill;
`eval` an evaluation in progress, `job` the archiving and deleting
threads, `dash` a handler that has read a row it will write back, `broken` the
configs whose archiving broke off.

| code | actions |
|---|---|
| create, edit, pause, activate, deactivate | `Create`, `ReadRow`, `WriteRow`, `Activate`, `Deactivate` |
| archive, delete with and without an account | `ArchiveBegin`, `DeleteLinked`, `DeleteUnlinked`, `DeleteArchived`, `DeleteStale` |
| their threads: close, wait, reconcile, finish | `ThreadStep` |
| `evaluate_snapshot` | `EvalBegin`, `EvalSkip`, `EvalBuy`, `EvalInsert` |
| exit monitor, stream, reconciliation, sync, force exit | `MonitorExit`, `SellFills`, `PeriodicReconcile`, `Sync`, `ForceExitWatch` |

The handlers do not await between reading and writing a row, so they do not
interleave with each other; the archiving and deleting threads, which write rows
too, do: pausing and editing are split into `ReadRow` and `WriteRow`. Buying is
one step here. An exit is recorded with the sale or without it (a time-out, a
failed submission, the dashboard's force exit), and the position left is sold
later, adopted, or neither. `Reconciled` says what a reconciliation can leave: any
symbols as they were (an exit in flight, an open buy, no sale in the history, a
failed adoption), and any positions missed (both look-ups fail).

### 3.6 `TradeStreams`

`links` are the accounts of active configs, `registry` the dictionary, `stream`
the objects with their connections, `caller` a synchronisation in progress,
read and write of the dictionary apart. A stream's thread never ends
(`alpaca_stream.py:80`): stopped, it connects again, so that the number of
streams that deliver is not the number in the dictionary.

### 3.7 `FollowUps`, `Pipeline`, `AgentTools`, `TwoPhase`

`FollowUps`: `fu` are the rows, `due` what time has made due, `run` the
collector's collection in progress with the searches paid for, `flagged` the
activity tracker's aborts by id. `Pipeline`: rounds of agents under a cost
limit that is looked at between agents; an abort leaves the agent's task on the
thread's event loop, where it goes on (`left`) while the next job runs.

`AgentTools` is one agent inside a round: what is fetched for its prompt, what
the ledger of earlier rounds tells it (`Omitted` is what the ledger leaves out),
its turns and the calls of one response, which run side by side (`StartCall`,
`EndCall`), the traces, and what its provider reports of searches and cost. The
four runners differ in all of these and are the values of `runner`.
`TwoPhase` is the explorer of fixed menus (`explorer.py`), code that no other
module imports at this commit: research picks, hypotheses are ranked,
each is assigned the searches that the first phase has not made (`MarkUsed`),
until hops or branches run out. What a model answers is any member of a set.

### 3.8 `Allocation`, `BacktestExits`, `BacktestRuns`

Three layers of a backtest. `BacktestExits` is what a strategy decides on the
bars of a trade, by the live monitor on a growing prefix with
indicators it keeps by the number of bars, by the backtest on all bars.
`Allocation` walks through the trades in the order of their entries as
`apply_allocation` does (skip, or replace by unrealised profit), and then once
more with cash as `compute_portfolio_sim`; times are compared as the strings
they are. Each step of the walk is at one entry and looks at one result, and the
two need not be the same trade's: `run_backtest` returns results symbol by symbol
(`backtest.py:3686`), the entries keep their order, and `zip` pairs them
(`Results`, `paired`); the simulation sorts the results by their own entries
(`Turns`, `turn`). `BacktestRuns` is the run around them: symbols are loaded by threads
that look entries up in the caches of first bars and of results
(`Prefetch`), evaluated by processes in any order (`Evaluate`), from the start
again when processes break off (`FallBack`); other runs appear as what they
write into the shared caches (`OtherRun`); the job can be aborted or forgotten
(`Abort`, `Prune`) while its thread goes on.

### 3.9 `TickBuffer`, `TickSubscriptions`

`TickBuffer` follows the volume of a symbol from the exchange's running total
through parsing, buffer and batches into the database; a batch whose insertion
fails is lost (the exception is logged), and the shutdown writes one more. A
trade without a total counts its size, as the view `bars_1m` does
(`init.sql:48`), and its volume is in the next difference again. Yesterday's total
is still there in the morning: the session's count begins with the first total
looked at (`opened`), which itself counts for anything from nothing to the volume
so far. A trade at the exchange is one share. `TickSubscriptions` is the loop that
compares holdings with subscriptions, the health check and its ten restarts,
and the stream object (external: it replays what was subscribed).

### 3.10 `XStream`

Threads ask for a burst (`Check`, `StartBurst`), bursts add rules, buffer,
judge, retry and clean up, while midnight resets the count, `stop` and the
purges of start and end interfere, and X can refuse. A request to add rules can
fail after X has created some or all of them (`AddTimesOut`): their ids are
unknown, and they stay until a purge (`kept`).

### 3.11 `NewsArchive`

Files are written by the feed, archived by day and deleted, archives are pruned
after their retention. The ZIP's directory is written when it is closed, so what
was added to an open archive is lost with the process (`Kill`, which every stop
of the program is), and a damaged archive loses what it listed.

### 3.12 `EquityCurve`

`rows` are the rows of one config, `watch` its watches with entry and exit,
`view` the thread that has read and not yet written, `tool` a backfill. The
monitor adds a row after its cycle (`live_monitor.py:1606`), a page or the full
script deletes and computes rows from closes; entries and exits go on meanwhile.
One backfill at a time. `RowsTrue` compares a row with the history `watch`.

### 3.13 `ShadowVolume` and `TickVdd`

`ShadowVolume` turns the day's running total of a symbol into volume per minute,
up or down, with restarts, a new day and totals that are reset. A bar is in memory
before it is appended to the day's log; an append that fails is swallowed, a log
that cannot be read counts as empty, and a reset, which nothing calls, clears the
memory and not the log. Lines are written whole, as the docstring claims: a
line cut off in the middle is not modelled.
`TickVdd` is the divergence that the tick store computes for a live exit: ticks
in buckets, a window that may cut one, and the three modes of taking it
(`proportional`, `visible_only`, `bar_binary`). A set of rows of the table is
the argument of everything that the query and the signal compute (`Bars`, `Close`,
`Delta`, `Signal`), so that the window and the whole history are two sets.

### 3.14 `MarketData`

Schwab, Yahoo and Finnhub each answer some metrics of some symbols, or fail;
`ans` is the merged answer, `cache` what is kept for a day, `page` the table of
the dashboard, `call` a request in progress. `FirstKnown` is the merge: the first
vendor that knows a metric. The live filters read the answer.

### 3.15 `Knowledge`

`file` is a JSON file, `lock` the process lock, `proc` the threads that read,
change and write it, `form` a page with a whole file, `told` what was learned.
A kill cuts a write off.

### 3.16 `SnapshotFields` and `OperatorRepairs`

`SnapshotFields`: a snapshot is sealed, gets prices by collectors (`adding`), is
rewritten by one of two scripts (`script`) and moved into an archive (`mover`),
row and file apart, each from what it read.
`OperatorRepairs`: the monitor's cycle on shadow watches beside the scripts that
re-price exits and measure extremes from candles or ticks, and the import of a
portfolio, which can be refused, end or be killed between two rows. A row's JSON
and its status column are written apart by one of the scripts, so they are two
fields here (`torn` names the watches where they differ).

### 3.17 `LegacyWatcher`

`oldRow` the watches of `online/watcher.py`, `cycle` its loop, which ticks, asks
an LLM, retries, downgrades or forces an exit; `postExit` the follow-ups. The
program does not start it; the module follows its code as the tests use it.

### 3.18 `Switches`

`feed` is a `FeedManager` (enabled, subprocess, observer, handle, directory
observed), started by `main` and wired by the watch loop (`loop`) while toggles
arrive. `online` is the mode with its manual override, `reading` the market's
state as the automatic loop read it before it took the lock. Two feeds differ in
nothing but their names (checked apart, 39,050 states).

## 4. The runs

| run | asks | states |
|---|---|---|
| `exit_core` | `RowsCoherent`, `ExitPriceIsReal`, `SealedIsFinal`, `OnlyUnguardedWritesReopen`, `LifecycleSpec` with a liquidation, a manual exit, a late buy fill, failing calls, missed look-ups, an old sell and a restart | 105,532 |
| `exit_live` | two watches, lost events and dying orders: `OneHolding`, and under fairness `SoldIsExited`, `SignalledIsExited`, `HeldIsProtected`, `HeldIsAdopted`, `LifecycleFairSpec`; the adopted watch has no stop price | 9,393 |
| `exit_reopened` | violated: an exit is final | – |
| `exit_stuck` | violated: what is sold is exited, beside a worker whose sale timed out | – |
| `entry_skip` | two workers, three symbols, four signals, limit 1: `OvershootBounded`, `NoDoubleBuy` | 1,107,527 |
| `entry_live` | replacement, failing calls, a restart, fairness: `HeldIsTracked`, `TrackedIsHeld` | 58,976 |
| `entry_double` | violated: no double buy, with two evaluations of a symbol | – |
| `invest_core` | worker and manual exploration, a file that comes twice, a restart: `MarksAreLive`, `TradedOnce`, `CooldownHolds` | 1,784,368 |
| `invest_rerun` | violated: a re-run skips what produced a snapshot | – |
| `components` | threads, jobs and processes around the core, below | 291,035 |
| `data` | what computes or keeps data, below | 2,154,514 |
| `cap_hard` | violated: a backtest's `max_pos` is a hard cap, with interleaved symbols | – |

The parameters of a part about which something is proved are constants of
`MCComponents` and `MCData`, with named assumptions; `Components.cfg` and
`Data.cfg` give them the values of the instances below, and the proofs hold for
all values.

What `components` asks, by part. A property of the run names those of the parts:
`SpendingBounded` is `FollowUps!OverspendBounded`, `Pipeline!SpendBounded` and
`AgentTools!XSearchesBounded`, `CostKnown`; `FindingsKept` is
`TwoPhase!Orthogonal` and `AgentTools!FindingsTold`; `BurstsAccounted` is
`XStream!RulesAreOwned`, `BurstsBounded`; `ArticlesKept` is
`NewsArchive!ArticlesKept` and `Switches!EnabledIsWatched`, `ManualStands`.

| part | properties | instance |
|---|---|---|
| `pair`, `single` (`ConfigLifecycle`) | `SoldBeforeGone`, `NeverRevived`, `ArchivingEnds` | two configs that may share an account, one thread, restarts; and one config, two threads, stale edits, restarts |
| `streams` (`TradeStreams`) | `LinkedIsServed` | one account, start-up and two callers, three stream objects, three changes of links |
| `legacy` (`LegacyWatcher`) | `EveryWatchSealed` | one watch, a lightweight and a full check-in before the forced one, a retrospective of two, a quote that comes and goes |
| `agents` (`Pipeline`) | `SpendingBounded` | three agents, two rounds, two jobs on one thread |
| `tools` (`AgentTools`) | `SpendingBounded`, `FindingsKept` | two symbols of which one is fetched, a Grok, an OpenAI or a PydanticAI agent and the final one, two turns, two calls at once, one search |
| `two_phase` (`TwoPhase`) | `FindingsKept` | two hypotheses with either of two sets of follow-ups, three actions and branches, eight hops |
| `follow_ups` (`FollowUps`) | `SpendingBounded`, `EveryFollowUpCompletes` | one follow-up, three offsets, two aborts, one error |
| `bursts` (`XStream`) | `BurstsAccounted` | two threads, two bursts at once, one a day, one failing request or midnight |
| `news` (`NewsArchive`) | `ArticlesKept` | two articles, three days, a retention of one, one kill |
| `subscriptions` (`TickSubscriptions`) | `HeldIsStreamed` | two symbols, three trades, three faults, two restarts |
| `switches` (`Switches`) | `ArticlesKept` | one feed, any settings, any number of toggles and turns of the market |

What `data` asks. `SlotsKept` is `Allocation!CapKept`, `TakenHasSlot`;
`LiveExitsAgree` is `BacktestExits!NoMissedExit`, `DecisionsStand` and
`TickVdd!WindowDecides`; `VolumeCounted` is `TickBuffer!VolumeComplete` and
`ShadowVolume!LogIsVolume`; `SealedStands` is `SnapshotFields!SealedStands` and,
of `OperatorRepairs`, `RowsAgree`, `ExitsStand`, `ExtremesEnclose`,
`TrackedStand`.

| part | properties | instance |
|---|---|---|
| `allocation` (`Allocation`) | `SlotsKept`, `MoneyConserved` | three trades of any symbols in any order, two slots (one in `cap_hard`), three rules |
| `exits` (`BacktestExits`) | `LiveExitsAgree` | four bars of three kinds, four plans |
| `backtests` (`BacktestRuns`) | `ResultsFresh` | one symbol, two entries, three days |
| `ticks` (`TickBuffer`) | `VolumeCounted` | two symbols, a volume of two, two sessions, messages of one or two trades, batches of one |
| `shadow` (`ShadowVolume`) | `VolumeCounted` | two prices, a total of four, three minutes, two days, a restart, a total that starts anew, any resets, failing appends |
| `vdd` (`TickVdd`) | `LiveExitsAgree` | five ticks, buckets of two, three modes |
| `equity` (`EquityCurve`) | `RowsTrue` | a bullish and a bearish watch, two slots, four times |
| `market` (`MarketData`) | `MetricsServed` | two symbols, one a class share, three sets of vendors' answers, two days |
| `replacement` (`LiveExit`) | `ExitPriceIsReal` | a worker beside the monitor, failing calls, lost and late fills |
| `synced` (`LiveExit`) | `ExitPriceIsReal` | syncs and liquidations beside the monitor, a manual exit, missed look-ups, an old sell |
| `knowledge` (`Knowledge`) | `AppendsKept` | two threads and a page on one file, one kill |
| `snapshots` (`SnapshotFields`) | `SealedStands` | two snapshots, one rewrite, one price |
| `repairs`, `imports` (`OperatorRepairs`) | `SealedStands` | one watch and two runs of the scripts; an import of two holdings |

All runs are complete searches without state constraints. `EntrySkip` uses
symmetry of the two workers, with invariants only.

**Bounds and why they suffice.** `LiveExit`: conflicts are between copies of one
row, so one watch shows all of them; a second one is needed only for adoption
(`exit_live`). Six ids exceed the orders that rows, copies and events can refer
to at a time, and an action that needs a fresh id is never blocked for want of
one. One restart: it leaves no trace but the table and the account, from which
a second one starts as the first did. A worker stands for one replacement, since
a second one starts like the first. `PortfolioEntry`: two workers for a limit of
one reach the overshoot, a second signal of a symbol the double buy and the sale
in between; the third symbol lets capacity be exceeded by one more if it could
be. `Investigation`: two articles that share a symbol, one of them with two
symbols and two runs, and a thread that ignores the cooldown. The components:
symbols of a backtest meet only in the order of its phases, so one shows the
caches (two symbols, and entries whose first bar comes late, were checked apart,
158,065 and 178,020 states); three articles and four days of the archive were
checked apart too (3,970,000 states), as were two midnights or failures of the X
stream; a stale row needs one config and an archiving beside it, a shared
account two configs and one thread; three trades are the fewest that can be
paired wrongly and still have two of one symbol, and with which a replacement
frees a slot while its proceeds are pending for a third; two jobs on one thread are what an aborted agent's task can reach.
One price of a symbol is known or not, higher or lower: two prices show a row
that is older than its time (`EquityCurve`), an extreme that does not enclose its
exit (`OperatorRepairs`) and a window cut on the wrong side (`TickVdd`). Two calls
of one response are the fewest that both pass the last free search, two rounds
the fewest in which one is told of the other. Two appenders show a lost update;
the third writer, a page, saves without the lock. Two runs of a repair script
are the fewest in which one finds the other's row.

**Deadlock** is checked except in the investigation runs, where the program
waits once every file within `MaxRuns` is processed, and in `components`, `data` and
`cap_hard`, where bounded counters, finished simulations and ended runs stop a
behaviour.

**Fairness.** `live_monitoring_loop` runs for ever and swallows every exception,
so a watch that stays active is read again (SF on `MonitorRead`), cooling off
ends (SF on `SealWatch`), and reconcile and `ensure_stops` come round (SF: their
turn is between cycles). A thread in the middle of a handler goes on (WF), since
each call has a time-out; the stream handles what is delivered. A buy fills or,
as a DAY order, expires. In `PortfolioEntry` cooling off ends (WF on `Seal`), and
the order history does not fail each time reconcile asks for a sale (SF on
`ReconcileSold`). Nothing is assumed of signals, fills of sells, users,
or of an API that fails: with `api_error`, `LiveExit`'s liveness does not hold,
and is not claimed. The components: a thread that archives goes on (WF; each of
its calls has a time-out), and so does a handler that has read a row; the
follow-up collector's loop never ends and swallows exceptions (WF on its steps,
SF on taking up a follow-up, since an abort can be pending each time it looks);
the tick collector's three loops run until a signal (WF). That a broken stream
reconnects by itself is not assumed. The legacy watcher's loop goes on (WF: it
swallows exceptions), its calls to an agent end, cooling off ends, and the calls
past the end of the schedule, whose answer is overridden, do not all fail (SF on
`OverriddenAnswer`): if they all did, the watch would be asked about for ever.

## 5. What is proved

17,426 obligations (`LiveExitProofs` 1,806, `PortfolioEntryProofs` 692,
`InvestigationProofs` 884, `ConfigProofs` 1,220, `ComponentProofs` 3,893,
`RecordProofs` 3,958, `FoldTheorems` 597, `QuantityProofs` 4,376). Sets of
watches, orders, workers, symbols, threads, articles, bars, rules and rows may be
of any size (finite where they are counted), limits and bounds any numbers. The constants satisfy the named
assumptions beside their declarations; where a theorem needs more than those, it
says so itself, and the entry below says why.

**One position** (`LiveExitProofs`).

- `TypeCorrect`.
- `RowsStayCoherent`, `SealedStaysSealed`, `GuardedWritesKeepExits`,
  `ImplementsLifecycle`, from one inductive invariant `RowInv`: types, coherent
  rows, *coherent copies whose status fits the program counter* (`CopiesOK`),
  and *no thread at work on a row that is absent or sealed*
  (`ThreadsAttached`). The rows alone are not inductive, since a row is only as
  good as the copy that will replace it; and sealed is final only because
  sealing waits for the last copy. The lemma `RowSteps` says once how any step
  moves a row; the theorems are read off it. For `ImplementsLifecycle`, `Jumps`
  must admit the stale writes.
- `ExitPricesAreReal`, from `HeldUnsold`: while the position is held there has
  been no sale, so no event, no confirmed order, no copy and no row can name a
  fill or, unless an old sell and failing calls meet, the history.
- `OneWatchHolds`, from `HoldInv`: `RowInv`, and no watch but the one that the
  monitor is at work on holds (`MonitorHasHolding`), the monitor is at no watch
  while a reconciliation runs, and none holds when that adopts (`ReconcileAlone`),
  and a stream writes no holding row (`StreamExits`). Only for that reason does a
  write that sets a row to holding make no second one. Hypotheses: no worker that
  replaces, no reconciliation beside the loop (`sync`), no late buy fill. Each of
  the three is needed: with any one of them a lost event suffices for two watches
  that hold, as TLC shows within 3,000 states (checked apart); a holding row is
  written that was read before the other watch held. `exit_live` is an instance,
  with lost events and dying orders; the theorem also covers manual exits,
  liquidations, failing calls and restarts.

**From signal to position** (`PortfolioEntryProofs`).

- `EntryTypeCorrect`.
- `OvershootIsBounded`, from `CapInv`: the bought watches *and the workers past
  the count* together stay within limit plus workers minus one. Bought watches
  alone are not inductive, as a worker past the count may still insert one.
  `NoVictims` keeps an exited watch from being set back to holding.
- `NoSymbolBoughtTwice`, from `BuyInv`: one evaluation of a symbol at a time
  (`OneEvaluation`), an order still open is awaited by the worker that placed it
  (`WorkingIsAwaited`), and a worker past the position check found a symbol of
  which there is still nothing (`BuyerFoundNone`). Hypotheses: every call
  answers, no two evaluations of one symbol, no restart (`Faults = {}`,
  `MaxCrashes = 0`); without them it is false, as `entry_double` and section 6
  show.

**From news to signal** (`InvestigationProofs`).

- `InvestigationTypeCorrect`.
- `MarksStayLive`: a mark has a thread that explores the symbol. Inductive with
  the types, because a thread only gives up its symbols in the step that pops
  all their marks, and a restart empties both.
- `SignalsTradedOnce`, if no two threads share an article, from `TradeInv`: a
  snapshot that a thread is about to write is absent, and one whose signal waits
  to be evaluated is stored as explored and was never evaluated.
- `CooldownIsKept`, from `CoolInv`: a snapshot in the table of recent ones exists,
  a thread of the queue looks at its own articles only (`HasItsOwn`), and from its
  look at the table to its marks what it holds as cooling down covers, and what it
  is about to mark avoids, *every snapshot of the queue that is cooling down*
  (`LooksBack`). Hypothesis: one
  thread serves the queue (`OneServesQueue`), as in the program
  (`orchestrator.py`); with two, one stores a snapshot after the other has looked.

**Configs and streams** (`ConfigProofs`, `ComponentProofs`).

- `SoldBeforeConfigsGo` and `ArchivingsStand` of any `ConfigLifecycle`, and
  `ConfigsGoSold`, `ArchivingsStand` of both instances in `MCComponents`, from
  `ConfigInv`: a config that a thread archives is marked as archiving and no other
  thread archives it (`ArchivingMarked`, `OneArchives`), a row that is to be
  written back is as old as the archiving at most, so that it is not active if
  the config is marked (`DashFresh`), and a position is in its buyer's account, and
  tracked only while its buyer's watch of the symbol is there (`Owned`). The last is
  what an exit without a sale, a sync that finds nothing and an adoption all have to
  respect; "every position has a watch" would be false.
- `LinkedAreServed`: a linked account is served, *or some thread has yet to come
  to it* (`LinkedAttended`): one that has not read the links, one that still
  wants to see whether it is missing, one that is about to start it. The property
  speaks of the registry alone once all are done; the invariant must say for each
  program counter which accounts a thread will still reach, since a thread that
  read the links before they changed is no help.

**Feeds** (`ComponentProofs`).

- `BurstsAreAccounted`, from `BurstsOwn` (a rule at X is in the hands of a burst
  that has its removal ahead, or the request that added or was to remove it has
  failed) and `BurstsCounted`: the
  bursts started in a day *and the threads past the check* stay within the limit
  and the threads minus one. The check and the count are two steps
  (`x_stream_service.py`).
- `ArticlesAreKept`, from `NewsInv` (what is added to the open archive is of its day,
  `AddedIsOfItsDay`) and `SwitchesInv`: a handle stands for a directory that is
  observed, and an enabled feed has one when the watch loop is done with it
  (`FeedsWired`); a choice that the market has not turned since is what the market
  is or overrides it, and no reading from before a turn is under way
  (`ChoiceStands`).

**Spending** (`ComponentProofs`).

- `SpendingIsBounded`, three invariants at once. `FollowUpsInv`: a collection
  begins below the limit, and what failures and aborts waste is paid for by their
  number. `AgentsInv`: what a job has cost is what is recorded *plus what its
  final agents have lost* (`PaidWithin`); an agent before the last one starts
  below the limit; and the steps that a task left on the loop can still take are
  counted as spent, since they are spent in the next job's time. `ToolsInv`: every
  search that was asked for runs or has left a trace of its own, and what is
  billed is requests and searches. Assumption: Gemini is the last agent
  and only the last (`build_default_pipeline`, `agent_pipeline.py:128`), since
  only its fallback is run without a look at the limit.

- `FindingsAreKept`, two invariants. `PhasesInv`: what the explorer of two phases
  reports is what was billed, unless it failed also what its traces say, and the
  tools marked as used are exactly those of the follow-ups made, none of them before
  the second phase. `Told`: every call of an agent, and every result, is about
  the article's symbol, a peer or nothing, and the prompt of an agent that runs is
  what base and the rounds before give (the property speaks of prompts at hand-over
  only). Assumption: None is not a symbol.

**Data** (`RecordProofs`).

- `AppendsAreKept`: which thread has read a file, or truncated it to append, holds
  its lock, and what was told is in what it has read (`Holds`). The property speaks
  of the file; what matters is the copies that will replace it.
- `ResultsAreFresh`: an entry that is done with has a sound result and one that
  waits has bars of the run's time or later (`Progress`, one case for each phase),
  and the cache on disk says nothing that the bars do not (`DiskKnown`), also
  after another run has written it.
- `MetricsAreServed`: what the cache has was observed at its stamp or later
  (`CacheFresh`), and a request takes from it only what is less than `Ttl` old.
- `SealedDataStand`, from `SnapshotsInv` (every copy in a collector's, a script's
  or the archiver's hands agrees with the sealed fields; a file is deleted only
  when the archive has it), `RepairsInv` (every copy of a watch has the
  recorded exit's time and reason, and its price or a close from before it, unless
  its JSON is torn from its column, and measured extremes enclose that price) and
  `ImportsInv`. Assumption `RepairAssumption`: prices are finitely many integers.

- `LiveExitsStayAgreed`, two invariants. `ExitInv`: decisions on complete bars are
  those of all bars there are, and the signals the monitor has kept are those of
  the bars but for the last one, which still moves. Both are inductive since
  whatever is decided before the last bar is decided the same on any longer bars
  that begin with the same complete ones (`PrefixDecides`; conversely
  `OpenHadNoExit`).
  `DivergenceInv`: rows of the table are later and later trades, and the last
  answer is that of the window at that time. The window is all rows from some time
  on, so it cuts its first bucket at most (`WindowCuts`): a bucket that loses rows
  keeps its close, its own delta cancels in the difference of two running sums,
  and if it gets too thin there are not enough bars (`WindowDiverges`, on
  definitions of the same bars as operators of the table). Assumptions:
  `ExitAssumption` (the number of bars before an exit is allowed),
  `DivergenceAssumption` (a bucket and a lookback are at least one).
- `CorePricesAreReal`: the two instances of `LiveExit` in `MCData` are instances
  of `LiveExitProofs`, step for step (`ReplacedStep`, `SyncedStep`), and keep its
  `HeldUnsold`. Assumption `CoreAssumption`: the core's own, for both.

**Sums** (`FoldTheorems`). The sums of the model are `MapThenSumSet`, a recursive
function that takes out an element chosen at each step. `FoldTheorems` shows that such
a function exists for every finite set (`FoldExists`), that the sum is the same in
whatever order the elements are taken (`AnyOrder`), and what follows: sums over
unions, images, differences (`SumUnion`, `SumImage`, `SumOfDifferences`). The
library's induction theorems take the predicate as a parameter, which the provers
cannot instantiate; here a *set* stands for the predicate, and a set of numbers has a
least one (`LeastNat`, from `WFMin`).

**Quantities** (`QuantityProofs`).

- `SlotsStayKept`, from `AllocationInv`: as the walk dates the trades, which may be
  by other trades' entries (`PairingTyped`: any pairing), an entry has at most
  `MaxOpen` open trades. When the results come in the order of the entries,
  moreover, a taken trade had fewer than `MaxOpen` taken ones before it that were not
  over, *also when these are cut off later* (`SlotsFound`); what the simulation
  holds was taken (`Simulated`). The cap at every entry does not give the slot by
  itself, since a trade may exit at its own entry and so be no part of the cap.
- `MoneyStaysConserved`, from `MoneyInv`: what is pending is exactly the credits of the
  trades that are owed for, *none of them held, each as its trade's exit makes it*
  (`MoneyTyped`), and cash, what is owed and what is held add up to the capital and
  the profits of all trades that are not held (`Balanced`). The credits are a set of
  records, so a sum over them is a sum over trades only because two trades never make
  the same credit (`CreditsSum`). One lemma moves money from held to owed to cash
  (`ClosingBalances`), one opens a position (`OpeningBalances`); every step is made of
  these two.
- `RowsStayTrue`, from `EquityInv`: a row is written from tables that were read before,
  and what they say of the times up to then the tables of now say too (`Extends`, in
  `ViewTrue` and `ToolTrue`), since a purchase is later than what was read, a sale is
  stamped with its time and keeps its profit, and prices of the past stand
  (`HistoryKept`). Hence a row that is true of what its writer read is true of what is
  (`StillTrue`). For the monitor's rows: one watch of each symbol at most is held, so
  as many symbols priced as are held is all of them (`AllPriced`); and its newest
  watches are all watches while no more were bought (`NewestAreAll`).

- `VolumeStaysCounted`, two invariants. `TicksInv`: what is stored, lost, buffered
  and in the batch under way counts bare trades only, until a session's first total
  is looked at; from then on it is at least what the total has grown by since
  and at most that total, in both cases with the bare trades added (`Within`). No
  equality holds, since yesterday's total makes the first difference of a session
  anything between. `ShadowInv`: what is in the logs, in the open minute and on the
  exchange ahead of what was seen is at most what was traded (`CountedOnce`); logs
  are ordered in time and end before the open minute (`Ordered`); the memory agrees
  with the counters, and a logged bar is in memory or older than all that is
  (`InMemory`, `Held`). A log line of which the memory knows nothing would be
  counted again at the next recovery, and a bar whose append fails is never
  appended later.

**Only model-checked**: every invariant and every action property of a passing
run, and the refinement `LifecycleSpec`, are stated by a theorem. What stays with
TLC is liveness under fairness, and with it ENABLED, which are out of the prover's
reach: `LifecycleFairSpec`, `SoldIsExited`, `SignalledIsExited`, `HeldIsProtected`,
`HeldIsAdopted` (`exit_live`), `HeldIsTracked`, `TrackedIsHeld` (`entry_live`),
`ArchivingEnds`, `EveryWatchSealed`, `EveryFollowUpCompletes`, `HeldIsStreamed`
(`components`). The properties of the runs that expect a violation do not
hold.

## 6. Where code and documents part

- `exit_reopened` — a watch the stream has exited is set back to holding by the
  monitor's pending mark; the fill price is lost.
- `exit_stuck` — a replacement sale that times out leaves `exit_in_flight`; if
  its fill event is lost, reconcile skips the watch for ever.
- `entry_double` — the position check does not prevent a double buy with two
  threads on one symbol.
- `invest_rerun` — a file of two symbols can be explored, and traded on, again.
- `cap_hard` — a backtest's results come symbol by symbol and are paired with entries
  in their own order, so that with interleaved symbols trades are admitted and
  evicted at other trades' times, and more run at once than the hard cap.

What else does not hold, found while modelling and therefore not among the
properties of the runs:

Positions and signals:

- `max_pos` is a hard cap in `docs/ALLOCATION-STRATEGIES.md:48`; it is exceeded
  by one per further exploring thread (`PortfolioEntry.HardCap`; the run
  `entry_skip` shows that it is by no more).
- With a restart or failing calls during a buy, `NoDoubleBuy` fails: the order
  that nobody knows any more fills after the next position check.
- With replacement the overshoot is not bounded by the number of workers: two
  can take the place of one victim, and the pending mark can set a victim that
  was exited meanwhile back to holding.
- A reconciliation between a buy's fill and the insertion of its watch adopts
  the position: two watches hold it.
- A force exit leaves the stop working without a watch that knows it; a bulk
  look-up that misses the position exits a held watch if an old sell is in the
  history and the second look-up fails.
- Without a persisted stop price and with `guard_stop_pct = 0`, the default, nothing
  can be computed to protect a watch with: `ensure_stops` reports it as UNPROTECTED
  (`alpaca_reconcile.py:541`) at each of its turns. Every adopted watch is of this
  kind; `HeldIsProtected` excepts those of `Unprotected`.
- A replacement's sale that times out leaves its victim marked as in flight. If it
  fills unseen, the watch holds for ever and counts towards the capacity
  (`exit_stuck`; `TrackedIsHeld` excepts the marked ones).
- With several queue workers two explorations of a symbol can pass the cooldown;
  with two threads on one article its signal can be evaluated twice; articles
  without symbols know no cooldown.
- A restart between the storage of a snapshot and its evaluation loses the
  signal, since a re-run skips the snapshot. The code prefers that to trading
  twice.

Configs, jobs and agents:

- `ConfigLifecycle.OneConfigPerAccount`: creating a config refuses an account
  that an active config has (`app.py:2222`, `models/live_config.py:7`), editing
  and activating do not; archiving one of two then sells what the other holds.
- `ConfigLifecycle.ArchivedIsFlat`: the question before an archived config is deleted
  says that its account "should already be flat" (`_positions_table.html:208`). A sale
  that fails is noted and passed over (`app.py:327`), a position that cannot be looked
  up has its watch exited by hand, since `get_position` answers `None` to an error
  too (`alpaca_broker.py:288`), and so has one that the dashboard's force exit leaves.
  What remains is sold by hand or adopted by whichever config has the account next;
  `SoldBeforeGone` speaks of the positions that a watch stands for.
- A request to add rules at X that times out can have created them
  (`x_stream_service.py:265`): they are known to nobody, deliver posts to every
  later burst and stay until a purge at the program's start or end.
- `TradeStreams.OneStreamPerAccount`: one stream per account
  (`alpaca_stream.py:4`) fails, as a stopped stream connects again, and two
  threads can start one each.
- `FollowUps.SpendWithinMax`: `config.py:169` calls the limit "max USD per
  follow-up"; it is exceeded by a collection's searches and by those of failed
  collections. `follow_up_max_concurrent` is read and never enforced.
- `Pipeline.AbortedIsCancelled`: `agent_pipeline.py:49` says an aborted agent's
  task is cancelled; it stays on the thread's loop and goes on spending.
- `AgentTools.OmittedIsTold`: the ledger leaves out tools whose results are
  "already in the prompt" (`agent_pipeline.py:490`); they are left out too when
  the prompt's own fetch failed and only the agent's call succeeded, and a price
  history of another period is.
- `x_search_limit` is "hard-enforced" (`explorer_agent.py:67`); calls of one
  response exceed it. What xAI reports of searches is taken from the last
  response only, a PydanticAI agent's searches never reach the pipeline's cost,
  and models of other names than grok, openai and gemini have no price. Calls
  of the response after the last turn are not executed. The wrapper of
  `get_movers` in `explorer_agent.py` passes three arguments to a function of
  two, so that it always fails.
- The explorer of two phases (`explorer.py`, which nothing imports at this
  commit): the calls that rank hypotheses are not counted as hops, an exception
  loses every trace and its cost, and the OpenAI provider makes no search of
  `google_search`.
- The legacy watcher: with the market closed throughout it exits nothing
  (`Online = FALSE`; `watcher.py:232` downgrades the forced exit); built without
  market data it exits at the entry price; a stale copy revives a sealed row and
  makes a second follow-up; "prevent retry storms" (`watcher.py:202`) does not
  hold for forced exits.
- `Switches`: a feed that is switched off between the watch loop's look at it and
  its scheduling (`orchestrator.py:1374`) stays watched. Files that arrive
  between the start of the subprocess and the scheduling are seen at the next
  start only. Nobody restarts a subprocess that has died. `--offline` is undone
  by the automatic loop, and a reading from before a toggle can end the override
  at once (`ManualStands` excepts the market turning after the reading).

Backtests, equity and data:

- `docs/ALLOCATION-STRATEGIES.md:48` calls a backtest's `max_pos` a hard cap. Even with
  results in the order of their entries it is exceeded by true times, as exits read
  hours earlier than entries.
- `TickBuffer.DeltaCapturesAll`: differences of totals capture "ALL volume"
  (`init.sql:10`), but the first total of a day is compared with yesterday's last:
  the update is dropped with the rest of its message (`collector.py:126`), or what it
  counts is cut short.
- A trade whose message has no total counts by its size (`init.sql:48`), and again
  in the next difference of totals.
- A backtest that runs for more than an hour is forgotten by the next request
  (`app.py:1493`), and its result is lost; an aborted one computes on
  (`app.py:1761`). With a warm cache an entry whose first bar comes more than
  seven days after the last entry has no data for ever (`backtest.py:843`), and
  a closed result is not looked at again when bars arrive for a day that was
  missing (`backtest.py:571`; `BacktestRuns` takes a load to bring every day of
  its range). A strategy's `min_hold` reaches the last bar at most
  (`backtest.py:3343`).
- Equity curves: two watches of one symbol defeat the guard that skips a config
  without a price, a backfill takes bearish watches for bullish ones
  (`equity_backfill.py:160`), the monitor reads the last 500 watches only
  (`live_monitor.py:1606`), the history's limit keeps the oldest rows
  (`database.py:1455`), the full script shares one config's prices with the next,
  and `backfill_equity_snapshots.py` zeroes what is unrealised in the equity but
  leaves its column. `RowsTrue` says of each writer what its rows are true of.
- `TickVdd`: in mode `bar_binary` a window decides otherwise than the trades in
  it, and `WindowDecides` excepts the mode. `ShadowVolume`: a removed symbol is
  counted on (`remove_symbol`); nothing instantiates the collector
  (`orchestrator.py:1411`).
- `MarketData.FiltersApply`: the volume, market cap and P/E filters of a live config
  (`live_monitor.py:1474`) look values up under names that the data service does not
  use, and never apply, though `live_monitor.py:747` has them apply with the keys of
  the backtest's page.
- `MarketData`: Schwab answers an unlisted symbol with zeros, which end the search
  for a price; a batch that Schwab answers in part is returned, class shares
  never match; a metric answered `None` is kept from the fallbacks' values; a
  loss gives a P/E of 0; fundamentals are "cached 1 hour" and kept for a day,
  also when nothing was found.
- `Knowledge`: patterns of a long-only time survive `ENABLE_SHORTING`
  (`store.py:244`); appending to `search_strategies.json` fails; defaults are
  written without the lock; a page that shows a torn file can save its error.
- `SnapshotFields`: a price that a follow-up adds is lost to a script's older
  row, and the archiver drops a live file that is created again after it was
  archived. Nothing calls `capture_prices_for_snapshot` at this commit.
- `OperatorRepairs`: `backfill_pnl_extremes.py:224` writes a watch's JSON without
  its column, so that one which exits or cools off meanwhile is refused by every
  later conditional write and never sealed. The price script writes back rows
  read minutes before, which reverts transitions; a monitor's older row loses the
  repaired price in turn. Candles of a symbol are merged over all its candidates,
  so that a price can be older than its own window
  (`backfill_exit_prices.py:154`); re-pricing leaves extremes that do not enclose
  the exit until the other script runs. A killed import leaves part of a
  portfolio, and a second makes another.
- `X_MAX_POSTS_PER_DAY` is a limit of each burst; a restart resets the count of
  the day's bursts.
- A trader.db that cannot be read counts as holding nothing, and the cool-off of
  its symbols begins; a symbol whose subscription fails to be sent is not
  subscribed again (`HeldIsStreamed` fails with `SendFails = TRUE`).
- The archiver deletes a file before the archive that holds it is closed, and
  keeps the part of a file whose reading breaks off, to delete the file in its
  next cycle. A start-up backfill takes the last files by their full path, so
  those of the directory that sorts last (`main.py`).

## 7. What is not modelled, and why

Quantities, limit prices, extended hours and the clean-up of remainders below a
share: they decide how much and when, not who writes what. In `LiveExit` a
signal may fire at any time, which covers every exit strategy; what the
strategies do with bars is `BacktestExits`. The arithmetic of indicators and
statistics, LLM conversations, market data, prompts and formatting are inputs.

Hazards seen and not covered: a snapshot's deletion in the dashboard removes the
watches bought on it (`database.py:184`), the manual override of an exit;
workers that start before the broker pool is connected (`orchestrator.py:1344`);
a burst's result that is attached to the exploration that asks next
(`orchestrator.py:709`); the transition to cooling off that writes back the
entry price it had read (`live_monitor.py:496`).

A follow-up's price that a script loses, and a watch torn by
`backfill_pnl_extremes.py`, are listed in section 6.

The event bus and the dashboard's stream of events (`sse.py` puts events on an
asyncio queue from other threads, so that they wait for the next ping) change
nothing but what a page shows. What a worker drops while the program is offline
is a file that `Investigation` takes never. Triage and the symbol filter are any
subset. Tracking configs are never sold by the monitor and have no account.
`alpaca_liquidate.py` and `fix_fractional_stops.py` trade past the program;
what they leave looks to it like a liquidation. Charts, statistics and pages, the clients'
HTTP, tokens and rate limits, LLM prompts, the evaluation of old snapshots
(`reflection/`, one process with a file of its own), evidence, settings, logging
and notifications have no protocol between writers. The directory `refs/` of the repository is vendored.
