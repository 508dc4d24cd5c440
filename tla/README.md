# OptDash in TLA+

OptDash watches Indian index options. A scheduler pulls market data every five
minutes, rates it, issues trade recommendations, tracks the positions the
trader accepts, and sweeps everything at 15:25. This directory models the
program's control logic in TLA+, checks it with TLC on small instances, and
proves what matters most for instances of every size with TLAPS.

Source paths below are relative to `src/optdash/`.

## 1. The system

| Component | State it keeps | Operations |
|---|---|---|
| Scheduler tick (`scheduler.py`) | `done_flags`, the locals of `tick()` | one tick per five minutes: pull, sweep or expire, gate, recommend, track, shadows |
| Trade journal (`ai/journal/`) | SQLite: `trades`, `shadow_trades`, `position_snaps`, `shadow_snaps`, learning tables | insert, accept, reject, expire, close; queries with an age limit |
| Trading endpoints (`api/routers/ai.py`) | none; learning report cache | `/accept`, `/reject`, `/close-trade`, reads |
| Expiry and position tracking (`ai/tracker.py`) | none beyond the journal | expire stale cards; theta stop, trailing stop, gate exits, IV crush |
| Sweep (`ai/eod.py`) | none | expire all cards, close all positions, finalise shadows |
| Shadow tracking (`ai/shadow_tracker.py`) | `shadow_trades` | outcome of skipped trades |
| Recommender and its rules (`ai/recommender.py`, `direction.py`, `pre_flight.py`, `quality.py`, `confidence.py`, `analytics/environment.py`) | none | guards, vetoes, scores, insert |
| Journal connections (`api/deps.py`) | two SQLite connections: one of the scheduler, through which the websocket reads, and one shared by all worker threads | implicit transactions, one writer |
| Ingestion (`pipeline/`) | watermark files, Parquet partitions | incremental pull, backfill, gap fill, writer |
| DuckDB gateway (`pipeline/duckdb_gateway.py`) | one connection with a lock, the view `options_data` | execute, fetch, refresh |
| Websocket feed (`api/routers/ws.py`) | none | a payload put together from several reads |
| Learning (`ai/learning/`) | none | aggregates over the journal |
| Analytics (`analytics/`) | none | aggregates of market data |

How they interact: the scheduler's tick is a coroutine of the API's event loop
(APScheduler, `max_instances=1`); between its awaits the event loop serves
websockets, and all the time a thread pool serves the synchronous endpoints. The
only thing they share is data: the SQLite journal (through two connections,
so that SQLite's write lock lies between them), the DuckDB view, and the Parquet
and watermark files, which the separate process `run_pipeline.py` writes too.

What is hard:

* **Check and write are apart.** Every endpoint reads a row's status, and later
  updates it `WHERE id=?` with no condition on the status; expiry, tracking and
  sweep work through rows they read earlier. Whatever the row has become
  meanwhile is overwritten.
* **Two guards at two moments.** The recommender reads the open trades, then the
  pending ones, then computes, then inserts.
* **Queries forget.** `get_pending_trades` and `get_open_trades` hide rows
  older than one and three calendar days. Weekends, holidays and a failed sweep
  push rows out of everybody's sight.
* **Time is HH:MM.** Differences of snap times know no dates and are cut at zero.
* **Failures are logged.** An exception in a tick leaves the connection's
  transaction open; a failed sweep still sets `done_flags`; a restart loses it.
* **Files and watermarks** are written in steps with crashes in between, by two
  processes.
* **Locks per call.** `LockedConn` locks `execute` and `fetch` separately; worker
  threads share one SQLite connection and thereby its transaction.

What makes each component correct:

* *Journal and scheduler*: at most one card per underlying; only positions are
  closed, and for good; stale cards are gone before new ones are issued; nothing
  is on display after the sweep; a shadow exists only for a skipped card; every
  row is settled in the end.
* *Tracker*: an exit and its snap are one commit; a stop that trails does not give
  way; the NO_GO count is of this position's snaps.
* *Connection*: a request leaves nothing uncommitted that would lock out the
  scheduler.
* *Ingestion*: no row behind the watermark is missing, and a row that is in a file
  stays there.
* *Gateway*: a thread gets the rows of its own query; data written becomes visible.
* *Rules*: calls and puts are judged alike, pieces of code that compute the same
  signal agree, and failed queries gain a card next to nothing.

`PROJECT.json` lists under `hazards` where each of these bites in the code.

## 2. Modules

| | Module | Models | Composes with | State |
|---|---|---|---|---|
| A | `TradeLifecycle` | scheduler tick, journal, endpoints, sweep, crashes | refines `RecommendationSlot` | done |
| A | `TradeLifecycleProofs` | safety of A for every instance | extends A | done |
| A | `OneRequestProofs` | what holds of A if requests come one at a time | extends A's proofs | done |
| A | `CommentProofs` | comments that A violates, proved without the cause of the violation | extends A's proofs | done |
| B | `Settings`, `Scoring` | from the rows of a snap to a verdict and a card: queries, direction vote, gate, confidence, pre-flight, quality | used by C | done |
| B | `ScoringProofs` | lemmas about B for every market | extends B | done |
| C | `Desk` | one session driven by a changing market: gate cache, stops, exits, shadows | extends B; the detail behind `RecIssue`, `TrackKeep`, `TrackClose`, `TrackShadows` of A | done |
| C | `DeskProofs` | exits, stops and shadows of C for every instance | extends C and B's proofs | done |
| C | `DeskScoreProofs` | what the scores promise, for every market | extends C's proofs | done |
| D | `Ingestion` | watermark, live pull, backfill, gap fill, writer, two processes, failures and kills | - | done |
| D | `IngestionProofs` | safety of D for every instance | extends D | done |
| E | `ApiProcess` | what the threads of the API share: DuckDB lock, cursor and view, SQLite transaction, the websocket's payload | the detail behind `Write` of A; reads what D writes | done |
| E | `ApiProcessProofs` | safety of E for every instance | extends E | done |

Three sides of one process are in modules of their own because each needs
another grain: A has every read and write of the journal as a step and leaves
the reasons open; C decides by prices and verdicts and takes a read with its
write; E has single statements and locks and leaves the tick out.

What remains: for D a liveness property (every archived day is in the files in
the end, for days whose sentinel was not written early); the purge of raw files
and the cached learning report.

## 3. TradeLifecycle

### State

| Variable | Code |
|---|---|
| `status` | `trades.status`; `"FREE"` is an id not yet inserted |
| `row` | `underlying` and `snap_time` of a row, fixed by the INSERT |
| `age` | calendar days since `trade_date`, cut at `OpenDays + 1`, from where on every query treats rows alike |
| `accepted`, `exited` | `accept_snap_time` and `exit_reason` are set |
| `shadows` | number of open and closed `shadow_trades` rows of a trade |
| `txn` | the scheduler's connection has an open write transaction |
| `snapNow`, `ticked` | wall clock in five-minute buckets; the bucket has had its tick |
| `doneToday` | `done_flags[today]` |
| `phase`, `tickSnap`, `pendingRead`, `openRead`, `todo`, `cur` | where the running tick is, and its locals |
| `req` | per worker thread: the row whose status it has checked and not yet written |
| `swept` | history: a sweep of this session has been committed |

### Steps

One tick, in the order of `scheduler.tick`:

| Phase | Steps | Code |
|---|---|---|
| `idle` | `TickStart` | market-hours guard, `snap_time` (`scheduler.py:200`) |
| `pull` | `SweepReadPending`, `SweepDone` or `ExpireRead`, decided after the awaited pull with the clock of that moment | `scheduler.py:240-317` |
| `eodOpen`, `eodWrite` | `SweepReadOpen`, then `SweepCommit` (one transaction) or `SweepFails` | `ai/eod.py:12-109` |
| `eodShadows` | `FinalizeShadows`; sets `done_flags` even if it fails | `ai/eod.py:112`, `scheduler.py:304` |
| `expire` | `ExpireOne` per row read, `ExpireEnd` | `ai/tracker.py:209` |
| `recommend`, `recPending`, `recIssue` | `RecReadOpen`, `RecReadPending`, `RecIssue` or `RecDecline`, for every underlying | `ai/recommender.py` |
| `track` | `TrackRead`, `TrackKeep` or `TrackClose` per row, `TrackEnd` | `ai/tracker.py:16` |
| `shadows` | `TrackShadows` | `ai/shadow_tracker.py:19` |
| any | `TickFails` | `scheduler.py:370` |

Endpoints are a check (`AcceptCheck`, `RejectCheck`, `CloseCheck`) and a later
write (`AcceptWrite`, `RejectWrite`, `CloseWrite`), with anything in between.
A write waits while the scheduler's connection holds SQLite's write lock, and
may give up (`RequestFails`). `Crash` loses the tick, the requests, `done_flags`
and uncommitted rows, keeps the journal, and restarts in the same bucket.
`AdvanceSnap` and `NewDay` move the clock; `Gaps` are the calendar days between
sessions.

### What is abstracted

* Whether the recommender's rules pass, and whether an exit rule applies, is a
  free choice (`RecIssue` or `RecDecline`; `TrackKeep` or `TrackClose`): no
  property depends on prices. `Desk` makes that choice as the code does. Prices,
  PnL and snaps are not kept, but the transaction a snap opens is (`txn`).
* The connection that worker threads share is taken as if every request had its
  own; what its shared transaction does is in `ApiProcess`.
* The queries' `LIMIT 50` is never reached by one card per underlying and snap.
* At most one tick starts per bucket; ticks and requests do not last overnight.
* `/accept` may be given any row of the journal, not only those displayed.
* A commit that SQLite cannot write is rolled back by SQLite itself, so an INSERT of
  the recommender either is committed or leaves nothing behind (`RecDecline`).
* An `UPDATE` of `/accept` or `/close-trade` that gives up on the lock leaves the
  endpoints' connection in a transaction, whose later writes fail at once: a request
  may therefore fail at any time (`RequestFails`). That its reads are of an old
  snapshot from then on is left out.

### Bounds

`MaxTrades = 2`: all properties speak about one row or about two rows of one
underlying, and two rows suffice for a card issued beside another one. `LastSnap
= 3`, `EodSnap = 2`, `ExpirySnaps = 1`: a tick before the sweep that expires the
card of an earlier one (in `lifecycle_two_requests` and `lifecycle_one_open`
`ExpirySnaps = 2`, so that a card is still on display when the next tick
recommends), the sweep's bucket, one more tick in market hours after it (15:25
and 15:30 in the code), and the bucket after hours. `PendingDays = 1`, the value
in the code; `OpenDays = 3` as in the code, except in the run with two requests
(1, with gaps of 1 and 2 days, which passes both limits, too). `Gaps` holds a
night, a weekend, and a weekend with a holiday, which passes both limits. A
single underlying is enough where only rows of the same underlying interact;
liveness takes two.

### Runs

| Run | Instance | Shows |
|---|---|---|
| `lifecycle_two_requests` | two requests at a time, every fault (crash, failed tick, failed sweep) | `OnePendingPerUnderlying`, `ClosedWasAccepted`, `NothingPendingAfterSweep`, and `SlotSpec`: what no race with the endpoints can break |
| `lifecycle_one_request` | one request at a time, ticks may be missed, every fault | `StaleExpiredBeforeIssue`: what the recommender meets after the expiry step is fresh; `ShadowOnlyOfSkipped`, `NeverReopened`: a request alone can race with the scheduler and still no closed trade is reopened and no position has a shadow |
| `lifecycle_liveness` | two underlyings, every bucket ticked, ticks may fail | `PositionsClose`, `RecommendationsResolve`, `ShadowsClose`; `PriorSessionExpired`, which only failed sweeps break |
| `lifecycle_one_open` | no fault at all | violated: `OneOpenPerUnderlying` |
| `lifecycle_weekend` | failed sweep, weekend | violated: `PriorSessionExpired` |
| `lifecycle_failed_tick` | failed tick | violated: `NoTransactionBetweenTicks` |

`ShadowOnlyOfSkipped` and `NeverReopened` do not hold with two requests at a
time: `/accept` and `/reject`, or `/accept` and `/close-trade`, of one row can
both pass their checks, and the later write wins. With one request at a time they do
hold, although the scheduler still races with it: the scheduler only ever
expires cards and closes positions, and every path from a closed row back needs
a second request that read it earlier.

`PositionsClose` speaks of positions that are there before the sweep of some
session while the queries still show them. One case is left out by name: an
acceptance written after the day's sweep, before a weekend with a holiday. Four
days later `get_open_trades` hides the position, and it stays open for good.

No property forbids that the later of two writes wins: `/close-trade` and the
tracker overwrite each other's exit record, and the expiry step or the sweep sets
a row to EXPIRED that was accepted after they read it. The model takes these
steps; the code promises nothing about them.

The three violations are disagreements of the code with its own comments:

* **Two positions in one underlying.** `recommender.py` reads the open trades,
  then the pending ones. If the `/accept` of a card still on display commits in
  between, neither read sees the trade, a second card is issued and may be
  accepted. The comment F9 in `scheduler.py:157` relies on the contrary.
* **Monday's orphan.** A card that a failed Friday sweep left behind is three
  days old on Monday, and `get_pending_trades`, which feeds the expiry step,
  hides it. The comment P0-2 in `tracker.py:225` says it is expired at once.
* **A transaction left open.** Snaps are inserted without a commit; if the tick
  fails before the commit of `tracker.py:202` they stay uncommitted, holding
  SQLite's write lock, until some later tick commits.

### Fairness

Weak fairness of `Scheduler`: the event loop runs a tick that has started to
its end, and APScheduler starts one in every bucket (`Punctual = TRUE` says that
none is missed, `AdvanceSnap` is fair because time passes). Weak fairness of
`Answer(r)`: a thread pool's thread goes on. Strong fairness of `NewDay`: the
calendar does not wait for the trader, who may keep sending requests that
disable this step now and again. Nothing is assumed of the trader, of faults, or
of which rules pass. Liveness needs that sweeps succeed (`Faults` without
`"sweep"` and `"crash"`): after a failed sweep rows can be lost from sight, as
`lifecycle_weekend` shows.

## 4. Ingestion

### State and steps

BigQuery is external: rows of the running day are in a live table, and at 06:35
a job moves them to an archive table (`Publish`, `NewDay`, `Sync`). Two
processes copy rows into one Parquet file per day and underlying: the API
(`api/deps.py`, then the scheduler) and `run_pipeline.py`.

| Variable | Code |
|---|---|
| `today`, `synced`, `published` | what BigQuery shows |
| `store` | rows in the Parquet files |
| `wmFile`, `tmp` | `watermark.json` and `watermark.tmp`: readable or torn, and their value |
| `stage`, `step` | `run_backfill`, `run_gap_fill` or the live pulls, and the line they are at |
| `todo`, `wm`, `batch`, `newWm` | the locals `pending` or `all_dates`, `wm`, the frame not yet written, `new_wm` |
| `handle` | which file the handle opened by `write_text` refers to: a rename moves the file away under it |

| Step | Code |
|---|---|
| `Start` | `run_backfill` lists the days without `NIFTY.parquet`, or is disabled (`--gap-only`, `ENABLE_BACKFILL`) |
| `Load` | `wm_load()`; a gap fill derives its days from it |
| `Pull`, `PullNothing` | one query of `bq_client.py`; no rows, no new watermark |
| `WriteSnap` | `write_snap`: the rows of one snap of one underlying replace those in the file, under its `FileLock` and with an atomic rename |
| `Written` | `new_wm > wm` decides whether to save |
| `OpenTmp`, `FillTmp`, `Rename` | `save()`: `write_text` truncates and writes, `replace` renames |
| `EndOfStage` | backfill, gap fill, live pulls, in this order |
| `LoadTorn`, `RenameLost`, `IOFails` | the exceptions, and `Raise`: who catches them (`gap_fill.py:111` per day, `backfill.py:88` nobody, `deps.py:140` and the live loops all) |
| `Crash` | the process is killed or stopped, and may `Start` again |

### What is abstracted

* A row is an underlying, a day and a record time: strikes and values do not
  matter. Days are trading days. Record times have the resolution of the
  watermark (whole seconds; `to_str` cuts the rest off, so rows of the last
  second are pulled and merged once more).
* Every underlying has a lot size. Rows of one that has none are skipped and still
  move the watermark (`processor.py:92-95`): they are never copied.
* All underlyings of a record time become visible together, and - with
  `WholeSnaps` - all record times of a snap. The latter is an assumption about
  the feed that the code relies on: a pull starts behind the watermark and
  replaces whole snaps, so a snap that shows in two parts loses the first. With
  `WholeSnaps = FALSE` TLC finds that loss for `NothingMissingBehindWatermark`.
* The archive has a day's rows as soon as the live table has lost them, and
  every morning's move succeeds.
* `WriteSnap` is one step because of the lock and the rename of the Parquet file.
* The computed columns (greeks, tiers) are left out, and the refresh of the
  DuckDB view is in `ApiProcess`. `run_backfill_one_day` has no caller.

### Bounds

Two underlyings (the sentinel and one that comes after it), two days (one in the
live table, one in the archive), three record times in two snaps (a snap of two
times is what could be cut), two processes. That is one pull that overtakes
another, over the change of the day, and the sentinel before the rest.

### Runs

| Run | Instance | Shows |
|---|---|---|
| `ingestion_both` | both processes, failures and kills anywhere | `NothingMissingBehindWatermark`, `RowsStay` |
| `ingestion_sentinel` | one process, killed | violated: `SentinelMeansComplete` |
| `ingestion_watermark` | both processes, no fault | violated: `WatermarkReadable` |

`NothingMissingBehindWatermark` is the reason why the pipeline may be restarted
at all: whatever is older than the watermark will not be pulled again, so it
must be there. It says so of the watermark's own day; earlier days are the
backfill's business, and not always well looked after:

* **The sentinel comes early.** `NIFTY.parquet` exists from the first snap on. A
  process that stops in the middle of a day, or is killed in a backfill, leaves
  a day that no later backfill visits; `backfill.py:32` takes the sentinel for
  day-level completion.
* **The watermark file can be torn.** Both processes write the same
  `watermark.tmp`; one may rename it between the other's truncation and write.
  The next `load()` fails until some save repairs the file; `watermark.py:64`
  says a reader always sees a complete file. What the file says when it is readable
  is never too late a time, and that is proved; so is that a process on its own
  never tears the file, wherever it is killed.

The watermark does go back: the slower process saves what it compared with the
value it had read. It then pulls again what is there already, which
`RowsStay` shows to be harmless.

## 5. Scoring and Desk

### Scoring

A market is a record of what `options_data` holds for one underlying at a snap,
in integers: hundredths for ratios and exposures (thousandths for the vanna
exposure, which is classified before it is rounded), paise for premiums. Every
definition of `Scoring` is one query, vote, condition or rule, with its
thresholds in `Settings`:

| Definitions | Code |
|---|---|
| `NetGex`, `MaxPainDistance`, `Velocity`, `AtmObi`, `FuturesObi`, `PcrDivergence`, `Ivp`, `TermShape`, `VexTotal`, `VexSignal`, `DealerOclock`, `TopStrikes` | the queries of `analytics/` that decisions read, each with what it returns without rows or when it raises (`failed`) |
| `SpikeActive`, `Votes`, `Bias` | `ai/direction.py` |
| `Points`, `GateScore`, `Verdict` | `analytics/environment.py` |
| `Confidence`, `PreFlightFails`, `Quality`, `Cards` | `ai/confidence.py`, `pre_flight.py`, `quality.py`, `recommender.py` |

Two Python idioms are kept, as they decide: `x or d` takes zero for a missing
value (`OrElse`), and a query's own `except` turns a failure into a default. So a
contract that expires today has seven days to go for `DealerOclock`, and a peak of
the exposure that cannot be read (`Peak`) is zero. A query that fails does so each
time it is run at that snap. A futures row without one of its prices counts as 0,
as a NULL does in `_compute_vcoc`. Ties of Python's `round` are taken away from zero.

### Desk

| Variable | Code |
|---|---|
| `now`, `ticked`, `swept` | the snap of the clock, whether it has had its tick, `done_flags` |
| `phase` | the step of `tick()` that comes next |
| `market`, `noGo` | the rows of the snap; the sides the gate judges NO_GO on them |
| `gateCache` | the verdict of step 2, if it found a position |
| `trade`, `snaps`, `shadow` | `trades`, `position_snaps`, `shadow_trades` |
| `buffer` | snaps inserted with `commit=False` |
| `quote` | the newest price of each contract, today |

`TickStart` chooses the market of the snap and expires stale cards, `GateCache`,
`Recommend`, `Track` (or `TrackFails`, after the insert), `TrackShadows` are
steps 2 to 5 of the tick, between which the trader's `Accept`, `Reject` and
`Close` and a `Crash` may come. `Sweep` takes place or is rolled back, in each of
its two parts. An endpoint waits while `buffer` is not empty: the scheduler then
holds SQLite's write lock.

### Run `desk`

NIFTY, two cards, three snaps tracked. Before the first card a tick may meet any
of some 2,900 markets: all combinations of the five votes with rising, falling,
spiking, missing and priceless futures rows; of the conditions without a direction; of
the open interest at three strikes; of failed queries. They stand on both sides of each
threshold. After it the market is one that favours calls or nothing, or has no
rows. The times lie on both sides of a card's expiry, of 14:00 and of 14:30; the
quotes below the morning's stop but above the one it sinks to with the decay, in a
crush, at two gains that let the stop trail, and at the target. Three snaps are what a
sustained NO_GO after a failed tick needs, and a stop that rises with a peak between.

| Property | Says |
|---|---|
| `MirrorBias` | calls and puts are judged by the same measure, except for put-call divergences between the two thresholds of `config.py:290` |
| `SpikeCoversVelocity`, `GateAgreesWithVote` | pieces of code that compute the same thing agree: batch query and velocity; the gate's exposure points, the vote and the confidence's `vex_signal` |
| `FailuresEarnThreePoints` | silently failed queries can gain at most three conditions: the term structure, Dealer O'Clock and, if only the day's peak cannot be read, the declining exposure |
| `MaxPainBalances` | the strike of maximum pain, by a definition without sums of payouts |
| `ExpiryCardsAreStrong` | a card on a contract of today or tomorrow has GO, grade C or better, and is not issued after 14:30 |
| `ExitIsRecorded` | the tracker's exit and its snap are one commit, and nothing follows |
| `SustainedNoGo` | an exit for NO_GO has two snaps of this position behind it, whatever the cache of step 2 held |
| `StopRisesInGain` | between two snaps inside the gain that activates the trail the stop does not sink, whatever a failed tick or a crash did in between |
| `ShadowsDecisive` | a shadow that hits stop or target is told apart as good skip or clean miss |

That an underlying has no card beside a position is not stated here: `Issue` takes the
guards, the analytics and the insert in one step, so it would hold by that. With
these moments apart it is false (`lifecycle_one_open`).

### What is abstracted

* Averages and sums over strikes are inputs: which aggregate a market has, not
  how SQL computes it. Only the max pain, whose definition is an algorithm, has
  the chain by strike.
* Every card has the same premium and theta and is accepted at that premium.
* A missed tick is an `Advance`; the sweep of 15:25 is the last tick.
* `IV_CRUSH` needs a fall of the volatility beyond the threshold, a flag of the
  quote.
* A read and its write are one step, the recommender's guards, analytics and insert
  among them; for their interleavings see `TradeLifecycle`.
* It is one session, so the newest snaps are the last inserted. The code sorts
  them by HH:MM without a date (`tracker.py:311`): rows of several days would mix,
  and a bucket ticked twice after a restart has two rows.
* The stop and the target of a card are rounded to the paisa, as they are stored.

## 6. ApiProcess

### State and steps

| Variable | Code |
|---|---|
| `dirs`, `view` | the day directories on disk in the rolling window, and those the view was created over, by age in days |
| `lock`, `result` | `_view_lock`; the rows the shared connection holds, by the thread that executed |
| `globs` | the local of `refresh_views` |
| `eod`, `excused` | today's end-of-day refresh: due, tried, or none, as on weekends and holidays; history: a failure today |
| `base`, `work` | the journal as committed and as the endpoints' connection sees it; they differ while a transaction is open |
| `doing`, `pc` | the trade a worker is about to settle; where each thread is |
| `payload` | what the websocket has read so far |

The threads are the event loop (websocket, end-of-day refresh), the thread of
the tick's pull (`asyncio.to_thread`), and the workers of FastAPI's pool.
`Execute` and `Executed` are `LockedConn.execute`, `Fetch` is what `__getattr__`
delegates without the lock. `RefreshList`, `RefreshStart`, `RefreshDone` and
`RefreshFails` are `refresh_views`: directories listed, lock taken, view
replaced or not. `Pull` and `PullFails` are the first rows of a day,
`OtherProcessWrites` the same by `run_pipeline.py`, which has no connection to
refresh, `EodRefresh` the end of the sweep, `NewDay` midnight. `RejectInsert`,
`RejectUpdate`, `Commit` and `Rollback` are the statements of `/reject`,
`AcceptUpdate` and `Commit` those of `/accept`; the connection is shared, so
each `Commit` or `Rollback` is one of everything that is in its transaction.
`WsBegin` and `WsSend` are the first and the last read of a payload.

### Bounds

Two workers, both of which may be in a query or in an endpoint: two requests write
on the one connection. A window of two days: a partition that was missed can be
found, or leave the window unseen. One trade, which both requests may settle.

### Runs

| Run | Instance | Shows |
|---|---|---|
| `api_process` | all threads, failed pulls and refreshes, the second process, restarts | `NoQueryInSwap`: no query runs while the view is replaced. `TodayInView`: after the pull the day's partition is in the view unless something has failed or the other process was first. `NothingLeftUncommitted`: however two requests' statements fall into each other's transaction, none is left open when they are answered. `PayloadShowsOnce`. `PartitionsSurface`: what the view has missed does not stay missed |
| `api_shared_cursor` | two workers' queries | violated: `FetchesOwnRows` |

**Rows of another query.** `LockedConn.execute` releases the lock before its
caller fetches. The connection keeps one result, so a second thread's execute
in between gives the first thread the second one's rows, or none.
`duckdb_gateway.py:153` says the connection is never accessed concurrently; that
holds for each call, not for the pair.

`TodayInView` is the reason for the order in `processor.py:354`: whether a
partition is new is asked before the file is written. Its exceptions are real:
when `run_pipeline.py` makes the directory first, or a refresh fails, the API
does not see the day until the sweep's refresh.

### Fairness

Weak fairness of each thread that has begun a query or an endpoint, and of
`NewDay`. Strong fairness of `EodRefresh` and of each refresh that has begun:
they wait for a lock that others take again and again, but never keep.
`Punctual`: no session passes without its sweep; days without a session are free to
follow one another. Strong fairness of
`RefreshDone(Loop)`: not every end-of-day refresh fails; a file that stays
unreadable for ever would keep every partition invisible.

## 7. Proofs

### TradeLifecycle

`TradeLifecycleProofs` proves, for every number of underlyings, concurrent
requests, rows, buckets and every choice of limits, gaps and faults that meets
`ConstantsAssumption`:

| Theorem | Property |
|---|---|
| `TypeCorrect` | `TypeOK` |
| `OnePending` | `OnePendingPerUnderlying` |
| `ClosedAccepted` | `ClosedWasAccepted` |
| `StaleExpired` | `StaleExpiredBeforeIssue` |
| `SweepIsFinal` | `NothingPendingAfterSweep` |
| `ImplementsSlots` | `SlotSpec`, that is `Spec => Slot!Spec` |

They rest on one inductive invariant, `IInv`. None of the properties is
inductive, because each depends on what was read earlier:

* `FreshIds` - an id not inserted yet is in nobody's hands: no read set, request
  or mark refers to it. Needed wherever an insert could revive a stale reference.
* `SlotEmptyBeforeIssue` - from the second guard to the insert, the underlying
  has no card. It survives all requests because (`RowStep`) every step but the
  insert moves rows only away from GENERATED.
* `OnlyAcceptedAreClosed` - rows read as open, and rows a close request has
  checked, were accepted, and stay marked as such even if their status changes.
* `NothingStale`, `StaleAreBeingExpired` - in the expiry step the stale cards
  are among those read and not yet handled; after it there are none, as neither
  the date nor the tick's snap changes until the tick returns.
* `SweepCoversPending`, `SweptStaysOver` - the cards on display when the sweep
  commits are among those it has read, since after the sweep time the scheduler
  issues none; and after the sweep the clock never reads less.

Most lemmas go by a classification of the steps: `RowsMoveOn` or `Issues` for
the rows; `Aside`, `AtRest` or `Advances` for the tick's position. The
refinement maps a card's issue to `Issue`, every other step to `Resolve` or a
stutter; the initial states correspond.

`OneRequestProofs` proves two more under the assumption that requests come one
at a time, `OneRequestAtATime == \A q, r \in Requests : q = r`:

| Theorem | Property |
|---|---|
| `ShadowsOfSkipped` | `ShadowOnlyOfSkipped` |
| `ClosedStayClosed` | `NeverReopened` |

Without the assumption both are false: two requests may pass the check of one
row, and the second writes over what the first has written. With it, the
rows a request has checked can only be touched by the scheduler, and all the
scheduler does to a card is to expire it: `CheckedAreUntouched` says that such a
row is a card or an expired one, with no mark of acceptance or exit and no shadow;
`NewAreUntouched` says the same of ids and cards. Both are inductive together
with `IInv`, which is needed for the rows the tick closes.

`CommentProofs` is about the comments the code violates. Each violation has one
cause, and without it the comment is right, for every number of underlyings,
trades and concurrent requests:

| Theorem | Property | Holds if |
|---|---|---|
| `TransactionsEndWithTheTick` | `NoTransactionBetweenTicks` | no tick fails |
| `SweptSessionsLeaveNothing` | `PriorSessionExpired` | every bucket is ticked and no sweep fails or is cut off by a crash |
| `ShortGapsAreExpired` | `PriorSessionExpired` | every bucket is ticked, only sweeps fail, the sweep is not in the first bucket, and no two sessions are further apart than `PendingDays` |

The last two say together that, without crashes and missed ticks, it takes a
sweep that failed *and* a weekend to lose a card; each alone is repaired.
`SweptInv` follows a session to its sweep: from the sweep's time on the first
tick that returns has swept, so a night finds no card. `FirstTickExpires`
follows a card over the night: its age is the gap, so the query still shows it,
and the expiry step of the first tick removes it before the tick can return.
Both need `IInv` and, as lemmas, what a step does to the session
(`SessionSteps`) and to the age of cards (`AgesOfGenerated`). The run
`lifecycle_liveness` checks `SweptSessionsLeaveNothing` on its instance, and
`lifecycle_weekend` and `lifecycle_failed_tick` show what happens without the
conditions.

Only model-checked: liveness, as fairness is beyond the prover, and the
violations. `OneOpenPerUnderlying` has no such theorem: its cause is any
acceptance between the two reads, and without those nothing of interest is left.

### Ingestion

`IngestionProofs` proves, for every number of processes, underlyings, days and
record times and for all faults:

| Theorem | Property | Assumes |
|---|---|---|
| `IngestionTypes` | `TypeOK` | - |
| `NothingMissing` | `NothingMissingBehindWatermark` | `WholeSnaps` |
| `RowsAreKept` | `RowsStay` | `WholeSnaps` |
| `AloneAlwaysReadable` | `WatermarkReadable` | one process, `\A p, q \in Procs : p = q` |

The inductive invariant, `IInv`, says where watermarks come from. Every value
that may become the watermark - in the file, in the temporary file, in a
process - is *sound*: the rows of its day up to it are in the files, and it does
not cut a snap in two. The second half is what makes the first inductive: a pull
from a watermark at the end of a snap brings whole snaps (`PulledWhole`), so
replacing snaps only adds rows (`StoreGrows`), so no sound watermark becomes
unsound. `NewWatermarksSound` follows a pull until it is saved: its rows are in
the files or still in the batch. `PullSound` is the induction's core: of the
rows up to the latest one pulled, those the query left out lie behind the old
watermark on the same day. That the two saves may get mixed up does no harm,
because every value either of them can write is sound.

`AloneAlwaysReadable` is what `watermark.py:64` promises, and holds for all faults
as long as nobody else saves: `ReadableInv` says that a process fills the file it
has opened and renames a file it has filled. A process that is killed in between
leaves a torn temporary file, which its next save truncates anyway. The run
`ingestion_watermark` shows that two processes are enough to break it.

Only model-checked: the two violations, and that `WholeSnaps` is necessary.
`SentinelMeansComplete` fails with one process, too, so there is no condition
short of "never stopped" to prove it under.

### Desk

`DeskProofs` proves, for any number of cards and snaps, any premium, decay and
quotes, and any market:

| Theorem | Property |
|---|---|
| `DeskTypes` | `TypeOK` |
| `ExitsRecorded` | `ExitIsRecorded` |
| `NoGoIsSustained` | `SustainedNoGo` |
| `StopsRise` | `StopRisesInGain` |
| `ShadowsToldApart` | `ShadowsDecisive`, if `Premium > 1` |

`ExitInv` says the two about exits of every trade, and that only closed trades have a
reason. `OthersKeep` shows that no step but its own exit gives a trade one of the
tracker's reasons, and that a trade which has one is left alone with its rows: the
commit that every other write is followed by has nothing of it to write.
`TrackIsSound` is the exit itself.

`StopInv` is about the rows the tracker sees, the buffered ones included, as those
are what a later tick looks for the peak in. It needs three facts. A card's snap time
is past (`CardsArePast`), so that the theta stop is not above the premium, which any
trail inside the gain reaches (`GainIsLarge`). No stop is above both the premium and
nine tenths of an earlier quote (`Bounded`). And rows are only appended or, by a
crash, taken from the end (`SeenMoves`). Then the trail can only follow a peak upwards
(`NextRowIsSound`), which rests on `PeakIsQuoted`, that the highest quote is that
of a row (by the least prefix without a largest snap, as there is no induction).

`HitGains` relates the card's stop and target, set as multiples of the premium in
`config.py` and rounded to the paisa, to the per cents of `shadow_tracker.py`. For a
premium of one paisa the rounded stop is the premium itself; for any other they
stay apart.

The settings themselves are constants of the code (`AI_SL_PCT` 35,
`AI_TARGET_MULT` 1.5); the proofs are about these values.

`DeskScoreProofs` proves what the scores promise, for every market (any figures,
rows, chain of strikes, history and set of failed queries that `IsMarket` admits),
every underlying and every time, where TLC checks the 2,900 markets of `MCDesk`:

| Theorem | Property |
|---|---|
| `SidesAreJudgedAlike` | `MirrorBias` |
| `SpikesCoverVelocity` | `SpikeCoversVelocity` |
| `GateAndVoteAgree` | `GateAgreesWithVote` |
| `FailuresEarnLittle` | `FailuresEarnThreePoints` |
| `PainIsBalanced` | `MaxPainBalances` |
| `ExpiryCardsPass` | `ExpiryCardsAreStrong` |

The invariant is small, `ReadInv`: between the read of a market and the gate the
tick holds a market and the sides the gate denies on it. Everything else is a
lemma about functions of the market, in `ScoringProofs` where it needs no
variables of `Desk`:

* `VelocityIsSpike` - when the newest row is there, the velocity's window and the
  batch query's for that row have the same oldest row, whichever rows are missing.
* `MirrorFields` to `GateMirrors` - what the mirror image does to each query,
  then to each vote, to both weights, and to each condition.
* `FailedOrSound` - query by query, a failed one returns what earns nothing, and
  any other what it would have returned; `SilenceEarnsNothing` adds them up by
  condition, with the exception of the peak.
* `GateAgrees` - rounding moves no vanna exposure over a threshold that it was not
  beyond, as the thresholds have no more digits than the rounded total.
* `ExpiryCardIsStrong` - what pre-flight rule 7 asks of a card near its expiry is
  enough for a GO and for grade C, and more than the closing cap allows.
* `PainMoves` - moving from one strike to the next changes the payout by the
  distance times (calls up to here minus puts from there); `PainBalances` applies
  that on both sides of the first minimum. Sums over chains of any length would take an
  induction, which is out of reach; `TotalIsSum`, `TotalAdds` and `TotalScales`
  go by the least prefix for which the statement fails.

The settings are the code's values (thresholds are defined in `Settings`, not
constants), and the theorems hold for these. What the scores promise is stated
as an invariant of `Desk`, at the gate of a tick before the first card, where the
run checks it.

### ApiProcess

`ApiProcessProofs` proves, for any number of worker threads and trades, any
lookback and all failures:

| Theorem | Property | Assumes |
|---|---|---|
| `ApiTypes` | `TypeOK` | - |
| `QueriesOutsideSwap` | `NoQueryInSwap` | - |
| `TodayIsVisible` | `TodayInView` | - |
| `PayloadsConsistent` | `PayloadShowsOnce` | - |
| `RequestsEndClean` | `NothingLeftUncommitted` | - |

* `HoldersHaveLock` - who executes or replaces the view holds the lock.
* `TodayComes` - today's partition is in the view, or the puller's refresh is still
  to come. It needs `OneRefresh`, that the event loop refreshes only after the
  day's pulls, and `GlobsCurrent`, that what was listed for the view is still all
  there is: a second refresh with an older list could take the partition out again.
* `SettledIsSeen`, `OpenWereSettled` - a trade the committed journal has settled is
  settled in the endpoints' view, so what the websocket has read as open is not
  pending in its last read, even if that sees uncommitted rows.
* `CleanInv` - a thread between the statements of an endpoint has a trade to settle
  (`WritersSettle`), so it counts as a request at work; and it cannot leave these
  statements but by a commit or a rollback, which ends the transaction for
  everyone. Whoever is answered last leaves none behind.

Only model-checked: `PartitionsSurface`, which needs fairness, and the violation.

## 8. Where comments and documents differ from the code

The six findings have a run each. The following differences were met on the way;
the modules follow the code in each of them, and no property asserts either side.

* `scheduler.py:219-220`: after a failed pull the tick "continues with last available
  data so recommendations and gate scores are not blocked". Every query filters by
  the snap of now, which has no rows: the bias is NEUTRAL and each side NO_GO, and
  two such ticks close a position with GATE_NO_GO at the last price there is.
* `Docs/Part6_Position_Tracking_Alerts.md:183`: the trailing stop "never decreases
  once set". It sinks back to the theta stop when the gain falls below the
  activation (`tracker.py:94-95`). `StopRisesInGain` is what remains.
* `tracker.py:170-172`: THETA_SL_HIT for an option "decayed past the theta-adjusted
  SL", SL_HIT for the "plain fixed SL". The code gives SL_HIT only at a price equal to
  the stop, and THETA_SL_HIT to all below, with or without decay.
* `recommender.py:39-46`: "A failed analytics call BLOCKS the recommendation". The
  calls catch their own exceptions and return defaults, so nothing is blocked;
  `FailuresEarnThreePoints` bounds what that gains.
* `pre_flight.py:79-84`: with Fix PF-1, days to expiry of 0 are "correctly blocked" in
  Dealer O'Clock. The flag itself comes from `row[7] or 7` (`vex_cex.py:39`), which
  is off on the day of expiry.
* `trades.py:243-244`: the two writes of `/reject` are "atomic". With two requests on
  the shared connection a commit of one takes half of the other's rejection with it,
  and a rollback of one can discard an acceptance which is then answered with success.
* `scheduler.py:246-248`: what a failed sweep leaves is "swept by the next startup's
  gap fill". The gap fill pulls data and closes nothing.

## 9. Not modelled

See `components` in `PROJECT.json` for each part and its reason. In short:
the analytics series, by-strike queries and alerts are floating-point SQL that
only displays read; BigQuery is I/O; the frontend polls and keeps nothing the
server relies on; narrative, the learning report and formatting carry no
control; `scripts/pipeline` is an older copy of `optdash/pipeline` that the
application does not import; purging raw files and the trading calendar are
housekeeping, the latter present as `Gaps` and as trading days. Connections,
heartbeats and reconnects of the websocket carry no journal data.
