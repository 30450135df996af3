# TLA+ verification of the VN30F trading system

This directory holds TLA+ modules, TLC configurations and TLAPS proofs about the
program in `src/` (opening-range-breakout trading of the VN30F index future:
backtester, optimiser and paper trader, in Python).  Paths below are relative
to the repository root.

## 1. The system

### Components

| Component | Code | State | Operations |
|---|---|---|---|
| Order manager | `src/paper/execution/order_manager.py` | `_pending_entries`, `_pending_exits`, `_cum_fills`, `_dry_run` | `submit_entry`, `submit_exit`, `on_execution_report`, `sync_open_orders` |
| Tracker | `src/paper/account/tracker.py` | position, portfolio, current trade, partial-close accumulators, daily P&L | `record_open`, `record_close`, `sync_position`, `sync_cash`, `update_unrealized`, `update_daily_pnl` |
| Reconciler | `src/paper/account/reconciler.py` | none of its own | `reconcile_position`, `reconcile_cash`, `reconcile_orders`, `sync` |
| Paper engine | `src/paper/engine.py` | running flag, feed, last close, deferred exit | `start`, `stop`, `_on_bar` |
| Bar, risk and signal handlers | `src/paper/handlers/*` | trailing state of the position | `on_bar` of each, in that order |
| Bar aggregator | `src/paper/bar_aggregator.py` | forming bar, history, DB-merge flag | `on_tick`, `check_time`, `preload_history`, `seed_current_live_bar` |
| Data quality, bar fallback | `src/paper/data_quality.py`, `bar_fallback.py` | none | `get_quality_reasons`, `merge_db_bar` |
| Feeds | `src/paper/feeds/*` | subscription, tick queue | `subscribe`, `unsubscribe`, `close` |
| Builder, bootstrap, warm-up seed | `src/paper/{builder,bootstrap,warmup_seed}.py` | none | assembly, preload of the bar history |
| Warm-up cache | `src/paper/warmup_cache.py` | one parquet file per past day | `load_with_cache`, `evict_old_files` |
| Paper risk manager, statistics | `src/paper/{risk_manager,stats}.py` | none of their own | `get_exit_trigger`, `apply_trailing_stop`; reports |
| Account | `src/engine/account/*` | cash, equity, position, trades | `create_order`, `execute_order`, `close_position`, `check_sl_tp` |
| Backtester | `src/engine/backtester.py` | pending order, account, equity curve | `run` |
| Event-driven engine | `src/engine/core/*`, `execution/sim_broker.py` | event queue, broker's pending orders | `run`, handlers, `update_bar` |
| Execution model | `src/engine/execution/{order,slippage,broker}.py` | order record | fill price, slippage |
| Trading session | `src/engine/session/*` | none (pure functions of the clock) | phase tests, cancellation of pending entries |
| Strategy | `src/strategy/*` | current session, opening range, trades this session, last bar | `generate_signal`, `warmup`, session reset |
| Data pipeline | `src/data/*` | a parquet file per month and the manifest, indicator columns | `load`, `import_from_directory`, `invalidate_cache`, validate, indicators |
| Database | `src/database/*` | one connection | queries, reconnect |
| Metrics | `src/metrics/*`, `src/engine/equity_tracker.py` | equity column and its peak | drawdown scans, streaks, trade sums, ratios, plots |
| Optimisation | `src/optimization/*`, `src/run_optimize*.py`, `run_walk_forward.py` | study in memory and on disk, results, windows, chained capital | grid, Optuna study, hybrid search, walk-forward, Monte Carlo |
| Configuration, utilities, CLIs | `config/*`, `src/utils/*`, `src/run_*.py`, `trading_toolkit.py` | none | parsing, logging, entry points |

### How they interact

`run_paper_trade.py` asks the builder for the parts, wires the FIX client's report
callback to `OrderManager.on_execution_report` and starts `PaperEngine`.  `start`
fetches the broker's position, cash and open orders one request after the other
(`Reconciler`), then subscribes.  `RedisFeed` drops quotes without a price or outside
the trading hours and gives the rest to `BarAggregator.on_tick`; a one-second poll
calls `check_time` on the same object.  Each finished bar is handed to
`PaperEngine._on_bar`, which runs `BarHandler`, `RiskHandler` and `SignalHandler` in that
order without awaiting.  The handlers call `submit_entry` and `submit_exit`; reports come
back through the callback and book fills in the `Tracker`, whose position all handlers
read.  `Tracker` and the backtest share `AccountState` and its parts (`Position`,
`PortfolioState`, `TradeRecorder`, `RiskManager`).  `run_backtest.py` runs `Backtester`
(one loop) or `EventDrivenBacktester` (an event bus, handlers and a simulated broker)
over the bars `DataPreprocessor` made; with `--compare-engines` it runs both.

`DataLoader` answers the research programs from monthly files and asks the database for the
rest; the paper engine's `load_with_cache` does the same with daily files of trades, and the
bars made of them warm the strategy up before the first quote.  `GridSearch`, `OptunaSearch`
and `WalkForwardOptimizer` call a backtest per trial and score its metrics;
`run_optimize_hybrid.py` chains three Optuna studies, each around the seeds of the one before.

### What is hard here

- **Callbacks between statements.**  `place_order` returns before the order is in the
  manager's dictionaries; a report in between meets an unknown id.
- **Two drivers of one object.**  Quotes and the poll both end a bar; a database repair
  happens before the close and at the emission.
- **Restarts.**  Nothing is persisted: dictionaries, counters and the forming bar are
  rebuilt from answers taken at different moments, any of which may fail.
- **Resent, late and lost messages.**  Reports may be resent; quotes may be late or lost.
- **Time.**  Sessions, a lunch break, an auction, last candles and cutoffs are compared in
  bars whose buckets need not line up with them.
- **Files that are trusted for good.**  A month called complete and a day that has a file
  are never fetched again; writes are swallowed when they fail and a query that fails
  returns no rows.
- **Studies that go on.**  Trials are copied to the disk in batches of several transactions;
  a process may be killed in each, and the next one resumes from what is there.
- **State that spans bars.**  Range, count and trailed stop are carried from bar to bar over
  gaps, sessions, partial fills and restarts.
- **One number kept three times.**  Cash, trade and daily P&L are booked by different
  components for the same fill.

### What makes each component correct

| Component | Properties |
|---|---|
| Order manager | of the exits whose call returned one works at a time; no fill is booked twice; a finished order is forgotten; a fill never reverses the position |
| Reconciler | a start whose orders request succeeds knows every working order; unless it loses hold of a working exit no second one is sent; no fill is counted twice but those of an exit taken over |
| Tracker | cash, position, trade and daily P&L tell one story |
| Engine, handlers | no position crosses the night; a deferred exit closes the position it was for; a position that is left gets an exit again and again until one is accepted |
| Bar aggregator | one bar per bucket, in order, none dropped; a repair never loses a tick; a bar closes without a further tick |
| Paper risk manager | a position keeps the stop its own fills asked for, or a tighter one; no stop outlives it |
| Session | the tests for the end of a session agree for every bar length |
| Strategy | an entry is measured against its own session's range; the session's limit holds; a warm-up rebuilds the range |
| Caches | what is kept for good is whole; what is returned is what the database holds |
| Backtest engines | an order waits only while the account is flat; an auction bar leaves nothing open; the loss limit ends the day; cash is the trades |
| Searches | every trial once; a resumed study has exactly what was missing; neighbourhoods hold their seed; tests are out of sample |
| Metrics | the one-pass scans compute the drawdowns, streaks and sums they are named for |

## 2. Modules

| Module | Models | State | Actions |
|---|---|---|---|
| `Positions` | the signed position under `record_open`, `record_close` | none | operators |
| `OrderDesk` | what the order manager promises (abstract) | position, entries and the exit in progress | `Enter`, `EntryFills`, `EntryDropped`, `Exit`, `ExitFills`, `ExitDropped`, the dry-run ones |
| `OrderManager` | `order_manager.py`, the broker and the report channel (external) | the three dictionaries, `pc` of the submitting call, tracker position, broker's orders | each statement of a submit that another thread may see, a call that raises after the broker took the order; `Deliver`, `Redeliver`; broker fills and cancels |
| `Recovery` | crash, restart, `reconciler.py`, `sync_open_orders` over `OrderManager` | start phase; histories: the start's orders request succeeded, the orders it filed as exits, some start went `astray` (lost hold of a working exit) | crash, each request with its failure |
| `VN30Session` | session clock, last candle, force close, order cancellation | none | operators |
| `PaperEngine` | `engine.py` and the three handlers over `OrderDesk` | settings, due bar, deferred exit, phase | `OnBar` (the whole pipeline), `EmptyBucket`, outcomes of orders, `StopBegins`, `StopEnds` |
| `Tracker` | `tracker.py` over `AccountState` | position, cash, equity, open trade, daily P&L | `Sync`, opening, scaling and closing fills, `Bar` |
| `BarAggregator` | `bar_aggregator.py`, `data_quality.py`, `bar_fallback.py`, `redis_feed.py` | clock, database, quotes in flight, forming bar, history | `Load`, `SeedCurrent`, `Subscribe`, `Quote`, `CheckTime`, `Stop`; the market's `Trade`, `Lose`, `Pass` |
| `Protection` | `paper/risk_manager.py` and the levels of `tracker.py`, over `Tracker` | stop, target | Tracker's fills and synchronisation with their levels, `BarProtected`, `BarWithDeferredExit` |
| `Account` | `AccountState` as operators on a record | none | fills, stops, trailing, margin, loss limit |
| `Backtester` | the loop of `backtester.py` | account, pending order | `LoopBar`, `LoopEnd` |
| `EventBacktester` | `core/engine.py`, `handlers.py`, `sim_broker.py` | account, queued order | `EventBar`, `EventEnd` |
| `Engines` | both engines on the same bars and signals | the data | `Bar`, `End` |
| `OpeningRange` | `strategy/orb.py`, `intraday_base.py`, `base.py`, as the paper engine drives them | the strategy object, warm-up rows, position and order flags | `Bar`, `InvalidBar`, `NoBar`, `Market`, `Restart`, `Warm` |
| `QuoteDatabase` | `data_service.py` over `connection.py` as both caches see them | day, trades so far, connection | `Trade`, `PassTime`, `ServerDrops`; operators for an answer |
| `MonthCache` | `data/loader.py` | monthly files, manifest, each process's copy of it, loads under way | one action per outcome of a month of a load; import, invalidation |
| `WarmupCache` | `paper/warmup_cache.py` | daily files | `WarmUp`, `Evict` |
| `MarketData` | both caches over the database | role of the host | composition |
| `Ordering` | Python's `sorted` and filtering of a list (external) | none | operators |
| `Scoring` | `optimization/scoring.py`, the scorers of the hybrid search | none | operators |
| `Study` | `optuna_search.py`, the storage policy of `run_optimize.py` | the study on disk, the search in memory | `Check`, `Load`, `Batch`, each transaction of a flush with its failure, `Collect`, `Quit` |
| `GridSearch` | `grid_search.py` with its pool | combinations submitted, results, failures | `Submit`, `Complete`, `Fail` |
| `WalkForward` | `walk_forward.py`, `run_walk_forward.py` | plan, windows, chained capital, the studies of a storage file | `StartWalk` (again and again with storage), `TestWindow`, `WindowFails` |
| `HybridSearch` | `run_optimize_hybrid.py` | seeds, neighbourhoods, results of the phases | `Discover`, `PickSeeds`, `Refine`, `Polish` |
| `CurveMetrics` | `metrics/*`, `equity_tracker.py`, `monte_carlo.py` | curve, peak, P&L of trades | `Record`; scans as recursive functions of the position |
| `Research` | the five above, one program at a time | which program | composition |

`Recovery` extends `OrderManager`; `PaperEngine` extends `OrderDesk`, which
`OrderManager` is shown to implement (`ImplementsDesk`), so what holds of the engine over
the desk is about the manager too, as long as the report callback runs on the event loop.  That is about the tracked
position: an order whose call raised is as unknown to the desk as to the tracker.
`Engines` composes the two backtest engines over one `Account`; `Protection` adds the stop
and target to `Tracker`, of which it is an implementation (proved, section 5);
`MarketData` puts both caches over one `QuoteDatabase`; `Research` chooses one of the
research programs, which share no state.  The `MC*` modules hold
the values for TLC, the `*Proofs` modules the theorems.

Abstractions.  Prices are small integers and appear only where a property depends on
them; an order id is a model value; time is minutes of the day, or slots of a bucket; the
strategy is any signal on any bar in `Engines` and `PaperEngine`, and `OpeningRange` by
itself.  There an indicator is one of a few values of a bar's shape, and prices are
hundredths of a point because multipliers are tenths.  A day's trades are numbered and
share one minute, so a bar that is still growing is a smaller number.  A parameter space
stands for its fingerprint, a trial for its score; a sampler proposes anything.  Operators marked `Mutant:` in a comment are slips a
change could make; no specification uses them.

## 3. Runs

| Run | Shows | Bounds |
|---|---|---|
| `order_threaded` | a callback thread that overtakes registration, overlapping orders, calls that raise, resent reports: one exit whose call returned, no double booking, no reversal | 3 orders, quantities to 2 |
| `order_desk` | with the callback on the event loop the manager implements `OrderDesk`, and finished orders are forgotten | 2 orders, quantities to 2 |
| `restart` | across restarts with overlapping entries, calls that raise, lost or resent reports and failing requests: knowledge of orders, one exit unless a start lost hold of one, no fill counted twice | 2 orders, quantities to 2, a position to begin with or none, 2 crashes |
| `restart_counter` (violation) | a partly filled exit taken over at the restart is counted twice | 2 orders, 1 crash |
| `engine_day` | live, dry-run and replay settings in calm and rough markets: flat overnight, deferral never stale, an exit keeps coming | 8 settings (a replay with and one without an auction bar; a cutoff that `allow_late_entry` lifts), bars of 30 and 45 minutes, 2 orders |
| `engine_overnight` (violation) | with the shipped settings a last-candle entry crosses the night | shipped settings |
| `tracker_ledger` | cash, trade, position and daily P&L agree over every sequence of fills and bars, and a position keeps its own stop | 2 prices, 3 contracts, 4 fills, 4 pairs of levels |
| `bars` | late or lost quotes, poll and quote emitting, failing repairs, restarts: bars whole, in order, once per bucket | 3 buckets of 3 slots, 3 trades, 2 prices |
| `backtest` | both engines: an order waits only while flat, cash explained, flat into the auction, nothing after it, loss limit | 4 stretches of 5 bars, 6 bar shapes, 5 signals |
| `strategy` | missing, malformed, quiet and breaking bars, positions and orders coming and going, restarts: own range, own limit, range rebuilt | 1 day of 20-minute bars, 4 shapes, 2 entries a session |
| `market_data` | failed queries, torn files, lost manifests, imports, clearings and crashes: complete is whole, a load is the database | 4 days in 2 months, a research host followed for 3 of them (`ResearchDay`), 2 trades a day, a warm-up window of 4 days, 1 process |
| `research` | studies killed, resumed and failing to write; grid trials in any order; every small window plan; seeds at the ends of lattices; every short curve | 5 stored trials, batches of 2; 13 rows, 4 plans on one storage file; 3 lattices; 5 records of the values -1, 1, 2, 3 |

**Why the bounds are enough.**  An order needs one part booked and one to come for every
counter mistake, hence quantity 2; an exit, the entry it closes and a competing order need
3 ids.  A restart may find a position, so two ids are two exits, or an exit beside an entry;
an exit that one start loses and the next one finds needs two crashes.  A forced exit concerns one
evening and the morning after; the bars of a Monday, cyclically, hold both, and 45-minute
buckets do not line up with the session as 30-minute ones do.  Four fills are open, scale,
part and rest; the levels are a stop near and one far, for a long and a short, and none.
Three buckets have one before, one during and one after a restart; three
slots have a start gap, a tick and an end gap; nine preloaded bars make the history meet
its cap.  Five bars surround each moment at which the backtest does something special.
A day of 20-minute bars has two sessions, a window of two bars, a gap in mid-session and
room for more breakouts than the limit.  Two months of which one has two days are the least
in which a month can be half fetched, end, and be followed by another.  The warm-up window of
four days has three past ones: a cached day lies between two missing ones (fresh and cached
trades overlap) and a missing one between two cached ones, and both occur in the run.  A study of five trials is
two batches and a rest; 13 rows make segments that divide and do not divide the data and
test slices shorter than, as long as and longer than the embargo; the four stored plans differ
in number of windows, mode and rows; five records hold a dip that recovers and one that stays,
and a curve may fall below zero and come back.

**Fairness.**  `OrderManager`: the event loop finishes a call it began, and a report that
was sent arrives; nothing makes the broker finish an order.  `BarAggregator`: the clock
goes on, and the polling loop calls `check_time` every second (`redis_feed.py:180`); a
quote may never arrive.  `PaperEngine`, for `ExitKeepsComing` only: bars go on; of the bars
that must force flat, which come back every day, not all stay empty or have their exit refused.
That is about the market and the broker and strong, because the code's remedy is to try again on
each such bar.  That an accepted exit fills is *not* assumed: nothing in the code cancels or
reprices one that rests at its limit (`order_manager.py:278`), so it may rest for ever while every
later exit is refused, and that the position is closed in the end is not claimed.  All other
properties are safety and need none.

Deadlock is checked, except where the program really ends: a stopped engine
(`engine_day`, `engine_overnight`), data that is used up (`backtest`), a research program
that has done its work (`research`), and, for the bound's sake, order ids and crashes that are
used up (`restart`).

## 4. Disagreements found

With a run:

1. `restart_counter` – `sync_open_orders` sets `_cum_fills` for entries and not for exits.
2. `engine_overnight` – `entry_cutoff_seconds = 0` allows an entry on the last candle,
   though the setting's text promises no overnight positions.

Seen while modelling, without a run.  *Orders and the live engine:*

- A report handled by a callback thread between `place_order` and the write of the dictionary
  (`order_manager.py:289`, `:308`) leaves the id pending; for an exit, every later
  `submit_exit` is refused.
- `record_close` adds the partly closed contracts to a recorded quantity that was never
  reduced (`tracker.py:298`).
- `stop()` with `close_on_shutdown` closes a position, not a working entry, which may fill
  when the engine is gone (`engine.py:290`).
- After a partial close `tracker.py:264` takes unrealized P&L from before it; the next bar
  corrects the equity.
- A later fill of an entry writes the order's own stop over the trailed one
  (`tracker.py:167`); a position adopted at a restart, and one that an entry taken over at
  the restart fills, has no stop at all (`tracker.py:383`, `order_manager.py:487`).
- The daily-loss total starts at 0 with each process.
- An exception of `place_order` after the broker took the order is logged and the order forgotten
  (`order_manager.py:179`, `:291`): it works unknown to the manager, and the next bar may send
  another entry or exit beside it.  The next start finds it (`WorkingKnown`).
- `SignalHandler` sends an entry whenever the tracked position is zero (`signal_handler.py:178`),
  beside an entry that still works.  If the two are opposite the tracker ignores one's fill and
  disagrees with the broker from then on; a start that finds an entry open beside a position of
  the other side files it as an exit.
- A failed position request followed by a good orders request classifies orders against an
  old position; a failed orders request forgets a working exit; a fill between the two is in
  neither answer.  After such a start two exits may work: `OneExitAcrossRestarts` says that a
  start that lost hold of a working exit is the only way to it, not that there is none.
- Differences between tracker and broker found at a start are taken over from the broker,
  and nothing compares them later (`reconciler.py:15`).
- Only today's orders are fetched (`reconciler.py:168`); orders are good till cancel.
- In a replay whose bars leave out the auction (45 minutes, cutoff 0) no bar after the last
  candle can close an entry that the last candle made: it is carried over the night
  (`engine_day` covers the replays outside this case, section 5).
- A bucket in which no quote arrived is never emitted, though the database may have its
  trades: the repair needs a live tick to begin with.
- A quote that repeats the latest match adds its volume again (`bar_aggregator.py:251`).
- Warm-up preloads the unfinished bar of the current bucket and seeds it too, so the
  indicators see that bucket twice (`builder.py:653-656`); `HistoryInOrder` says this is the
  only repetition.  If the clock leaves the bucket between the reading of the rows and the
  seeding, the unfinished bar stays in the history for good.
- `TRADING_MINUTES_PER_DAY` is 255, the two sessions have 240 minutes
  (`config/schemas/session.py:140`).

*Backtest:*

- The event engine fills an afternoon order on the auction bar and closes it at the next
  day's open; the loop cancels it (`core/engine.py:24-25` promises the same results).  The
  loop ignores a strategy's EXIT; the event engine obeys it, and fills without testing the
  margin again.
- On days without an auction bar (6 of 425 in `reports/IS`) the loop's last-candle test
  looks at tomorrow's first bar and keeps the position overnight.
- `tests/engine/test_backtester_execution.py:270` is named after the next open; the code closes
  at the current close.

*Strategy:*

- A gap resets the count of entries in mid-session.  `SessionLimit` holds because a gap also
  empties the range and is longer than the window; a restart loses the count too
  (`save_state` is never called), so over processes a session may have more entries than
  `max_trades_per_session`.
- Bars of the window seen while a position is open do not widen the range; a process that
  starts inside the window without rows has a partial range.
- The low-volatility regime multiplies `max_range_atr` as well (`orb.py:461`).

*Market data:*

- A failed query is answered with no rows, so a month is silently missing from what `load`
  returns (`loader.py:553`); its docstring (`loader.py:261-268`) announces a `RuntimeError`.
- Two trades of one timestamp become one in the warm-up (`warmup_cache.py:268`), though
  `strategy/base.py` and the cumulative volume count on both.
- `invalidate_cache()` writes a manifest into `warmup/` too; the warm-up documentation mentions
  a `max_age_days` it does not have; `evict_old_files` is never called.
- A file without a month in its name is imported under the month of its modification time and
  called complete; a chunk shorter than a month may store part of one as complete.  So may any
  CSV import: `load_tick_csv` (`loader.py:350-390`) takes what rows the file has, and a month that
  is over is then complete and never fetched again.  `Import` assumes a file with all the month's
  trades so far, and `CompleteMonthsAreWhole` holds under this assumption only.
- The day's closing-auction match lies after the query's end (14:30).

*Research:*

- A flush creates the study and stamps it in two transactions; after a failure in between it
  stays unstamped, the next run takes its own space for a conflict, and
  `--on-conflict overwrite` deletes its trials.
- Two processes on one study each copy what they have; trials of one may be lost.
- A storage file that cannot be read counts as no conflict (`optuna_search.py:635`, `:644`), so a
  study of another space is resumed without a question.
- With `--storage` a window's study is `wfo_window_<id>` (`walk_forward.py:434-449`), resumed
  without the conflict check of `run_optimize.py`.  A rerun over other dates, another number of
  windows or the other mode takes over trials that ran on other rows, some perhaps in the present
  test slice: without its `OwnStudy` condition `OutOfSample` is violated (a plan of 6 rows takes
  over the studies of another plan).  The trials count toward `n_trials` besides, so there may be no
  new ones.
- With a test slice not longer than the embargo the embargo is skipped
  (`walk_forward.py:319`), and a window's `test_start` is the one before the embargo; the
  rolling mode leaves the last rows unused.
- The hybrid winner is the best over all phases, each under its own gates, though a comment
  puts phase 3 first; phase 2's gate may exceed the final one.
- `net_profit_factor` is 0 with no losing trade; a return below -100 % can rank under an
  invalid trial; ties of the grid depend on the order in which trials ended.
- Every Monte Carlo simulation ends at the same equity (`TradesMakeTheCurve`), so the percentiles
  of the return coincide; ruin is a drawdown from a peak, not a loss of the capital.  The
  simulations are random draws (`monte_carlo.py:223`): a backtest that was ruined on the way and
  recovered may get `ruin_probability` 0; one that ended below the threshold gets 100.
- The tracker warns of an equity at or below zero and goes on (`equity_tracker.py:88`).  There a
  drawdown is a fraction above one of the highest peak, while a fall from a lower peak is a
  larger fraction that the scan does not look at; `DrawdownsAreDips` speaks of falls to zero or
  more.

## 5. Proofs

`tlapm` proves, for every value of the constants satisfying the modules' named assumptions:

| Module | Theorem | Says |
|---|---|---|
| `RecoveryProofs` | `TypeCorrect`, `SingleExit`, `NoFillTwice`, `NeverReverses` | `TypeOK`, `OneExitWorking`, `NoDoubleCount`, `NoReversal`, for any orders, quantities, callback thread or not |
| | `ImplementsTheDesk` | `ImplementsDesk`: with the callback on the event loop (`~Threaded`) every step of `OrderManager` is a step of `OrderDesk` or a stutter |
| | `AllWorkingKnown` | `WorkingKnown`, for any number of restarts, threaded or not |
| | `SingleExitAcrossRestarts`, `CountedOnceAcrossRestarts` | `OneExitAcrossRestarts`, `CountedOnce`, likewise, whatever requests fail and however entries overlap |
| `PaperEngineProofs` | `AlwaysFlatOvernight` | `FlatOvernight` for any settings, bar times and quantities |
| | `DeferralNeverStale` | `NoStaleDeferral` in dry runs, any settings and bars |
| | `SessionEndsAgree`, `CutoffCoversLastCandle` | the two ways to recognise a session's end agree at every minute for bars up to 90 minutes; a cutoff of one bar covers the last candle |
| `TrackerProofs` | `CashAlwaysExplained`, `TradeAlwaysHoldsPosition`, `DailyAlwaysRight` | the ledger equations |
| | `ProtectedIsTracker`, `StopAlwaysItsOwn` | the account with stops implements `TSpec`, so the ledger equations hold there; `StopIsItsOwn` for any levels, trailing and prices |
| `EnginesProofs` | `CashAlwaysPnl`, `PendingAlwaysFlat`, `AlwaysFlatIntoAuction`, `AuctionAlwaysEndsDay`, `LossAlwaysStopsDay` | `CashIsPnl`, `PendingOnlyFlat`, `FlatIntoAuction`, `AuctionEndsDay`, `LossStopsDay` for any data, prices, signals, fees and limits; `FlatIntoAuction` is about the loop, the others about both engines |
| `BarAggregatorProofs` | `RangeHoldsTicks`, `BarsWellFormed`, `BarsOnceInOrder` | `TicksInside`, `WellFormed`, `OncePerBucket` |
| | `HistoryAlwaysInOrder`, `BarsNeverDropped` | `HistoryInOrder` (one repeated bucket at most), `NoBarDropped` |
| `OpeningRangeProofs` | `SessionLimited` | `SessionLimit` for every configuration the schema admits, any bars, gaps, days and restarts |
| | `RangeIsOwn`, `WarmupRestores` | `RangeOfThisSession`, `RestartRestores` |
| `MarketDataProofs` | `MonthsAreWhole`, `DaysAreWhole` | `CompleteMonthsAreWhole`, `DayFilesAreWhole` for any calendar, requests and number of processes |
| | `LoadsAreTheDatabase`, `WarmupsAreTheWindow` | `LoadIsTheDatabase`, `WarmupIsTheWindow` |
| `ResearchProofs` | `StudiesResumeExactly` | `ResumesExactly`, for any spaces, targets, batch lengths and failures of a flush |
| | `GridTriesEachOnce` | `EachTriedOnce`, for any grid and order of completion, if a trial that passes the gates scores above the invalid score |
| | `TestsOutOfSample` | `OutOfSample`, for any number of rows, windows, shares and embargo, and any sequence of processes on a storage file |
| | `HybridSearchesAroundSeeds` | `SearchedAroundSeeds`, for any lattices, splits, caps, radius and scorers |
| | `ScansAlwaysRight` | `ScansAreRight`, for any integer equities after a positive first one, any threshold and length of the curve |

Every safety property of the passing runs is stated by one of these.  The
assumptions on constants are named in the modules that declare them; two theorems have a
hypothesis of their own.  `ImplementsTheDesk` has `~Threaded`: the report callback runs on the
event loop.  With a thread of its own a report may overtake the registration of its order, the
manager no longer implements the desk, and a fill may go unbooked.  `GridTriesEachOnce` has that a
trial that passes the gates scores above the invalid score, which holds whenever the return is at
least -100 % and the drawdown at most 100 % (lemma `DefaultWeights`, for the weights of
`scoring.py`); below that the ranking fails (section 4).

*Order manager.*  `OneExitWorking` alone is not inductive: a report may finish an order the
manager does not know yet.  `IInv` adds that a report tells the truth about the broker's order
(`ReportsTrue`), that the order of the running call is in no dictionary (`CallOwnsOrder`), that
the dictionaries are disjoint and hold orders of their kind (`DictionariesApart`), that every
working exit is either registered or the call's own (`ExitsLocked`), and that a counter lies
between what was booked and what was filled (`CountersBetween`).  There is a step per action.

*Restart.*  None of `IInv` but `ReportsTrue` survives a crash, which empties the dictionaries.
`Base` is what does: a manager whose orders request succeeded knows every working order but those
whose own call raised since (`Known`), it trades only when it is up (`CallsWhileUp`), and an order
it knows has been sent (`OrdersUsed`).  `Counted` adds that an order outside `takenOver` has a
counter between what was booked and what was filled; at a start both begin with the broker's
fills, or with nothing booked.  `ExitsHeld` adds that, as long as no start went astray, every
working exit whose call returned is in the dictionary of exits or the running call's own, hence
that a second one is refused.  Nothing is assumed of the reports, the requests or the overlap of entries.

*Tracker.*  `Books` (of `TrackerProofs`) is the three equations with types free of the model's
bounds, and says that before trading begins nothing was realized.  Each fill has a lemma on the
signed position and one on the trade record.

*Bars.*  `BarInv` says that the forming bar, the last bar and each database bar are sound,
that the last bar handed on is of an earlier bucket than the forming one and than the clock's;
merging, accumulating, seeding and starting each have a lemma.  `HistInv` follows the one
repetition: the history rises while the seeded bar is its last or still forming; once that bar
is emitted a bucket is repeated, and what forms from then on is later than the whole history.

*Engine.*  `DryInv` says that in a dry run no order is ever in progress, so an exit goes through
at once or has nothing to close.  `NightInv` says of a guarded day that an exit in progress is
for the whole position and alone, and that anything held or entered without one has a further
bar of the day at which an exit can go out.  The lemmas show that on each bar after which there
is no such bar the force-close test is true, for any length of bars and any calendar of them.

*Protection.*  `Guarded` is `StopIsItsOwn` with the types that make stops comparable.  A
scale-in and a partial close keep the sign of the position, so "looser" keeps its meaning; a
bar moves the stop only where the comparison lets it.

*Backtest engines.*  `BInv` says of each account that its cash is the capital and the trades'
results less the fees still open (`Balanced`), and of each pending order that it was made in
trading hours and waits on a flat account below its loss limit (`Waits`).  The loop and the event
engine share the lemmas on filling, closing and checking the limit.

*Opening range.*  The limit is not inductive by the count alone: a gap sets the count back to
0 in mid-session.  `LimitInv` adds that entries belong to the strategy's current session, and
that either the count covers them or the strategy is `Spent`: its range is empty and its last
bar is past the window, so no bar of the session can form another.  That a gap of at least 60
minutes outlasts a window of at most 60 is where the configuration's bounds are needed.
`RangeInv` adds that the range spans exactly the bars of the window the process was shown, or is
empty because there were none or because a gap came after the window (`SpanInv`), and that a
warm-up feeds the session's rows in order and spans those it has fed (`WarmInv`).

*Caches.*  A month is called complete by the manifest or by any process's copy of it, which may
be written back at any time.  `CacheInv` says that every month so called is `Settled`: over
in UTC, which is later than in market time, with no readable file or one that holds its final bars.  A copy written
back, a torn file, a failed query and a lost manifest each keep that.  It is why the UTC
test for the current month does no harm: it errs towards fetching again.  For the days it is
`DayFilesAreWhole` itself, with a database whose past does not change.  `SyncInv` says that a
file readable today agrees with the database on every day before any date some manifest calls
synchronised, so a fetch from that date on completes it; `JobInv` says that a load without
trouble has the rows of each month it has passed; `PrimedInv` that the last warm-up was its window.

*Research.*  `StudyInv` says that the study on disk begins the one in memory and that their
difference is what the batches and the flush have still to do.  `GridInv` places each combination
ahead, in the pool or in its one outcome.  `WalkInv` says what each test recorded is its window's, that
the windows rise, that a study in the file ran on its number's train slice of its own plan, and that
a test's parameters were chosen on its train slice or come from such a study.  `HybridInv` says that each candidate was drawn from the base space and
judged by the scorer of its phase, that seeds are distinct and that each neighbourhood lies around
the seed it is paired with.  They share facts on sorting (`Ordering`): a strict total order on a
finite set gives each member its own rank, so `InOrder` lists each once.  Where
an induction over the length of a list would be the usual argument, the proofs take the least
index that is wrong (`LeastNumber`).

*Scans.*  What a scan computes is a property of data of any length.  The scans are recursive
functions of the position, so two lemmas replace the library's induction theorems, which the
provers cannot instantiate: `Recursion` (a function defined step by step up to *n* exists, the
step being a function itself) and `Climb` (a set of positions with 0 that is closed under "one
more" has all of them).  Both rest on `LeastNumber`.  Each scan then has an invariant and a
lemma per step.  `ScanAt`: the scan for drawdowns is inside exactly when its record is below an
earlier one, knows where that dip began and the first of its deepest records so far, and has
listed exactly the dips that have ended and reach the threshold.  `CountAt` says the same of
the underwater count.  `LongestRun` says that the streak counter is the run of trades that ends
here and its maximum the longest so far.  Drops compare as fractions do (`DeeperOrder`, by
multiplying out), which orders the records in classes with those that are not below last;
from there on no arithmetic is needed.  `CurveInv` is what the recorder keeps: the peak is the
greatest record, and each trade's P&L is the difference of two.  That a simulation keeps the sum
(`ShuffleKeepsSum`) takes the positions in the drawn order one by one.

**Model-checked only.**  Liveness (`FinishedForgotten`, `ExitKeepsComing`, `BucketsClose`) is out of
the prover's reach.

## 6. Not modelled

Plots, ratios of floating-point columns (Sharpe, Sortino, information ratio), rolling metrics,
indicator arithmetic and the resampler compute on floats.  Argument parsing, menus, reports,
logging and configuration parsing are I/O.  Optuna's samplers and pruners, the FIX client,
Redis, the market and PostgreSQL are external: modelled by how the code uses them.  Volume of a
bar, MAE/MFE, equity snapshots and session statistics (`paper/stats.py`) feed reports only
(volume also a strategy filter, where it is a choice).  The replay speed and tick mode of the
simulated feed, sensitivity reports and the strategy registry change no state a property is
about.  Two processes over one cache directory are in the proof and not in the run; there the
manifest check, the read, the fetch and the write of a month are one step (`FetchAndCache`), so a
fetch that lasts the seven hours from the market's midnight to UTC's is left out.  Two processes on
one study are not modelled: the code has no means against them.  Of the hybrid search, trials that
raise are left out (their stored parameters lack the flag a branch fixes), and so are the adaptive
parameters that the core branch fixes at their defaults and its seeds carry into phase 2.

## 7. Plan

Done: order path, restart, engine, ledger, stops, session, bars, both backtest engines,
strategy, both caches, searches, metrics, and a theorem for every safety property.
Next, in order:

1. The composition of `OpeningRange` with `BarAggregator`: the repeated bucket of a warm-up as
   input of the strategy.
2. The day of an order in `Recovery`'s broker, for orders good till cancel over a night.
3. The remaining sizers and slippage models, and the validators, against reference definitions.
