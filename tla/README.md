# Specifications of Quant Master

TLA+ models of the parts of this repository that keep state and can get it wrong:
where several processes, threads or requests meet, where a crash comes between two
writes, where files are extended run by run, where orders are split and settled.
TLC checks them on small instances; TLAPS proves the main safety results for every
value of the constants. Paths below are relative to the root of the source tree;
`PROJECT.json` maps every definition to its lines.

## 1. The system

| Component | State it keeps | Operations | Who else touches it | Module |
|---|---|---|---|---|
| Task pool (`workflow/task/manage.py`) | MongoDB documents: definition, status, result, priority | create, fetch, commit, return, remove, reset, prioritize, wait; `run_task` loops fetch/run/commit | every process of every trainer and worker, the operator's command line | `TaskPool` |
| Trainers (`model/trainer.py`) | list of ids, tags of recorders | `train`, `end_train`, `worker` | the pool; other trainers on it | `TrainerRM` |
| Sync slot (`ui/server/sync.py`) | `_sync_status` under `_sync_lock` | claim, stale clearing, trigger, scheduler, release | status polls, boot, model service | `SyncService` |
| Stock summary (`sync.py`, `stock_cache.py`) | `_cache_status`, pending flag, `latest.json` | `start_cache_refresh`, worker loop, loading by pages | boot, browser page, every sync | `SyncService` |
| Daily bars (`sync.py`) | `calendars/day.txt`, `features/*/*.day.bin`, `instruments/all.txt` | probe, fetch, extend calendar, write bins, write dates | one sync at a time; readers everywhere | `BinStore` |
| Health snapshot (`sync.py`) | cached scan of the bars | scan, background refresh | status pages, next sync, predictions | `HealthSnapshot` |
| Model service (`model_service.py`) | prediction history (file and copy), shared dataset, calendar of the process | live prediction, reading, reload | request threads, sync | `LivePredictions` |
| Position service (`routers/position.py`) | positions file | buy, sell, edit, delete, cash | request threads | `Positions` |
| Live execution (`contrib/broker`) | results of a batch, account at the broker | check, submit, read the answer | broker, terminal helpers | `LiveExecution` |
| Daily pipeline (`scripts/live_signal_pipeline.py`) | its own book of positions | `run_daily` | live execution | `DailyPipeline` |
| Cache locks, disk caches (`data/cache.py`) | counters and locks in Redis or the process; cache files and their index | enter, leave; generate, update, read | all data users | `CacheLock`, `DiskCache` |
| Expression engine (`data/ops.py`, `data/base.py`) | none | evaluate over a range | caches, handlers | `Expression` |
| Data handlers (`data/dataset/handler.py`, `processor.py`, `DatasetH`) | raw frame and those for inference and learning, statistics of processors, segments | set up, configure, fit | online manager, trainers | `DatasetPreparation` |
| Memory cache of universes (`data/cache.py`, `data/data.py`) | ordered dictionary with a size | list, store, evict, clear | request threads, updates | `UniverseCache` |
| Time series datasets (`data/dataset/__init__.py`) | array of the segment, its indexes | samples by number or by day and stock | the models | `TimeSeriesSampler` |
| Dump scripts (`scripts/dump_bin.py`) | the files of the daily bars | `dump_all`, `dump_update` | collectors | `DumpBin` |
| Yahoo update (`scripts/data_collector/yahoo`) | bars scaled to what is stored, file of latest bars | download, normalize, extend | dump scripts | `YahooUpdate` |
| Point-in-time database (`scripts/dump_pit.py`, `data/pit.py`) | records in linked lists, index file | dump, update, read as of a day | expressions | `PitStore` |
| Personal stock pool (`data/personal_dynamic_pool.py`) | intervals per stock, metadata | update of a range | collectors, command line | `PersonalPool` |
| Backtest (`backtest`, `contrib/strategy`) | position, orders, results of three levels | decide, deal, settle; split an order | one process | `TopkBacktest`, `NestedExecution` |
| Online manager (`workflow/online`) | recorders, tags, signals | first train, routine, update, signals | trainers | `OnlineRolling` |
| Experiment manager (`workflow/expm.py`, `recorder.py`) | active recorder, queue of calls | start, end, log, exit | all training code | `Recording` |
| RL training (`rl/trainer`) | iteration, policy, best weights, checkpoints on disk | fit, validate, stop early, save, resume | one process; what resumes it | `PolicyTraining` |
| RL environments (`rl/utils`) | queue of seeds, alive flags | produce, reset, step | worker processes | `FiniteEnv` |
| Models, reports, web pages, other collectors | | | | none, section 8 |

How they interact: the sync, the dump scripts and the Yahoo update write the
same bins and calendar. The health snapshot scans them, the model service and the next
sync start from its day. The memory and disk caches, the expression engine and the samplers stand
between those files and the models. Trainers put the models through the pool; the online manager
tags what they have trained, and `Recording` is what both log to. The scores of a
prediction become orders in a backtest or, through the daily pipeline, at a broker.

Hard to test here: two calls between which others come (look up then insert; poll
then claim; read, then write), processes killed between two writes, updates that
match by id whatever the status is now, flags that say "running" for a thread that
never ran or still runs, requests that arrive while the work they ask for is
being done from older input, data found by its index in a file another step
extends, answers that come after the caller has given up, state that follows what
another level has done one step late, days that were cached before the calendar moved on,
and progress that rests on somebody else. `PROJECT.json` lists such hazards at
their lines with the properties that watch them.

What makes each component correct:

* pool: a task is worked on by one process at a time and trained once; a status never
  claims a result that is not there; nothing is left running but what a dead process held;
* trainers: what `train` and `end_train` return is trained, whoever trained it, and they return;
* sync slot: it says "running" exactly while one job is active, errors stay visible, it always comes back;
* summary: one builder at a time, no request is lost, the file only gets newer;
* bars: each stands at the index of its own day in every file, the dates in `all.txt` are true,
  accepted bars are never overwritten, and the data catches up as far as a fetch reaches; a scaled bar gives the return of its day;
* snapshot and predictions: never a day the market has not had, no prediction from its own day,
  no answered prediction lost, and the pages see a finished sync;
* positions: an answered edit is in the file once, cash and lots belong to one story;
* orders: what a batch reports of the broker is true, one order at most is in doubt, the
  pipeline's book is the account once all is filled;
* caches: no reader of a dataset beside a writer, and no two writers; a cache updated step by step is the one made anew; a universe asked for
  after a clear is not older than that, and a memory cache counts what it holds;
* data for models: a window asked for is the window of that stock and those days, with what was known then, and no
  statistic in it has seen days behind the train segment;
* backtest: orders are paid for, holdings are bounded, a split order is dealt as it says;
* online: each day has the signal of the model of its segment;
* recording and evaluation: a finished run has all its results, each seed one episode, and both end;
* training: what early stopping leaves is the best, what `fit` leaves is on disk, and a kill costs few iterations;
* pool of stocks: the stocks of a day are those the last update of that day has selected.

## 2. Modules

Specifications: `TaskPool`, `TaskBoard` (abstract: what a pool promises), `TrainerRM` (EXTENDS `TaskPool`),
`SyncService`, `BinStore`, and the parts composed in `MCServices`: `HealthSnapshot` and
`LivePredictions` (which EXTENDS it), `LiveExecution` and `DailyPipeline` (which EXTENDS it),
`CacheLock`, `DiskCache`, `Positions`, `TopkBacktest`, `NestedExecution`, `Recording`, `Expression`,
`TimeSeriesSampler`, `DatasetPreparation`, `UniverseCache`, `FiniteEnv`, `PolicyTraining`, `OnlineRolling`, `DumpBin`, `PitStore`,
`YahooUpdate`, `PersonalPool`.
The parts under `MCServices` that share no state are checked one at a time (variable `focus`).
`Caches`, `Models` and `Features` state what some of these parts promise together (`CachesTrue`, `ModelsTrue`,
`FeaturesTrue`), `Sorting` the sorted sequence of a set of numbers, each element at its rank, which five of them use.
`MC*` give TLC its constants. The theorems are in seven modules, with the lemmas they share in `SetLemmas`:

| Module | About |
|---|---|
| `TaskPoolProofs` | `TaskPool`, `TaskBoard`, `TrainerRM` |
| `SyncProofs` | `BinStore`, `SyncService` |
| `CacheProofs` | `CacheLock`, `DiskCache`, `UniverseCache`, `Caches` |
| `LiveProofs` | `LiveExecution`, `DailyPipeline`, `HealthSnapshot`, `LivePredictions`, `Positions` |
| `ResearchProofs` | `Recording`, `FiniteEnv`, `OnlineRolling`, `PolicyTraining`, `Models`, `NestedExecution`, `TopkBacktest` |
| `DataProofs` | `DumpBin`, `YahooUpdate`, `PersonalPool`, `PitStore`, `DatasetPreparation`, `Expression`, `TimeSeriesSampler`, `Features` |
| `ServicesProofs` | `MCServices`, the composition |

### TaskPool

A task is a document: `status`, `def`, `res`, `priority`. MongoDB's single-document
updates are atomic, so an action is one call: `Fetch` is `find_one_and_update`,
`CommitTaskRes` and `ReturnTask` are `update_one` by `_id`, `ResetWaiting` is
`update_many`. `create_task` is two actions, `CreateFind` and `CreateInsert`.
`pc` follows `run_task`: `fetch`, `func` (inside `task_func`), `commit`, and
`return` (inside the handler of `safe_fetch_task`). `FuncRaise` is an exception
or an interrupt before the commit applied; `CommitThenRaise` one after it;
`Crash` ends the process without the handler. A result is only as fine as its
readers need: nothing, a begun recorder, a trained one. Document ids are not
reused, hence `removed` is a status of its own.

`ResetAnytime` and `ReplyMayBeLost` name the two assumptions the module docstring
("ensure every task will be used only once") silently rests on.

### TrainerRM

`phase` follows the trainer: `create`, `run` (the call of `run_task` in `train`),
`wait`, `collect` (reading `res`), `end` (`run_task` in `end_train`), `trained`;
`failed` after an exception or a kill, `keyerror` when a document without `res` is
read. `wait` is entered or skipped as `is_delay()` says. `Worker \ Trainer` are
processes in `worker()`.

### SyncService

`slot` is `_sync_status` as far as control depends on it, `cache` is
`_cache_status` with `_cache_refresh_pending`; both are strings that enumerate
their combinations. `Trigger`, `Claim` and `StartThread` are the three steps of
`start_auto_sync_daily`; the scheduler and the boot claim directly. `Age` lets the
ten minutes pass. `data` numbers the versions of the data directory, `summary`
is the version the published summary was built from, so "older" can be said.
`build_stock_summary` is `BuildRead`, `BuildWrite` (the file is replaced) and `BuildStore` (the copy in memory),
with other steps in between. A `Page` in `load_stock_summary` looks at the copy (`LoadLook`), reads the file
(`LoadRead`), and stores what it has read (`LoadStore`) or asks for a refresh (`LoadMiss`); `memory` is
the version of the copy. Auxiliary: `unstarted` says that a refresh thread has not started
(`BuilderNotStarted`: the status says running before the thread is started, outside any `try`), `late` that a page
has stored what was replaced in the meantime. The directory has instruments (without them the build returns and
writes nothing); a `latest.json` that cannot be parsed is left out.

### BinStore

Dates are numbers, a bar is the day it belongs to, so a bar that slipped is a number
at the wrong index. `StartSync` covers the health scan, the probe and the choice of
symbols; `Fetch` any outcome of the fetch (partial, timed out, no connection);
`PublishCalendar`, `ReadBins`, `WriteField`, `UpdateEndDates`, `UpdateStartDates`
are one atomic file replacement each, and `Killed` or `WriteRaises` may come
between any two. The health scan is taken from the disk (the code may serve a
snapshot of up to two seconds ago, which only moves the day that is looked for).
NaN padding at the ends of the files is not represented, so `_extend_tail_files`
is no step. `BarsToFetch` is `_bars_to_fetch`: so many bars that they reach back to the end date, at most `MaxBars`
(60 in the code), of which `Offered` are the newest there are. Older bars that come with them change nothing, since
days before the end of the calendar are dropped and indexes up to the last close are not written; bars behind a gap that
is longer than the window never come. `skipped` is auxiliary: the symbols this has happened to.

### HealthSnapshot, LivePredictions

`calendar` and `close` are what a scan sees of the files a sync is writing, one file at a time.
A scan is read and stored in two steps (`RequestScans`, `RequestStores`, `WorkerScans`, `WorkerStores`),
as the code scans outside `_health_lock`; the worker stores and leaves `_health_refreshing` in two sections, and may not
start at all. The sync reads or scans a snapshot like a request (`SyncReads`, `SyncScans`, `SyncStores`), and publishes the
target day it has accepted, whatever its write workers have done, or else the day it began with. `claims` is auxiliary: who
holds a day that the closes may not have (a scan that raised, a forced sync, a write worker that raised). A prediction goes through `Resolve` (which day's features it
may use), `LoadDataset` (a dataset shared by all requests, made with the calendar the process has read
once), `Predict`, `ReadHistory`, `ReadFile`, `KeepHistory`, `OpenHistory` (`to_pickle` empties the file, under the lock), `Persist` or
`PersistRaises`; `ReloadRegistry` and `ServerRestarts` drop the copy in
memory. `emptied` is a file whose last write has not finished; such a file cannot be read. `made` and `overlap` are
auxiliary: what was answered, and whether two threads were between reading and writing the history.

### Positions

`disk` is the file, empty between `OpenFile` (mode "w") and `WriteFile`; `Kill` may come there. `Add`,
`Sell`, `SetCash`, `Update`, `Delete` are functions from a book to the answers of the five requests.
`due` counts what the owner has put in and won, so that cash and lots can be compared with it.

### LiveExecution, DailyPipeline

`Submit` takes the first order of the batch through `BudgetAllows` and `VolumeAllows` to `Send`; `ReadAnswer` and
`NoAnswer` follow the five adapters. `wire` is the command the broker has not looked at yet, `answers`
the pipe (only `TcDllBroker` reads an old answer). What the broker takes it sets aside (`buying`, `selling`) and fills later, in
parts or never (`BrokerFills`, `BrokerDrops`). An answer is read as the adapters do: a refusal is an exception, an
answer without a number, or, with `TDXBroker`, a row whose first cell is taken for one; `PostCheck` is what a look at
today's orders may then say. `run_daily` is `RunDaily`, the batch, `SavePositions`; `Die`
may come between any two, and `LateTaken` lets the broker act after the batch has given up.

### CacheLock, DiskCache

`at` is where each thread is in `reader_lock` or `writer_lock`, `content` whether the file is of an expression, whose readers lock
another name in Redis than its writers (`TwoNames`, `gate`), or of a dataset, which `_dataset` reads back without a lock (`ReadAgain`); the short lock is taken with a timeout
whose result is not looked at (`ShortTimesOut`). With `cache_use_redis_lock` off, one re-entrant
lock of the process serves all files. `DiskCache` has one step for each operation, as under that one lock: a cell knows its day and up to
which day it has looked, so a value that should have been made again can be told from a good one.

### Expression, TimeSeriesSampler

A value is the sequence of days it is computed from. `Extension` is `get_extended_window_size`, `LoadSeries`
the evaluation in a range, for references back and forward, rolling, element-wise, pair-wise operators and
`Delta`, nested up to `MaxNesting`. Both are recursive functions over the trees (`load`, `extension`) of one case for
each operator (`OverOne`, `OverTwo`, `ExtensionOfOne`, `ExtensionOfTwo`). The sampler's table is a set of (day, stock); `DataArr`, `IdxDf`, `IdxMap` and
`TakenRows` are the arrays of `TSDataSampler`, with the row of NaN at their end and the slice that is taken
for rows next to each other. `inferDays` is the calendar the segment is extended in, that of the inference frame; it may have
days the frame of the segment lacks, and lack days it has.

### DatasetPreparation, UniverseCache

A frame is its last day and the processors it went through, each with the last day of what its statistics have
seen. `Process` is `process_data` on a heap of frames, since processors write in place and stages copy only
when one of theirs is not readonly; `MakeDataset`, `Configure`, `SetupData` are the calls on `DatasetH`. Left
out: `fit_start_time`, `drop_raw`, the storage classes, processors whose code changes no statistic.
`UniverseCache` is `list_instruments` over `H["i"]`: look, get, load and store are separate steps, each under
the lock of `MemCacheUnit`; `od` and `size` are its fields. Left out: the unit by bytes (`MemCacheSizeofUnit`)
and expiry.

### TopkBacktest, NestedExecution

Amounts are ticks of 0.1 share, money a fraction of a tick's price, so rounding and cost are exact. `StartBar` is
`generate_trade_decision`, then `DealSell` and `DealBuy` one order after the other, then `EndBar` (settlement).
`NestedExecution` has one action for each decision, each executed bar and each end of a loop of
three levels; each level keeps what is left in its strategy and hears one step late what was dealt.

### Recording, FiniteEnv, OnlineRolling

`main` is the script's thread, `caller[r]` the `AsyncCaller` of a run, `calls[r]` its queue with `STOP_MARK`;
`mishaps` names a call that raised, a run started beside another, a run left open. `FiniteEnv` keeps the
buffer and the pipe of a `multiprocessing.Queue` apart, since `get` may time out while the feeder has a seed
in its hand (`crossed`). In `OnlineRolling` a routine is `Train`, `TagOffline`, `TagOnline`,
`UpdatePredictions`, `PrepareSignals`, and may fail between them.

### PolicyTraining

`fitAt` follows `Trainer.fit` and its callbacks: `TrainVessel`, `Validate`, `IterEnd`, `FitEnd`, and the four steps of a save
(`FileWritten`, `Unlink`, `MakeLatest`, `Copied`), between which `KillFit` may come. A policy is the number of the update that
made it. `FitAnew` is a new process, `FitAgain` a second call on the same objects; both start from nothing or from a checkpoint
(`load_state_dict` before `on_fit_start`). A link under a relative `dirpath` is `Dangling`. Left out: `time_interval`, `baseline`, `min_delta`, `MetricsWriter`.

### DumpBin, YahooUpdate, PitStore, PersonalPool

`DumpBin` dumps symbol by symbol in workers that may raise or be killed; a csv file may have gaps and, in an update, days with two
rows (`twice`). The calendar is written in place (`CalendarCut`); a kill leaves whole lines of it.
`YahooUpdate` has a market of ups, splits, dividends and halts; prices and volumes are logarithms, so to scale
is to add. `PitStore` keeps index and records as the files have them, with the position of the file
descriptor; readers are the functions `ReadPeriodData` and `PeriodFeature`. `PersonalPool` selects freely and
models the intervals: `Trimmed` cuts the range out, `MergedSpans` joins.

## 3. Runs

| Run | Instance | Result |
|---|---|---|
| `MCTaskPool` | 2 tasks, 2 definitions, 2 processes, 1 client, 5 calls (four situations, one restricted query), 2 priorities; resets spare live processes | `UsedOnce`, `NoDuplicateDefs`, `LeaseReturned`, `ImplementsBoard` hold |
| `MCTaskPoolFaults` | the same with resets at any time and lost replies | `ResultBacksStatus` holds |
| `MCTrainerRM` | 2 trainers (both plain or both delayed) that share a definition, 1 worker, 3 document ids | `TrainedMeansDone`, `ResultIsThere`, `TrainEnds` hold |
| `MCSyncService` | 2 job threads, 2 builder threads, 1 page, 3 data versions; 899,762 distinct states; deadlock checked | `SlotHonest`, `FailureShown`, `RefreshNotLost`, `SummaryNeverOlder`, `RefreshDone`, `SlotFreed` hold |
| `MCBinStore` | 3 days, 2 equities with six histories of suspensions, 3 field files (one before and one after `close`), at most 2 bars a fetch, 1 kill or exception | `Aligned`, `CoverageTrue`, `FieldsAgree`, `NothingLost`, `CaughtUp` hold |
| `MCServices` | twenty-one parts, one at a time; 1,421,329 distinct states; see below | `TypeOK` and seventeen safety properties hold |
| `MCProgress` | health snapshot, recording and evaluation of `MCServices`, under fairness | `CatchUp`, `RunsEnd`, `EvaluationEnds` hold |
| `MCBinProbe` | 2 days, the probed symbol suspended on the second | `NewDayDiscovered` violated |
| `MCBinSwallowed` | as `MCBinStore` | `WritingComplete` violated |
| `MCDropouts` | the daily pipeline | `DropoutsSold` violated |
| `MCStaleFeatures` | predictions beside a sync | `FeaturesFresh` violated |
| `MCPitUpdate` | the point-in-time database | `UpdatesAppend` violated |

The parts of `MCServices`, what they promise, and their bounds:

| `focus` | Property | Instance |
|---|---|---|
| `batch` | `OrdersAccounted`: each order the broker took is reported, or is the one in doubt; a reported id is its own, or no order's where TDX refused | 5 adapters, batches of 1 and 2 orders of 1 or 2 lots, 2 stocks, dry or not |
| `daily` | `BookTrue`: the book is the account with all orders filled, after each run without kill, doubt or dropped orders | 2 runs, any targets, fills in parts at any time |
| `health`, `predict` | `NoLookAhead`, `HistoryKept` | 1 symbol, 2 days, 2 request threads; `health` with the worker and all that raises, `predict` with a snapshot that stays fresh and a sync that loses nothing |
| `positions` | `FileHonest`: answered edits are in the file, and cash and lots are of one story | 2 requests, 2 edits, a kill, 2 prices |
| `lock` | `WriterAloneInTime`: two writers never meet, nor do a writer and a reader of a dataset | 3 threads, nesting 2, one late reader; expression and dataset files |
| `cache` | `CachesTrue`, its part `CacheTrue`: a cell has the value that a new evaluation would give | 2 instruments, 3 days, one day of look-ahead |
| `backtest` | `PortfolioSound`: cash covers purchases to a tick's price (with late settlement: where a lot brings the minimum cost, section 7); holdings exceed topk only by what could not be sold | 3 stocks, topk 1, 3 bars, prices 1 and 2, volume cap, minimum cost, with and without delayed settlement |
| `nested` | `SplitTrue`: never more than told nor outside the range, TWAP not ahead, all that could be dealt is | 3 coarse bars of 2 fine ones, TWAP and SBB, clipped ranges |
| `record` | `LogsComplete` | 2 runs, 2 calls |
| `collect` | `SeedsOnce` | 2 environments, 3 seeds, queue of 2 |
| `online` | `ModelsTrue`, its part `SignalsTrue`: each day's signal is of the model of its segment | 5 days, segments of 2, 4 recorders |
| `expression`, `sampler` | `FeaturesTrue`, its parts `WindowEnough`, `SamplesTrue`: the answer for a range is that of all days; a sample is the window of its own day and stock | operators nested twice, 5 days, windows of 2; any table of 4 days and 2 stocks, windows of 2, three ways to fill; the segment ends with the data, at most one sample is filtered out, the calendar is whole or that of the frame |
| `prepare` | `FeaturesTrue`, its part `PreparationTrue`: the frames went through the stages of the diagrams, and no statistic is from behind the train segment | shared stage empty or one norm, at most two processors in the other two stages together, 2 days |
| `universe` | `CachesTrue`, its part `UniverseTrue`: fresh after a clear, one entry a key, size right | 2 threads, 2 markets, limit 1, 2 updates, 3 queries |
| `train` | `ModelsTrue`, its part `TrainingKept`: best weights restored, last ones saved, `latest.pth` whole, loss bounded | 3 iterations, 4 updates, rewards 0 to 2, a kill; validation in each iteration, patience 0 or 1, a relative directory with links only |
| `dump` | `BinsInPlace` | 2 symbols, 3 days, 3 runs, csv files of any days and with any of them in two rows, until one leaves out or doubles a day |
| `pit` | `KnownByThen`: each day shows what was published by it | 3 dates, 4 quarters, 2 dumps, kills |
| `splice` | `ReturnsTrue`: returns between stored bars are those of a holder | 4 days of any events, 4 runs |
| `pool` | `PoolTrue`: days nobody asked to update keep their stocks | 2 processes, 3 days, 3 updates (two when they overlap) |

Why the bounds are enough. Two processes on two tasks give every pair of steps on
one task and one task free; a third process adds no new kind of step, and the
safety results are proved for any number. Three document ids let two racing
trainers insert the shared definition twice. A second builder thread is
there so that a refresh which wrongly starts one has one to start; two jobs so that
one can overrun and the other claim. Three versions allow a build of an older one, a
newer one written meanwhile, and a request for it. Three days allow a day before, on and
after a failure; one symbol suffices to be torn and the other to be suspended or
late; the file order has fields on both sides of `close`, whose last value
decides where the next sync goes on. `MaxMishaps = 1` puts the failure anywhere;
recovery from it is complete before the behaviour ends, because days stop at `Today` and
syncs do not. A window of two bars in three days is one that a symbol can fall behind, and one page is enough to be late:
builders replace what it has read.

In `MCServices`: a second request, thread, run or environment is what the races need, and a third thread lets
a writer come between two readers. Two orders are one that fails and one that must not follow. Three bars let
a stock that could not be sold meet new purchases. Three coarse bars give TWAP a first, a middle and a last
one, and two fine ones in each a first and a last. Two segments and a day of the third let a model be replaced
twice. Four days hold two events with a bar on either side, and an update before, between and after. A kill
may come anywhere. Three iterations leave one that is validated, one that is not and one that ends the fit;
four updates let a fit of one process be killed and resumed by another. Two days are one inside and one behind
the train segment. A limit of one makes every second market evict. Each property has a variant of one
definition (in the module, marked "Wrong variant" or named for what it does) that breaks it on the same
instance; of a property made of the promises of several parts it breaks one. Bounds on counters:
`MaxPriority`, `MaxData`, `Today`, `MaxMishaps`, `MaxRuns`, `MaxAsked`, `MaxDepth`, `MaxLate`, `MaxDays`,
`MaxLots`, `MaxEdits`, `MaxBars` (bars of a backtest; in `BinStore` the cap of a fetch), `MaxCalls`, `MaxRecorders`, `MaxDumps`, `MaxRows`, `MaxPitDumps`,
`MaxUpdates`, `MaxPoolUpdates`, `MaxIters`, `MaxReward`, `MaxPolicies`, `MaxKills`, `MaxVersions`,
`MaxQueries`, `MaxProcs`, `MaxWindow`, `MaxNesting`, the last days (`LastDay`, `LastDate`, `LastTradeDay`, `LastPoolDay`, `LastFrameDay`, `DumpDays`)
and in `MCServices` one update that is not followed by a third when two have overlapped, and no dump after one that was
torn or had a csv file with a day missing or doubled.

The liveness of three parts is a run of its own because the tableau of a temporal property over all twenty-one
would be of the wrong size; `MCProgress` uses the same definitions and the same constants.

Deadlock is not checked where the system may stop: no task left and no call made
(`TaskPool`, `TrainerRM`), no day left and nothing to fetch (`BinStore`), scripts and
batches that have come to their end (`MCServices`).

## 4. Fairness

* `TrainerSpec`: a trainer keeps running, and a worker that has been started keeps
  working. Nobody has to start a worker, and failures are never forced. `TrainEnds`
  is stated up to a `mishap`, since a trainer does wait for ever for a task that
  a failed process returned after everybody else had stopped fetching.
* `SyncFairSpec`: the server boots; threads run on once started (requests to the
  quote hosts and the fetch phase have timeouts). Nothing asks for a sync, and pages need not come.
* `BinFairSpec`: days pass; a forced sync with an answered probe is started again
  and again; a fetch ends; again and again a forced sync gets all its bars (strong
  fairness: the quote host is not down for ever, and not exactly for the forced ones);
  the writing steps go on. Without the probe's answer nothing is promised.
* `HealthFairness`: the pages go on asking (they poll), threads that scan get on, and the two seconds
  of a snapshot pass. No sync is forced.
* `RecordingFairness`: the thread of an `AsyncCaller` gets on while it lives, `wait` returns when that thread
  has ended, the exit handler runs. Calls may raise, and nothing has to be logged or ended.
* `FiniteFairness`: the producer and the feeder get on, an environment in `get` gets a seed or times out and
  looks at `_done`, episodes end. The order in which they do is free.

## 5. What is proved

All theorems hold for every value of the constants that the named assumptions of the modules allow
(TLC evaluates them in the runs). These say little more than types and finiteness: finitely many symbols,
field names that differ, a price that is not zero, an instrument to trade, lots of whole shares, calls a trainer may make. Every
safety property of the passing runs is the statement of a theorem. Each proof
has the same shape: an inductive invariant, its three facts (the initial states have it, steps keep it, it
implies the property), with a step for each action. The invariants were first checked by TLC.

`SetLemmas` stands in for induction, which the provers cannot apply: a set of numbers that is not empty
has a least element (`LeastExists`, from the well-foundedness of `<`), so a set of numbers with 0
and the successor of each of its members has them all (`AllNumbers`). From it follow that recursive functions
have solutions, that the sum a fold computes does not depend on the order in which it takes the elements, and
what the sorted sequence of a finite set has at each place.

`TaskPoolProofs`:

* `TypeCorrect`: `Spec => []TypeOK`.
* `ResultsBackStatuses`: `ResultBacksStatus` with no assumption on the operator or the
  replies. The status alone is not inductive: a late `return_task` sets a
  status, so the invariant also says what every process inside the with-block knows of its task
  (one fetched as `part_done` has had a result since, and results never get worse than begun).
* `TasksUsedOnce`: `UsedOnce`, under `~ResetAnytime` and `~ReplyMayBeLost`. The invariant
  (`LeaseInv`) says that what a process holds is running, that it holds it alone, and that
  a trained result only stands in a done or removed document.
* `PoolImplementsBoard`: every step of the pool is a step of `TaskBoard` or changes nothing
  there, from `LeaseInv` and lemmas on what letting go of a task does to the owners. `DoneIsForGood` goes
  back from the board to the pool: since a finished item is only withdrawn there, a task that is done stays done
  here, whatever late commits and returns still come.
* `LeasesAreReturned`: the action property `LeaseReturned`, from the type invariant.
* `NoDefinitionTwice`: `NoDuplicateDefs` for a single client. What a client that is between its two calls
  looks for is still unknown then (`DefsInv`), and nothing but an insert makes a document exist.
* `TrainersUsePool`: every step of the trainers is one of the pool. Hence, as they neither reset nor lose
  replies, `TrainersKeepPromise`: what the docstring of the pool promises, they get.
* `TrainedIsDone`, `ResultsAreThere`: what a trainer has waited for is done, and stays so because what is
  done is not fetched by the calls there are (`TrainerInv`).

`SyncProofs`, first the data:

* `BinTypeCorrect`. Indexes stay in range only because the calendar is strictly
  increasing (one entry per day at most), so the two are proved together; the
  lemmas on the least and greatest of a set of days, and on extending a
  sequence in order, come first.
* `BarsAligned`, `CoverageIsTrue`, `FieldsAreInStep`, `NothingIsLost` from
  `BinInv`. None of the four is inductive: they need to know what a worker half
  way through the files of a symbol leaves (`Progress`: from `write_start` on, the
  files it has replaced hold what was fetched, and neither the close nor a later field,
  until replaced, holds anything) and what one stopped there left behind (`LaterFields`:
  a field after the close is empty where the close is). A torn write can thus
  leave bars before the close in the order of the files, which the next sync
  overwrites, and gaps after it, which none fills; it cannot lose or misplace one.
* `OnlyLostAreMissing`, the other side of the finding `WritingComplete`: when writing is reported complete,
  each fetched bar of a calendar day is on disk, or its worker raised. A worker skips all before `write_start` and all
  before the header, so `WrittenInv` says that no fetched bar lies there: as of the day of the fetch, bars lie in the
  newest `MaxBars` of the symbol (`GapFetched`), no day of the calendar before the header is in that window, nor
  can one come to be, since the window only moves on (`HeaderOK`), and what a worker passes over lies before it or is
  there (`PlanOK`). It says nothing of bars that were not fetched: `WindowFillsGap` is about those. A sync asks for all bars
  since the end date unless they are more than the cap, as 1.5 times the days of the gap and two are never too few.

and then the service:

* `SyncTypeCorrect`, `SlotIsHonest`, `FailuresAreShown` from `SlotInv`: until a living job
  has been cleared as stale, a job active implies that it is the only one and that the slot is
  taken, and a failing job that its error is still there.
* `OneBuilderAtATime`, `NoRefreshIsLost`, `SummaryGetsNewer` from `CacheInv`: the
  status and the thread agree until a refresh thread has not started, what a builder has read is at least as new as the
  summary, and a request newer than both leaves the pending flag or a builder
  that has not read yet. Since there is one builder, the copy it stores is the file it has just replaced; only a page stores
  what may have been replaced meanwhile (`late`).

`CacheProofs`:

* `WritersAlone`, any number of threads, from `LockInv`: two writers never meet, and where readers and writers lock the same
  name, as those of a dataset do, no reader meets a writer. Readers take and free the
  write lock for one another, so mutual exclusion rests on the counter: who is
  at a counting place holds the short lock, the counter is the number of readers inside (a cardinality, with
  lemmas on how a move changes it), and from the first to the last of them some reader's id owns the write lock of the readers,
  which for an expression (`gate`) excludes nobody but readers.
* `UniverseIsTrue` from `UniverseInv`: the size is that of the dictionary and each key is there once
  (`SizeTrue`), and no entry, nor a list a thread is about to store for the same market, is older than what a
  thread that still asks must get (`NothingOlder`).
* `ExpressionsAreTrue`: as long as no update was left out, the cells that an update takes back are exactly those that could not look
  far enough, so what is kept has its final value.
* `DatasetIsTrue` from `TableInv`: rows and index of the file belong to the same day, and the index a process
  holds is that of an earlier file, whose rows are the first ones of this one. The lemmas say where the rows of a
  day are in a table that is put together day by day.
* `CachesAreTrue` is the three of them.

`LiveProofs`:

* `OrdersAreAccounted`, any adapter, batch and account, from `ExecInv`: at most one command is in the channel and it is
  the one that is due; an answer that comes late then belongs to the failed request, and there is no next
  command to read it. What an answer says is then of the order that was just sent, so an id is its own or, of a refusal that
  TDX has answered with a row, no order's. `PipelineOrdersAccounted` carries it over to the batches that the daily pipeline makes.
* `BookIsTrue` from `PipelineInv`: while a batch is out, the account with all it has in hand filled (shares held and being
  bought, cash and the proceeds of sells) is the book plus the orders at the broker, each counted once whatever the order
  of the sum, and those are the orders accepted (`Ledger`); a fill moves an amount from one side to the other.
* `SnapshotIsTrue`, `PredictionsLookBack`, `HistoryIsKept` from `PredictInv`: no scan nor snapshot is ahead of the calendar, and,
  unless it is among `claims`, none is ahead of the market, whose last day only moves on; a request past its resolution
  has features from before its day; until two threads meet, whoever has read the history holds what was answered,
  and so does the file but for the time between its truncation and the end of a write.
* `EditsAreKept` from `PositionsInv`: in every book, read, written or in a thread's hands, cash and lots
  balance with what is due (`AllBalanced`); without a mishap one request at most is under way (`OneStory`).

`ResearchProofs`:

* `FinishedMeansComplete` from `RecordingInv`. Without mishaps the active recorder is the run MLflow has open,
  its queue is what is missing in the store with `STOP_MARK` behind it, and a run nobody has open has an empty queue.
* `SeedsArePlayedOnce` from `FiniteInv`. Pipe and buffer hold the seeds that are put and not taken, in order;
  each one taken is with exactly one environment or finished; an environment is exhausted only when the producer
  is done and nothing is on its way.
* `SignalsAreTrue` from `OnlineInv`: each segment has one recorder, each recorder predictions for
  its days up to the last update, the last one is online, and the days that are served have had theirs.
* `TrainedIsKept` from `TrainingInv`: the file of an iteration holds what training had then; the best
  weights are those of the best validation so far; `latest.pth` is the newest file unless a save is under way, and
  the iterations that are due have been saved; a link under a relative directory is dangling and nothing more is said of
  it. `ModelsAreTrue` is both.
* `OrdersAreSplit` from `NestedInv`: what each level believes is left differs from what is left by what it has not
  heard of yet (`Accounted`), and by no more; the lemmas are about quotients and remainders, of which the provers
  get each as a step of its own.
* `PortfolioIsSound` from `BacktestInv`: the stocks that are kept and those still to be bought are at most topk (`Room`), which
  the sorted lists of the strategy establish and each sale or purchase keeps, whether it can be dealt or not; amounts
  are whole lots, and the cash that is owed is not negative where sales pay for themselves.

`DataProofs`, first the scripts:

* `DumpsAreInPlace` from `DumpInv`: a symbol that a run has still to do ends where `all.txt` says it does, the
  others where the run has brought them. Without days missing or doubled, the days of a symbol's own rows are those of the calendar
  behind its end, so that what is appended is in step with it; a calendar that was cut is shorter than before (torn) or
  still holds every day of a bin.
* `ReturnsAreTrue` from `YahooInv`: all stored bars have the same distance from the wealth of a holder
  (`OneScale`), a good map knows a stored bar, and bars newer than the map came in a download with its day.
* `PoolIsTrue` from `PoolInv`: the file is in order whoever has written it, what an update is about to write differs from
  what it has read on the days of its range only, and a merge covers the days its intervals did (`MergeOk`, kept by each
  step of the recursion).
* `KnownThen` from `PitInv`: each record points at the next one of its quarter (`Linked`), the index at the
  first (`Indexed`), and dates never decrease in the file; so the walk to the last record
  before a date, which ends (`WalkExists`), ends at the newest revision of that date.

and what models learn from it:

* `PreparationIsTrue` from `PreparationInv`: `StageOK` says what a stage has done after n of its
  processors (it works on a frame of its own as soon as one writes, earlier frames are as they were, the
  path has n more steps) and is kept by `RunProc`, hence by the recursion; the statistics there are have
  seen nothing behind the end of the last fit (`SeenToFit`), and that is in the train segment unless
  doubted (`FitInside`).
* `WindowsAreEnough`, for trees of any depth. By induction over the depth (`AllNumbers`) there are levels of trees
  (`LevelsExist`, `TreesAre`), and the recursive functions `load` and `extension` have their values (`LoadExists`, `ExtensionExists`); then
  each operator only looks at values within what it asks its operands for (`ShiftLocal`, `WindowsLocal`, `BothLocal`), so
  the series loaded in the extended range agrees with that of all days in the range itself (`LoadLocal`). `Delta` is
  left out by the property, see section 7.
* `SamplesAreTrue`: the array has each row of the frame once, by stock and day (`InOrderIs`); `IdxDf` finds a row
  exactly when the frame has it (`IdxDfIs`); filling indexes is filling rows (`FfilledIs`, `BothWaysIs`); and indexes next to
  each other can be taken as a slice, because the row of NaN stands behind all others (`TakenAre`). That the window is whole
  is a matter of counting: of the days before the segment that the window needs, none is missing from the frame
  (`NoDayDropped`), so the frame has as many of them behind `PadStart` as the calendar.
* `FeaturesAreTrue` is the three of them.

Types. Each of these modules proves the type invariant of its components (`ExecTypeCorrect` and seventeen
more). Some follow from the invariants above; others need one of their own, for types say "not less than zero" and
"a day there is": the book of the daily pipeline never goes below zero since one batch sells a stock once
(`PipelineTypeCorrect`), what a nested level believes is left is a natural number since it is behind by less than that
(`NestedTypeCorrect`), links and index entries of the point-in-time files are places (`PitTypeCorrect`).

`ServicesProofs` carries all this over to `MCServices`, which is what the run checks. Each step of the composition is
one of the component in focus and leaves the variables of all others alone (`ServicesMove`), so a behaviour of it
is one of every component (`ServicesRun`), with two exceptions: orders come from batches in one focus and from
the daily pipeline in another, and the specification of the environments states a fairness that is assumed in its focus
only. For these two the invariants themselves are carried through the composed steps (`OrderingInv`, `ServicesCollect`). `ServicesTypeCorrect` and `ServicesAreTrue` are
the eighteen invariants of the run, for every value of its constants.

## 6. Findings

Five runs expect a violation, each of a sentence the code or its comments say;
`PROJECT.json` quotes them:

* one suspended symbol hides new days of the whole market (`sync.py:715`);
* an exception of a write worker is lost (`sync.py:1119`), and nothing else makes the message untrue (`OnlyLostAreMissing`);
* a stock that drops out of the targets is never sold by the daily pipeline (`live_signal_pipeline.py:547`);
* a prediction after a sync in the same process uses older features than those of T-1 (`data/data.py:186`);
* an update of the point-in-time database writes over its first records (`dump_pit.py:238`).

## 7. Where properties stop

The code does the following, and the properties are stated so that they say so:

* `create_task` looks up and inserts in two calls: two clients at a time do insert a definition twice (`manage.py:240`).
* `DelayTrainerRM.train` may raise `KeyError` when another trainer prepares a shared task, and its
  `skip_run_task` is not restored after an exception (`trainer.py:699`).
* A sync of more than ten minutes is joined by a second one (`sync.py:67`), and a forced sync before the
  close stores the unfinished bar of the day (`sync.py:604`); the latter is not modelled.
* A refresh thread that does not start (`sync.py:136`) leaves the status of the summary at running: each later request only
  sets the pending flag, until the server restarts. `OneBuilder`, `RefreshNotLost` and `RefreshDone` speak of the time before.
* A page that reads `latest.json` while it is replaced stores the older one in memory with a new time, so that pages
  see it for up to 900 seconds (`stock_cache.py:153`). `SummaryNeverOlder` allows this to that page.
* A fetch brings sixty bars at most (`sync.py:486`), where the comment says "Fetch the smallest history window that can
  fill that symbol's own gap" (`sync.py:823`): behind a longer gap the bars before the newest sixty never come, and a new
  installation begins with sixty. `CaughtUp` leaves out the symbols this has happened to, `OnlyLostAreMissing` the bars.
* The health snapshot names a day without a close after a scan that raised (`sync.py:424`), after a forced sync, which asks for
  no coverage, or when write workers have raised (`sync.py:1149`); a sync without a target publishes the day it began
  with, which may be older. A refresh worker that does not start (`sync.py:465`) leaves its directory among those being
  refreshed, and the old snapshot is served for the life of the server. `SnapshotTrue` and `CatchUp` say so. Left out:
  a forced sync whose only new day lies before the end of the calendar, which publishes that older day.
* Two threads between reading and writing the prediction history, or the positions, lose one change.
* The prediction history is written in place (`model_service.py:398`): when the server is killed in it, or the disk is
  full, the file cannot be read any more, and once the copy in memory is gone each load raises. `HistoryKept` says so (`emptied`).
* `TDXBroker` takes the first cell of an answer for the order id, and an error object of the gateway is a row
  (`tdx/protocol.py:65`, `tdx/broker.py:200`): a refused order is reported as accepted, with an id that is no order's.
  `EasytraderBroker` (`easytrader_broker.py:312`), `TDXBroker` and `XiadanBroker` accept an answer without a number.
* The book of the daily pipeline counts what was accepted: orders without an id, and orders that are never filled, are in
  it as bought and sold (`live_signal_pipeline.py:591`), and it is never compared with the account. `BookTrue` is about
  runs after which nothing was in doubt or dropped, and about `EasytraderBroker`: of the other adapters, paper has no account, the
  sells of two are refused for want of positions, and TDX reports refused orders as accepted.
* With local locks, or after a reader has waited for the short lock in vain, a reader meets a writer (`cache.py:329`).
* With Redis, the readers of an expression cache lock `expression-<uri>` (`cache.py:610`) and its writers `<data_uri>:expression-<uri>`
  (`cache.py:637`, `681`), which are two locks, although the comment says that the reader lock "is re-enabled for distributed
  safety" (`cache.py:606`): they do meet. `_dataset` reads back what it has written with no lock (`cache.py:836`). `WriterAloneInTime` is about two
  writers, and about readers of datasets that lock. `update` names the lock of an expression without its frequency, which
  makes no difference where all frequencies have one directory. `DiskCache` has each operation as one step, which is so
  with the one lock of a process.
* `Delta(x, N)` asks for one day too few before the range, so its first value is NaN (`ops.py:1193`).
* A range of an atomic executor is not looked at, and SBB does not look at it either; when
  selling, SBB leaves an odd lot (`rule_strategy.py`).
* With the settlement at the end of the bar, several sales that cost more than they bring are each paid out of the
  same cash, so that cash can become negative by more than the rounding (`exchange.py:934` looks at one sale at
  a time). `CashCovered` leaves out this case: lots whose value is below the minimum cost.
* By day and stock, a sampler answers the question for a stock without any row with the next stock that has
  one (`dataset/__init__.py:624`), and days before the segment with windows that are cut.
* The calendar in which a segment is extended is that of the inference frame (`dataset/__init__.py:710`). When a processor has
  dropped all rows of a day there, or of one that the calendar has in the frame of the segment, windows begin too late:
  they show NaN for days the frame of the data has, though the code promises "more data for complete time-series"
  (`dataset/__init__.py:733`). `SamplesTrue` leaves this out (`NoDayDropped`).
* `TWAPStrategy` says in its docstring that it deals small orders earlier, with amounts rounded up (`rule_strategy.py:26-27`);
  the code rounds to the nearest unit (`rule_strategy.py:105`). `NotAhead` follows the code, at most half a unit ahead of the
  schedule; by the docstring it would be up to one.
* In the Yahoo update a halt on the last stored day turns what is downloaded after it into NaN, and a download
  without the last stored day is appended as it is.
* A thread that has found its market in the memory cache of universes gets a `KeyError` when another one evicts
  or clears it before the next call (`data.py:730`).
* `Checkpoint.on_iter_end` adds one to a counter that has moved already (`callbacks.py:261`), so `every_n_iters=2` saves after
  iterations 1, 3, 5, where the docstring says "at the end of every n iterations". Callbacks that serve a second `fit` may leave its
  end unsaved, since the number of the last checkpoint stays. What `EarlyStopping` finds in a checkpoint
  is wiped by `on_fit_start`. A kill while `latest.pth` is copied leaves it torn.
* With `save_latest="link"` and a relative `dirpath`, the link names `dirpath/name` and is read from within `dirpath`
  (`callbacks.py:284`), so that `latest.pth` leads nowhere (`train_onpolicy.py:148` copies, and its test gives an absolute path). `TrainingKept` says nothing
  of `latest.pth` then (`LinkLost`); the checkpoints under their own names are there.
* `dump_update` appends the days of a symbol's own rows (`dump_bin.py:506-517`): a csv file that leaves out a day of the calendar, or
  has two rows of one (of which the frame drops one at `dump_bin.py:291` and the list of days none), shifts all later values of
  the symbol. `calendars/day.txt` is written in place (`dump_bin.py:213`), and a kill in it loses its last days. `BinsInPlace`
  leaves these out (`gapped`, `doubled`, `torn`).
* `DatasetH.config` changes the segments before it asks whether they are allowed, and a train segment that is moved back
  without a new fit keeps statistics of days that are now behind it (`dataset/__init__.py:179`).
* `HashStockFormat` does not return a frame, so a handler refuses it with a `TypeError` (`handler.py:560`), though
  `test_handler_storage.py:73` makes one with it.
* Overlapping updates of the personal pool take one another back, and one that read the calendar before a
  day was added drops that day (`personal_dynamic_pool.py:246`). Its liquidity filter asks for 120 closes in
  the last 120 trading days, so one suspended day excludes a stock, while the docstring asks for 120 observations. The
  bounds on the size of the pool only end an update, like a death, in an instance with one stock.

## 8. What is only model-checked, what is left, and the plan

Only model-checked: liveness (`TrainEnds`, `RefreshDone`, `SlotFreed`, `CaughtUp`, `CatchUp`, `RunsEnd`,
`EvaluationEnds`), which is out of the prover's reach under fairness.

Not modelled:

* prediction models, ensembles, strategies that optimise weights, reports: floating-point numerics
  over third-party libraries; there is no state between calls to go wrong;
* what a processor computes in a frame, column by column, and the storage classes behind a handler;
* web pages, the quote client, the probe of the trading terminal's windows: presentation and network
  input, without a protocol of their own;
* the other collectors (TDX, indexes, funds): download and normalisation; what they write goes through `DumpBin`;
* cancel and the queries of the brokers, `simulate` and delayed training of the online manager, the memory
  cache by bytes and its expiry, searching and deleting of experiments, loggers and vessels of the RL
  training: operations of modelled components that share no state with those that are modelled, or repeat
  them.

Plan, in this order: provisional bars of forced syncs in `BinStore`; `simulate` and
delayed trainers in `OnlineRolling`.
