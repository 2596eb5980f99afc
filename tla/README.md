# A formal model of CandleStack

TLA+ models of CandleStack (`src/backend/src/candlestack`, written `candlestack/` below, and the
chart's data in `src/frontend/src/features/instrument`), the TLC runs that check them on small
instances, and proofs of their main properties for every instance. `PROJECT.json` maps every
definition to the lines it models, and lists the runs, the hazards and the theorems.

    tlc -workers 2 -config MCAccounts.cfg MCAccounts.tla     # one run
    tlapm Accounts_proofs.tla                                # one module's proofs

## The system

CandleStack serves market data, accounts and uploaded Keras models through an HTTP API, runs
backtests from the command line, and shows them in a browser. Several API processes, each one
asyncio loop with a thread pool, share one Postgres, one Redis and one directory of model files,
and call the public data sources Binance and Alpaca.

| component | state | operations | what is hard | what makes it correct | module |
| --- | --- | --- | --- | --- | --- |
| **Data cache** `data/cache.py` | per name in Redis: value, kept failure, lock; per process: Redis is down until | `get_or_fetch` | callers in several processes; locks that run out; lost answers; cancellation, crash | one fetch at a time while its lock lives; no fetch of what is there; all get one outcome; all end | `SingleFlight` |
| **Model uploads** `ml/service.py`, `store.py`, `storage.py`, `uploads.py` | rows and an advisory lock in Postgres, files and incoming files on disk, an upload lock in Redis | `upload`, `update`, `delete`, account deletion hook, sweep | two storages without a common transaction; COMMITs whose answer is lost; crashes between file and row | rows have files and files rows; quota; names; nothing after the account | `ModelUploads` |
| **Model check** `ml/inspect.py`, `sandbox.py` | none | check of one file in a child process | nested documents, links that form circles, limits | only built-in layers, only whole files, the right counts and shapes | `ModelCheck` |
| **Accounts** `accounts/service.py`, `store.py`, `pending.py` | users, identities, sessions in Postgres, row locks, pending states in Redis | start and finish of sign-in and connect, disconnect, sign-out, sign-out everywhere, delete | reads before the provider is asked, writes after; repeated callbacks; concurrent removals | one user per email; one account per provider and never none; ended sessions stay ended | `Accounts` |
| **Statistics** `data/stats_store.py`, `spark_store.py` | a frame per process, the shared frame and lock in Redis, a table built in a thread | `_refresh`, `_reload`, `table` | refreshes of several processes; awaits between read and adoption; a table older than its frame | the shared frame never goes back; rows stay until too old; served rows are young | `MarketFrames` |
| **Catalog** `data/catalog_store.py`, `catalog.py` | per process a list of each market, one catalog built from them and its join with the stats; the lists in Redis | `catalog`, `missing`, background load and refresh, search | loads and refreshes that end in any order; a list adopted while a thread builds; a join shared by threads | the catalog is that of the lists of now; lists never go back; pages are of one refresh and best first | `CatalogStore`, `InstrumentSearch` |
| **Rate limiter, budgets, sources** `core/ratelimit.py`, `core/http.py`, `data/sources/*.py` | counters per window in Redis, a pause | `hit`, `spend`, `get`, `request_with_retry`, refreshes of many requests | a clock read before the counter; retries; one failing symbol in a batch; the source that limits | no window over its limit; each stock answered, refused for itself or not answered; all end | `SourceRequests` |
| **Candle service** `data/service.py`, `candles.py`, `sessions.py`, `plan_periods` | cached chunks | candles of a period, last candles | a clock that moves between the steps; chunks that expire or are shared; session boundaries | a set is whole up to when its chunks were fetched; the last candles are counted right | `CandleService`, `CandleBins` |
| **Engine** `engine/*.py` | position, stop, capital, peak | one candle after the other | fill, stop, signal and drawdown limit at one candle | a row holds the position of the decision in force; no stop is missed; a halt is final | `BacktestLoop`, `TradingAccount` |
| **Signals** `signals/*.py`, `cli/post_processing.py` | none | alignment, calibration, filters, rules, holding | off by one at an entry, a tie, a gap; looking ahead | each step is what it says; what is decided stays | `Signals` |
| **Metrics** `metrics/summary.py` | none | statistics of a run | no trades, no days, losses from the first row | the statistics agree with each other | `Metrics` |
| **Experiments** `experiments/*.py` | rows | seed of a sample, star, lists, counts | two seeds at once; a model removed or an account closed meanwhile; locks in two orders | the seeded rows are those of one run; no row names a model that is gone; requests act at once on the rows; lists add up; all end | `Experiments`, `UserBacktests` |
| **Command line** `cli/run.py`, `run_all.py` | result files | `run`, `run-all` | files that change while they are read; some stocks or models fail; a kill between two files | every combination has results or a named failure; the exit code tells; the record comes last | `RunCommands` |
| **Chart data** `useCandleHistory.ts`, `bars.ts`, `api/candles.ts` | pages in the browser | the latest page, older pages, the bridge, retry, restart | pages late, out of order, failing; the latest page moves on | no hole in what is shown, and nothing of it lost | `CandleHistory` |
| First candles, icons, OAuth client, core wiring, pages, deployment | - | - | - | - | not modelled, see below |

The components meet in a few places. All data clients call `get_or_fetch` or hold a lock by the
same Redis commands. Deleting an account calls the hook of `ml/service.py` inside its own
transaction: `ModelUploads` models the hook with the rows it removes, `Accounts` the rows of the
account, `Experiments` what the deletion and the removal of a model do to the backtests. A search
joins the catalog of `CatalogStore` with the table of `MarketFrames`. A chunk of `CandleService` is
fetched by `SingleFlight` through the requests of `SourceRequests`; a page of `CandleHistory` is a
set of `CandleService`. `RunCommands` runs `Signals`, then `BacktestLoop`, then `Metrics`. OAuth is
a talk with the provider, one step that ends with an account or fails.

## The modules

Every module has the same form: the constants and their named assumption, the variables, `TypeOK`,
`Init`, the helpers, one action per step of the code, the environment, `Next`, `Spec`, fairness,
and the properties. A request is at a place `pc[r]`; an action is what the code does from one
await to the next, so everything others can do in between is another action in between. Failures
are actions of their own: a command of Redis or Postgres that raises (applied or not), a cancelled
request, a process that dies, a lock or key whose time is over. History variables are named as
such and no action reads them. Operators whose comment begins "Wrong variant" or "A wrong form" are
plausible mistakes in the code: no specification uses them, and putting one in the place of the
definition it is a variant of makes a run find the property violated that `PROJECT.json` names
under "mutants".

### SingleFlight

`value`, `failure` and `lock` are the Redis keys of one name, each as the request that wrote it;
`down` is `_down_until`, per process. `Lookup`, `Take`, `Recheck`, `FetchSucceeds`, `FetchFails`,
`FetchBreaks`, `Store`, `Keep`, `Release`, `Sleep` and `DirectEnds` are `get_or_fetch` from await
to await; `RedisFails` is a command that raises, `Cancel` and `Crash` end requests, the `Expires`
actions end keys. Time is abstract: a lock may run out at any step, so a fetch may outlast it.

### ModelUploads

`name` is the rows of one user (None without one), `account` the user's row, `txlock` the advisory
lock, `uplock` the key in Redis, `files` and `incoming` the storage. An upload goes through
`Hold`, `Usage`, `Receive`, `Verify`, `LockModels`, `Room`, `PickName`, `Flush`, `Save`, `Commit`
and, when one of them fails, `Undo` and `Discard`, then `Release`; a change, a removal and the
deletion of the account are the other groups of actions. A COMMIT that raises was applied or not
(`CommitFails`), also when the process dies (`Crash`). Names are numbers: the code appends the
first free one.

### ModelCheck

What `inspect.py` does with a file, check after check: `IndexFails` and `MembersFail` (the zip),
`FirstCustom` with its stack and the flag of what is for training only, `SizesUnder` and
`CountParameters` with hard links only, `InputShape` and `OutputShape`, and `Inspect` in the order
of the code. A JSON document is its nodes in document order, an HDF5 file its objects and links.
`OnlyTheAllowedLoads`, `WeightsAreCounted`, `ShapesAreReal` and `OnlyWholeFilesPass` say what each
is meant to find without the stack, the walk or the order.

### Accounts

A trip is an OAuth round trip, a call one request of its callback, which a browser may repeat.
Users and sessions are named by the call that makes them. `TakeState` is GETDEL, `FindSession`,
`ExtendSession` and `DropSession` are `signed_in`, `FindIdentity`, `FindUser` and `FindByEmail`
the reads of `finish_sign_in`, `LockUser` the SELECT ... FOR UPDATE, `CheckProviders` and
`CheckMethods` what is read under it, and `Save`, `Remove`, `SignOutEverywhere` and
`DeleteAccount` a transaction's writes with its COMMIT. `Insertable` is what the constraints of
the tables allow. Reads are those of READ COMMITTED: each sees what is committed at that moment.

### MarketFrames

One market with the instruments `Symbols`. A frame has the time of its fetch and of each row;
`stored` and `lock` are in Redis, `entry` and `table` in each process. A task (the refresh job of
a process, or a search) is at `pc[t]`: `Head`, `Get` and `Decode` are `_reload`; `Lock`, `Fetch`,
`Store`, `Unlock` and `AdoptFetched` are `_refresh`; `ReadTable` and `BuildTable` are `table`.
`Onwards` is the decision `_due`, taken before the lock and again under it. The clock has `MaxNow`
steps. A job renews its lock while it runs, so its lock ends only by a failure (`LockExpires`).
`alone` holds the refreshes that have the lock for sure: no failure granted it, and nothing
came between that the lock could not keep out.

### CatalogStore and InstrumentSearch

In `CatalogStore` a list of instruments is the time it was fetched at, `Unreadable` when it cannot
be decoded; `stored` is Redis, `entries`, `catalog` (as the entries it was built from), `version`,
`failed`, `resting` (`_next_refresh` lies ahead) and `loading` the process. `Search`, `Gather` and
`Build` are `catalog`, with the loop that builds again when `_version` has moved; `Entry`, `Load`,
`Decode`, `Drop` and `LoadBreaks` are `_entry` and `_load`, of a search or in the background
(`Background`); `Get`, `DecodeStored`, `Lock`, `Fetch`, `Store` and `AdoptFetched` are `_refresh`.
`get_or_fetch` is one step with the outcomes `SingleFlight` describes. Other processes store and
Redis drops lists at any time (`OthersStore`).

`InstrumentSearch` goes on with the catalog: `Rank`, `Keys`, `Filtered` and `Page` are the ranking,
sorting and paging of `Catalog`; `TakeStats` is the await of the store, `ReadJoined`, `KeepJoined`
and `CutPage` the thread, which reads and writes the join `_joined` it shares with other threads.

### SourceRequests

`used` are the counters of the present and the last window, for the whole budget and the share of
the refresh; `read` is the window of the clock a hit read before it counts. `ReadClock`, `Count`,
`HitUncounted` and `HitFails` are `hit`, `CounterExpires` the end of a counter of the last window
(`renewed`: unless a hit was counted in it since the turn), `Waits` and `Woken` the one wait of `spend`, `Resent`,
`BackedOff` and `Answered` `request_with_retry` and `get` with every answer a source may give.
`Ask`, `GiveUp`, `AskAgain`, `Narrowing`, `Narrow` and `Finish` are the rounds of `_in_batches` and
of the daily candles of Binance, whose pause is `paused`. `refresh` has what is left to ask, what
failed and what was answered, refused or given up.

### CandleBins and CandleService

`CandleBins` has no state: `ExpectedBins`, `BinEnd`, `ClosedOnly`, `ResampleSessions`, `FindGaps`,
`CandleCount`, `FirstOfLast`, `LatestEnd`, `Suggest`, the calendar helpers and `PlanPeriods`, for a
market with fixed bins or with sessions. `IsCalendar` is what the calendar's builder keeps to: sessions
in order, one after the other, none over a midnight. A request of `CandleService` goes through `Ask`,
`LookUp` (which reads the clock), `Refuse` or `Load` or `CountLast` (which reads the live chunk first),
`Read` for each chunk in any order, and `Assemble`. `cache` is the chunks that are shared by all
requests; `Lose` and the clock end them. A candle is the set of base candles in it, so a candle
that is cut off, or made of the wrong ones, is another candle.

### BacktestLoop and TradingAccount

The row of the loop in its steps: `Fill`, `CheckStop`, `Decide`, `Mark`, `CheckDrawdown`, or
`SkipRow` after a halt, and `End`. Prices, fees and capital are fixed-point numbers; any signal may
come at any row, so one behaviour is one run of a strategy. `Raise` is the division by an entry price
of 0, of a short with a slippage of 10000 basis points, which ends the run without a result; a larger
slippage enters a short below 0, where the arithmetic goes on as in the code. `TradingAccount` is what is promised of
the account: a position is opened, closed or turned, the capital moves when one is closed, and a
halt is final. `Account` in `BacktestLoop` is its instance, `AccountSpec` the refinement.

### Signals, Metrics and Fractions

`Align`, `Rank`, `Zscore`, `Ema`, `Threshold`, `Hysteresis`, `Kmeans`, `LongOnly`, `Confirm` and
`MinHold` are the functions of `signals/`, `Prepare` and `Decided` their order, `Accepted` the check of
the options. A behaviour is a model that predicts one time after another; the signal is computed
anew each time, as the command does. A step that carries a value from row to row (`Align`, `Ema`,
`Hysteresis`, `Confirm`, `MinHold`, `SumOf`) is a recursive function over the rows. `Metrics` is
`stats` and `drawdown`. Both compute with exact fractions (`Fractions`); what has a square root
stands as its signed square.

### Experiments and UserBacktests

Every request is a transaction: `want` is the locks its statement still needs, `got` those it has
until it ends. `FindUser`, `DeleteSeeded`, `LastNumber`, `AddAll`, `Insert` and `CommitSeed` are
the seed command, `SelectBacktest` and `CommitStar` a star, `Rename`, `DeleteModel` to
`CommitRemoval` and `DeleteModels` to `CommitClosing` what other modules do to the table, with
ON DELETE SET NULL and CASCADE. `Acquire` is a lock granted, `Deadlock` Postgres ending one of a
circle, `Crash` a lost process. `Paged`, `Counts`, `ModelCounts`, `Best` and `ModelUsage` are the
queries of the lists. `UserBacktests` is what the
user is promised: a star, a rename, a removal and the end of the account act at once on what is there,
or not at all. So does a run of the seed command on the backtests (`Replace`); for the models of its own it
has a step before that (`Choose`): it reads them at one moment, and a model renamed between that and
its commit is found by the name it had. All that it found must be there at the commit. `UserBacktests` has the same user,
models and rows, what each run chose (`Chosen`, read off the backtests it adds), and no locks; its
steps are the commits and that reading, all else is a stutter. It catches a commit that writes what an
earlier statement read, as a star that wrote every column back would.

### RunCommands

`Start` is parsing and the checks before any file is read, `Stock` a stock that is read and
backtested in this process or a worker, `Hash` its SHA-256, taken later, `Report` the output in the
order of the folders, `OpenFile` and `CloseFile` the files of `_write` one by one; `WriteFails`,
`Break` and `Change` (of the inputs) may come at any step. `Break` is a kill, without an exit code,
or the traceback of a dead worker or of an error nobody expects, whose exit code is 1 like that of a
run-all with a failure: so `ExitCodeTells` says of 1 only what the command's own means (`CameToEnd`
in the other properties). One command at a time writes to an output folder. `FailedStocks`, the stocks left
without a result for a model asked for, decide the exit code; `ResultsAreComplete` checks that they
are those of the list of failures the command writes.

### CandleHistory

`latest`, `bridge` and `older` are the queries, each with its page, whether it is fetched and its
error; `shown` is the frame that was last ready. `Rendered` is what a change of any query does:
`bridgeTo`, `tooFar`, `ready`, `summarize` and the restart. `LatestEnds`, `BridgeEnds` and
`OlderEnds` are answers, in any order, `LoadOlder` the user at the left edge.

## The runs

| run | instance | what it shows |
| --- | --- | --- |
| `single_flight` | 3 callers in 2 processes, `MaxExcuses` 2 | one lock, kept until it is given back or runs out; nothing that is there is fetched; a source call beyond the first has an excuse; one outcome for all in calm runs; every call ends |
| `models` | groups of up to 4 requests of 3 uploads, a change, a removal, a deletion | quota, names; rows and files belong together but for the named exceptions; nothing is kept after the account |
| `model_live` | one request of each kind | nobody waits forever for the advisory lock or a row, incoming files go |
| `accounts` | groups of 2 sign-ins, a connect, a repeated callback, 2 removals, a sign-out everywhere, a deletion; 4 accounts of 2 providers with 3 emails | every user can come back (one user per email, one account of a provider, at least one in all), nothing is left of who is deleted, accounts do not move, sessions do not come back |
| `market_frames` | 2 processes with a search in the first, 2 instruments, one failure | the shared frame never goes back, rows stay until too old and are not served longer |
| `catalog` | 2 searches, 2 markets, `MaxNow` 1, one refresh and 3 loads at work at once | the catalog is that of the lists of now, lists never go back |
| `backtest` | up to 5 rows of 5 candles (flat, up, down, a spike, a jump), both fills, with and without stop and drawdown limit, slippages below, of and above 100 %, every signal | the position is the decided one, no stop is missed, `TradingAccount` is implemented |
| `sources` | a refresh of 4 stocks of which one may be refused, in batches of 3 or one by one, and a chart; limit 2, share 1, 2 attempts, 2 pages, one failure | no window over its limit (over twice of it where a counter expired before a late hit), each stock has one outcome, every call ends |
| `algorithms` | predictions of up to 7 candles with and without a gap for each kind of option; runs of up to 3 rows; model files of up to 5 nodes, 4 objects, 3 layers; 6 instruments with two refreshes | `Signals`, `Metrics`, `ModelCheck` and `InstrumentSearch` against what they are meant to compute, and no look ahead |
| `candles` | 2 requests of a pair with outages or of a stock with three short sessions, up to time 15; charts of 3 histories with pages of 2 | sets are whole and counted right, chunks fit the calendar; the chart has no hole |
| `experiments` | 2 seeds of 2 backtests, a star, a removal, a rename, a closed account, 3 backtests of before, in groups | one seed's rows, `UserBacktests` is implemented, lists that add up, every request ends |
| `run_all` | 2 `run-all` or 2 `run`, 3 folders of which one is hidden, 2 models, 2 thresholds, 2 stop losses, 1 or 2 jobs, one change of the files | results are complete, the record comes last, the exit code tells |

`MCAlgorithms` puts four modules without common state into one run: a state is the start of one of
them, the inputs of `Metrics` and `ModelCheck` are initial states, and `Signals` and
`InstrumentSearch` take their steps from there. `MCCandleService` does the same with the chart.

**Bounds.** Three callers are a holder, one whose lock ran out meanwhile and one that comes after
both; two share a process because `_down_until` is per process. Two uploads race for the last
place or name; a third stands for what was there before and is large, so that either the quota or
the number of models is what stops an upload. Two sign-ins meet for an email, two removals for the
last method, a callback is repeated once. Two instruments tell a row that was fetched from one
that was not; a clock of 2 with `RefreshAfter` 1 and `Keep` 2 lets a frame be fresh, due and too
old. Two searches are two threads that build, or join, at once, or one that waits for a market while
the other has left it to the background; each comes once, and a list fetched at 0 is old at 1. Five
rows are an entry, a stop, an exit, another entry and the end; a batch of three is halved twice, and
four stocks make a second batch. A long session, a day without one and two short ones
put the ends of chunks and of candles inside and outside of sessions; seven predictions are one more than the window of
the fit with three groups. Two files of two folders with two models have a stock that fails, a model
that fails and both. A chart of eleven candles in pages of two reaches its oldest page, has pages
without a candle and a bridge that gets too far. `MaxExcuses` stops a counter that only
properties read; `MaxFaults` bounds failures, `MaxNow` and `ClockMax` the clocks, `MaxChanges` the
changes of files, `Pages` the pages of an answer.

**Constraints.** Where all requests at once are too many states, a CONSTRAINT named `Together` of
the MC module lists the groups that come at once; each group has the requests that can disturb one
another, and requests that only prepare what the others need (the first sign-in of a user) run
alone. In `MCMarketFrames.cfg` a failure meets refreshes only: the search is explored without
failures, the refreshes with one. `FewTasks` of `MCCatalogStore` bounds the loads and refreshes at
work at once; `Bounded` of `MCRunCommands` keeps the hidden folder and lets a second command find
all as it was. States that a constraint excludes are not explored further. The liveness of
`experiments` is checked under `Together` all the same: it depends on who came only, nobody is
obliged to come, and so each behaviour within a group is one of the whole. The other runs with
liveness have no constraint. `Permutations` of interchangeable uploads, instruments, markets,
searches, callers or commands is used as SYMMETRY only in runs of safety properties, and the
definitions treat those values alike.

**Fairness.** `WF_vars(Step(r))` for a request: asyncio schedules every ready task, and every wait
for anything but a lock ends by itself (the timeout and the bounded number of attempts of
`core/http.py`, the timeouts of the connections in `core/db.py` and `core/redis.py`, the limits of
the model check). A row lock or an advisory lock is waited for without a timeout: that its holder
gives it back is what the runs check. Weak fairness is enough as a waiter is overtaken only by
finitely many requests. `SingleFlight` also assumes that Redis ends a lock left by a crash (`PX`),
`ModelUploads` that the sweep of `keep_incoming_swept` runs, `SourceRequests` that the clock goes
on, `Experiments` that Postgres finds a circle of waiting transactions (`deadlock_timeout`). No
fairness is assumed of arrivals, failures, cancellations, crashes, of the end of "Redis is down" or
of a pause of Binance. The other modules have no liveness property, and assume no fairness.

`CHECK_DEADLOCK FALSE` stands where all requests may be done.

## Where the code and its documentation disagree

No run depends on these; the models have the behaviour of the code, and the properties name the
exception where one is needed.

- `ml/service.py:299` deletes the file whenever the COMMIT raised, also when Postgres applied it;
  the module says the file "goes again when the commit fails" (8-10). The model is then listed
  without a file: the excuse "lost COMMIT" of `RowsAndFilesAgree`.
- The session of a connect is checked before the provider is asked (`accounts/service.py:255`) and
  not again, while a session signed out everywhere "cannot finish a connect it started" (18).
- An account deleted between two SELECTs fails the assertion at `accounts/service.py:288`, which
  takes the second for granted by "the foreign key".
- A table whose thread ends after `_adopt` dropped the old one is kept (`stats_store.py:228`) until
  the next frame, although `_changed` is called for what is derived from a frame (103). It is of the
  frame of before, and served until its oldest row is too old.
- `_reload` adopts what it read (`stats_store.py:178`) without a second look, so a slow search may
  put an older frame into its process, and a refresh that merges from it may lose rows.
  `RowsStayUntilTooOld` leaves such refreshes out through `alone`.
- A search over both markets that waits for one only (`catalog_store.py:71-73`) compares its one
  error with two markets (84) and answers with an empty catalog, where `docs/data.md:86-87` says 503.
- REST calls that are already past `_rest`'s look at the pause (`binance.py:523`) are sent during it;
  `docs/data.md:474-475` says that REST calls pause.
- A removal that commits between the SELECT and the flush of `update` (`ml/service.py:332`) makes it
  end in StaleDataError, answered 500, where the docstring (316-318) names ModelNotFound and
  ModelNameTaken only; a star of a backtest that a seed replaced meanwhile ends the same way
  (`experiments/service.py:128`).

Seen while modelling, and contradicted by nothing: the retries of `request_with_retry` take nothing
more from a budget; the removal of a model and a seed or the deletion of the account may deadlock in
Postgres, which ends one of them (`Deadlock`); a list and its counts are several statements, not one
snapshot; the SHA-256 in run.json is taken after the file was read (`ResultsAreComplete` says what
that leaves); an error nobody expects, or a worker that dies, ends run-all by a traceback with the
exit code 1 of a run whose stocks failed, and leaves some files or none, so that only the files or
the traceback tell them apart; a hit that read its clock before the turn of the window and reaches
Redis more than a second after it may find the counter expired, count from 0 and pass the limit
(`CounterExpires`; `core/ratelimit.py:44-48`, with a socket timeout of two seconds); a model renamed
between the seed command's reading of the models and its commit is found by its old name
(`experiments/seed.py:358-365`), so that its backtests are of no model although one has the name now, or
of one that has another; a slippage of exactly
10000 basis points, which `Settings` takes (`engine/settings.py:32`), enters a short at a price of 0, and the run
raises ZeroDivisionError at its close or its first mark (`Raise`; `engine/loop.py:164,200`); the number of gaps a chart shows counts those of the bridge below
the anchor twice (`bars.ts:46-59`).

## The proofs

Each `*_proofs` module proves, by an inductive invariant of its own, properties the runs check.
The only assumptions are the named ones of the constants: any number of processes, requests,
accounts, instruments, rows, any sizes, prices and limits. TLC evaluates these assumptions in every
run. `Backtests_proofs`, `Candles_proofs`, `DataService_proofs` and `Engine_proofs` are about two modules
each; so that one module may extend both, `RunCommands`, `CandleHistory`, `CandleService` and `Signals`
name their specifications `CommandSpec`, `ChartSpec`, `ServiceSpec` and `SignalsSpec`, and their variables
and actions likewise.

**DataService_proofs.** The single flight: `TypeOK`, `HoldersKeepTheirLock` and `FetchesWhatIsMissing` are inductive
in this order: a release compares tokens, so only an expiry takes a lock away, and under a lock
that lives nobody else writes between the second look and the fetch. `SingleFlightHolds` follows
from the lock being one value. For calm runs (`excuses = 0`) `CalmInv` says where everybody is
while one caller fetches, and gives `OneOutcome`, `NoLockLeftBehind` and `CalledOnce`: two callers
of the source are the same one. Together they are `LocksAreKept`. `SourceCallsExcused` counts:
`BudgetInv` is that the calls made, with those that callers without their lock may still make, are
at most the excuses and one more, and no more than the excuses while a free `Chance` is left;
`BudgetStep` that a step spends nothing, takes the chance, or brings an excuse of its own.

The candle sets: `ServiceInv` says of each chunk in the cache that it holds what its label says, cut
at a time that has come (`CacheOK`), and of each request what it knows at its place: when it was looked
up (`LookedUp`), which plan that gives, that each chunk read so far holds what its label says, from when
the last candles are counted (`Windowed`), and at the end `WholeSet` (`RequestOK`). Time only passes, so a request
keeps what it knows (`TimesOn`); one step of a caller disturbs no other (`OthersStay`). Under it
lie the lemmas on the operators: the bins of a session and of a day tile it, a plan's periods cover what
was asked for without overlap and a label names one period, a chunk holds the closed candles of its
period and no other, gaps are the bins no candle was made for, and counting bins back from the end
gives the number asked for. From these follow `SetIsWhole`, `LastAreCounted` and `PlansCover`.
`ChunksFitTheCalendar` adds that the market had opened when the clock was first read (`Opened`), so that
the newest session that is over is found (`NewestIs`), the hint of an empty answer is a period with
sessions (`HintsFit`, `LatestDoesFit`), and candles are counted as they are cut (`CountIs`). The folds
of the community modules are least functions on the subsets of their index set; `GoesThrough` and
`GoingThrough` give such a function step by step, for what stays true while a fold goes on.

**ModelUploads_proofs.** `Places` says what a request is at each place, `LockInv` that who is in
the transaction has the advisory lock; then rows (`RowInv`), files, names (`NameInv`) and the
upload lock (`UploadLockInv`) are inductive; rows and files give `RowsAndFilesAgree`.
`WithinQuota` counts: `QuotaInv` adds that an upload which has looked under the lock still has room
next to the models kept, as no other gets in before it is done; a step admits what fits or keeps
what was admitted (`QuotaChanges`). `FreeNumberIsFree` shows that the number the code computes, the first of 1 .. n+1 that is not taken,
exists and is free.

**Accounts_proofs.** No property of the rows is inductive alone. `Placed` says what a request has
at its place. `Rows` adds that every row leads to a user made by a call that is over, so that a
user who was deleted never comes back under the same identity. `Locks` says that a request that
changes methods holds the row lock of its user if the user is still there: the lock is taken
before the methods are read, and only its holder gives it back. `Methods` says that what was read
under the lock stays true until the request writes: only the holder adds or removes a method
(`OnlyTheHolder`). From these follow `TypeOK`, `NothingOfTheDeleted`, `UsersCanComeBack` and the two
action properties. `Once` gives `StatesWorkOnce`: GETDEL removes the state that lets a call pass,
and a trip's state is put before any call of it comes.

**MarketFrames_proofs.** `AloneHolds` (who is in `alone` has the lock) gives `OneRefreshAtATime`;
`SecondLook` says that under the lock a refresh knows a frame at least as new as the stored one,
or the stored one is too old, which gives `StoredNeverGoesBack`. `LockHeld` completes `TypeOK`.
`UntilEnds` is that the first of the ends of rows exists (a least element, as `<` is well-founded on
the naturals); `TablesHold` carries it along and gives `ServedRowsAreYoung`. For the rows a refresh
carries over, a frame as new as the one in Redis is not enough, it must be that very one. `CalmInv`
says when it is: while nothing fails, every refresh holds the lock (`AllHold`), so every frame in
memory is too old, the stored one or one from before it (`AllKnown`), and who looked again and was
left alone has the stored one until it merges (`HasStored`). `AllBelow` (no row is newer than its
frame) makes the rows comparable. So `RowsKeepTheirTime` is proved as a whole.

**CatalogStore_proofs.** `CatalogIsCurrent` needs `SeenIsOfItsVersion`: who builds has seen no
version that is yet to come, and the version tells the entries apart, because `_adopt` changes both
together (`Adopting`). `Carried` says that what is about to be decoded or adopted is a list, which
`TypeOK` and `ListsNeverGoBack` rest on. `LoadingIsRunning` is inductive with them (`LoadGoesOn`).

**Engine_proofs.** The loop: `AtRow` and `InOrder` say what is known at each step of a row, `Recording`
what has been recorded, `StopsChecked` that behind the check no position is beyond its stop; with
`TypeOK` and `EquitySettles` they are inductive for any candles and settings, and give `StopsAreTaken`.
Capital and equity stay at or above 0 whatever the sign of the entry price, as a return of -1 or less is
a ruin; `EntriesAreDivisors` is that a position entered at 0 does not outlive the row of its entry. Prices
are assumed fine enough that none is rounded to 0 (`PrecisionAssumption`).
`ImplementsAccount` maps every step to one of `TradingAccount` or a stutter (`StepTrades`).
`PositionIsDecided` needs the history of signals: `Following` says that the position, with a pending
order, is that of the last change, or why there is none (`AChange`, `NoChange` add a signal).

The signals: `SignalsInv` says that a signal is what the predictions so far give, by options that were
accepted. Every step that carries a value is one `Chain`, told apart by its kind: such a function
exists (`ChainsAre`), and over rows that are equal so far it is equal so far (`ChainsAgree`). So each
step grows when its input grows (`EmaGrows` to `DecidedGrows`; a window, a fit and its refit row lie
behind the row). The rows of `Align` are candles by their place in time, and a later prediction adds
rows behind them (`RowsStay`, `AlignGrows`). Together they give `NoLookAhead`.
`StepsKeepTheirPromise` follows from the invariant step by step. A row carries the latest prediction
(`FrameIs`). What is prepared is a fraction, as no window has a negative spread
(`SpreadIsNotNegative`), and turns over with its input (`PreparedIs`). A side is on from its entry
limit until below its exit limit (`OnSince`; the exit limit is not above the entry limit, which is what
the check of the options is for). The row of `confirm` is the last that was held long enough
(`ConfirmHolds`), and that of `min_hold` differs from its input only inside a hold that began at a
change (`MinHoldHolds`). The assumptions are what argparse lets through (`ArgsAssumption`), whole
predictions and finitely many candles.

**Candles_proofs.** Requests of the backend: a counter holds at least what it let through since it
began (`CountedFor`), in either window, and a turn of the window moves one into the other; one that
expired before a late hit begins again, no more than once, as the hit that begins it renews its
expiry (`Forgotten`). So `WithinBudget` holds for any budget, share, weight and number of callers. It
rests on adding and reading being one command of Redis. For `StocksAreAccountedFor`, `AddUp` is that the batches without
an outcome (`Left`) and the three outcomes make up the symbols, each once. It is kept when the head
of the batches gets an outcome (`HeadEnds`), is cut in two (`HeadSplits`) and when those of the next
round are the failed ones (`IsOrder`, `OtherOrder`). `Accounted` adds that a part that was refused
holds a bad symbol, so that what is narrowed down to one symbol is bad, and that a pair of Binance
is a batch of its own; `BatchesAre` that cutting the stocks into batches loses none.

The chart: `ChartStaysWhole` needs that the older pages hang below each other from the anchor on
(`OlderIs`), and that what is shown reaches from the anchor to the end of a latest page
(`ShownIs`). A page is what had traded up to its end when it was asked for, and no candle before
`now` changes (`IsPage`), so pages that meet leave nothing out. A latest page begins no earlier
than the one before it; that is why the frame kept while the bridge is fetched still meets the
anchor.

**Backtests_proofs.** The rows: `Inv` says of each place of a request which locks it has or waits
for (`SeedInv`, `StarInv`, `RemovalInv`, `ClosingInv`), with `Mutex`, that locks which clash have
one owner, and `RowsInv`. A run of the command that is past its DELETE has the user's advisory lock
and every seeded row, so what it counted is what it inserts after; one that inserts has its user and
its models, so none is gone when it commits. `SeedReplacesItself` follows from
`Inv`, and that no row names a model that is gone (`ModelsAreThere`, which no run checks by itself as
`UserBacktests` has it); neither is inductive without it.

That the transactions implement `UserBacktests` (`RequestsActAtOnce`) needs `ActsInv` too: a run adds
the backtests of its list (`AddsItsList`), a star has one row (`StarsOne`), and a removal one model
and, of all the rows there are, those that name it (`RemovesOne`). The last holds while others commit
(`CommitsTell`): a new backtest has an id nobody waits for, and who takes a row its model had to have
the lock of that model. Every step commits nothing or is one of the commits (`StepsCommit`), each of
which is an action of `UserBacktests` (`SeedsReplace`, `StarsStar`, `RemovalsRemove`, `ClosingsClose`).
`AddAll` is the step that reads the models for a run (`AddAllChooses`), and what it chose stays until its
commit whatever others do (`StepsChoose`, `ChosenIsMade`).

The files: their order alone does not give `RecordComesLast`. Commands write to one folder one
after the other, and one that was stopped leaves another's run.json beside files of its own.
`WroteUpTo` says how far the command that works has come, `IdleWroteNone` and `OneWorks` that nobody
else's files go meanwhile, `CodesComeLast` that an exit code is that of a command which is done or
broken.
That one command at a time writes to a folder is the model's assumption. `ExitCodeTells` needs the
stocks too (`CommandInv`, `StocksInv`): what a single command took could be read and named its
models, all stocks are through when a command writes, and the folder holds only files of its kind.
So a command that refuses, or breaks before it writes, has written nothing (`RefusedTells`), one that
stops or breaks while it writes leaves a file that is missing or not whole (`StoppedTells`), and one that ends has all of them, and 0
only if every stock it picked was read and has a result of every model asked for (`DoneTells`).
`KeptInv` adds that only a stock that ran has a SHA-256, and that what was read or hashed is what is
there while nothing changed: the last step of a command finds every stock with its results or named
(`StockIsNamed`), which stays so (`OutcomeStays`). That gives `OutcomesAreNamed`, the part of
`ResultsAreComplete` about the commands.

The lists: `ListsAddUp` holds of any rows whose fields are of their types, so `FieldsInv` is all the
steps need to keep, with the assumption that the names are numbers in their order and that None is
not one. `Before` puts the rows of a list in one order, as no two have the same number
(`BeforeOrders`), so the rows before each give the ranks 0..n-1 (`RanksCount`): the pages cut the
ranks and each but the last is full (`PagesShowAll`). Groups by word and by model do not
meet, and `SumsAre` finds the sum over them to be the number of rows (`FilterCountsAll`,
`UsesCountAll`); the best of a model is the least in that order (`BestIsTold`).

**Only model-checked.** Liveness, as ENABLED is beyond the prover. What a sort, a selection (`SelectSeq`)
or a RECURSIVE operator computes, which no installed backend can expand, and what takes an induction
over data: `Metrics`, `ModelCheck` and `InstrumentSearch`, the fits of `kmeans`, and that the rows and
the list of failures of a command are those outcomes, each once and in order (the rest of
`ResultsAreComplete`). That the groups of a fit are the nearest and at rest
(`FitsAreAtRest`, a part of `FiguresAgree`) is a claim about bounded inputs besides: that the centres
settle within `Rounds`.

## Not modelled

- A frame of the market in Redis that cannot be decoded, which `_reload` drops (`stats_store.py:173-177`;
  `CatalogStore` models that path for its lists). The commands read and hash each file in one step.
- Wording, formatting and parsing of emails, names, archives and source data, and the bytes of zip,
  JSON and HDF5 files; rounding of floating point numbers.
- The limits and schemas of the HTTP layer; the dev sign-in, rename and preferences of an account.
- Several names, users or markets at once where they share nothing (`SingleFlight` is one name,
  `ModelUploads` and `Experiments` one user, `MarketFrames` one market).
- The partial refresh of `SparkStore` (`only`): its frame, lock and adoption are those of
  `MarketFrames`.
- In the candle service the archives of Binance, the validation of a source's frame, the later
  finality of daily bars of stocks, the fingerprint and the limit of clients.
- The search by text and the random equity curves of `experiments/`; how often the browser asks
  again by itself.
- `data/firsts.py` (a queue of lookups whose result is a hint for search; a lookup that is lost is
  asked for again; a later failure with a smaller `retry_after` shortens a pause) and
  `data/icons.py` (logos by `get_or_fetch`).
- The wiring of the application, the pages of the frontend, the host scripts of `infra/`.
- Failures of the disk other than a failed unlink and a failed write of results end the request as
  any other error.

## The plan

1. The partial refresh of `SparkStore` as a second kind of refresh in `MarketFrames`.
2. Abstract specifications of `SingleFlight` in calm runs (one fetch whose value all get) and of
   `Accounts` (methods that change atomically), each with a refinement as `TradingAccount`
   and `UserBacktests` have.
3. `Firsts` with its queue, pause and close; the deployment script.
