# Probora: a TLA+ model of the system

Probora collects market data for 8 crypto pairs and 20 US equities, builds a
daily feature vector per asset, runs ONNX models on it and publishes
probabilistic scenarios. This directory holds a TLA+ model of the parts of it
whose correctness depends on *order*: jobs that share tables, retries, crashes,
and data that changes while it is being read.

The reference is the code under `src/`; every definition names the lines it
models in `PROJECT.json` (`map`).

## 1. Inventory

**Processes.** The *worker* (`src/src/Probora.Worker`, .NET, Quartz with a
persistent store) runs every job below; each job is `[DisallowConcurrentExecution]`
and gets its own dependency-injection scope, hence its own Entity Framework
context. The *API* (`src/src/Probora.Api`) only reads. The *training pipeline*
(`src/ml`, Python) writes model bundles to disk. The *web client* polls the API.
All share one PostgreSQL database and nothing else: there are no messages
between processes, so every interaction is through a table or a file.

| Component | State it keeps | Operations | What makes it correct |
|---|---|---|---|
| Spot ingestion: `BinanceSyncJob` (REST, every 10 min), `BinanceWebSocketService` (one connection, one context per closed candle) | `price_bars`, `ingestion_runs`, the contexts' tracked entities, the socket's buffer | backfill pages, recent page, upsert, reconnect, failure bookkeeping | a final bar stays final; a bar committed from data read after its close is exact for ever; a succeeded run has reconciled the last 1000 hours; backfill leaves no hole; closed candles end up right |
| Price bar store: `PriceBarWriter` | one Entity Framework context | query, apply, SaveChanges | one row per (asset, hour); an open candle never replaces a final bar |
| Model registry: `ModelPromotionJob` (hourly) | `model_versions` | register, promote, demote, choose the shadow candidate | one shadow candidate per group; the newest eligible model serves; a demotion never leaves a group empty for good |
| Derivative collector: `DerivativeShadowCollectorJob` (00:05-00:50) | `derivative_daily_snapshots`, `ingestion_runs`, `data_quality_issues` | collect one day per asset, defer, open an issue | one complete snapshot per asset and day, as of the cutoff; an asset still missing at the end of the window is reported |
| Derivative readiness: `DerivativeHistoryReadiness` | none | `TryCreate` | exactly the last 90 days, no gap, nothing from the future |
| Daily prediction: `DailyPredictionJob` (00:10-00:55 every 5 min, six times after a start, 05:45/07:45/09:45) | `feature_snapshots`, `predictions` | read the models, aggregate days, predict, save once | no input after the cutoff; the models that publish were in production together; the snapshot a prediction names is the one it was made from or an older one; a rerun adds what is missing |
| US equity collector: `UsEquityShadowCollectorJob` | `price_bars` (daily), issues | refetch 7 days, report missing symbols | no session is lost |
| News collector: `GdeltNewsJob` | `news_articles` | fetch, de-duplicate, save once | one row per article; one bad batch does not block the others |
| Migrations: `DatabaseInitializer` | schema, advisory lock | migrate, seed | two starting processes migrate once |
| Queries and dashboards: `ProboraQueryService` | none (read only) | latest analysis, freshness, progress | a view agrees with the tables |
| API, SignalR broadcaster | none | serve, broadcast every 15 s | - |
| Historical ingestion: `binance_archive.py`, `binance_futures_archive.py`, `fred_market.py` | raw archives and parquet files, FRED files and their manifest | fetch, verify, store, convert; fetch series by series | only verified rows; exit code 0 is a complete mirror; one vintage of macro data |
| Derivative bootstrap: `shadow_bootstrap.py` | archive rows of `derivative_daily_snapshots` | read, insert in one transaction | a rerun is harmless |
| Dataset builds: `cli.py`, `features/*.py` | consolidated derivative tables (a cache), one samples file per kind | list, consolidate, assemble, write | no row reads a day that is not over; a table holds every source that was there |
| Training: `training/pipeline.py`, `evaluation/splits.py` | MLflow, bundle directories | label, split, fit, calibrate, score, gate, export | the test year is blind; a bundle that loads is complete |
| Research ablations: ten commands of `evaluation/*.py` | one report each | the same folds, with inner splits and choices of their own | choices are made on rows no candidate has seen; the locked year is the last |
| Web client | the newest answers | poll, abort, merge prices by symbol | - |

**Hard behaviours.** Interleaving of the REST job and the socket on one row;
Entity Framework's stale tracked entities and changed-column updates; retries
of a run that was cut short anywhere; a job's bookkeeping saved by the context
whose save has just failed; files that appear on disk one by one while the
registry scans them; windows and cutoffs read once and used after awaits. On the research
side: threads that write files in place while another command reads them, commands
killed between two files, a cache trusted by its modification time, labels that
stretch over missing days, and eleven training scripts that must each keep one year
unseen.

**Interactions.** The two spot writers meet on rows of `price_bars`; the
collector and the Python bootstrap command on rows of
`derivative_daily_snapshots`; the promotion job and a model copied into the
directory on files; the daily prediction reads the tables of all the others at
different moments of one run; a dataset build reads the mirror a download is still
writing, a study the samples file a build was killed in, the registry the files of a bundle
being exported. Each of these meetings is a model below.

## 2. Plan

Order: what is read by everything else first (bars), then the two tables the
prediction depends on (models, derivatives), then the prediction, which
composes with all three, then the smaller jobs, then the research side from its
files to its bundles.

| # | Modules | Composes | Status |
|---|---|---|---|
| 1 | `PriceBarWriter`, `SpotIngestion`, `BarLedger`, `SpotIngestionProofs` | two writers, exchange, one table; refines the ledger | done |
| 2 | `ModelRegistry`, `ServingFlags`, `ModelRegistryProofs` | the job, the model directory; refines the flags its readers rely on | done |
| 3 | `DerivativeReadiness`, `DerivativeShadow`, `DerivativeShadowProofs` | collector, bootstrap, exchange and its clock | done |
| 4 | `DailyPrediction`, `DailyPredictionProofs` | the run against ingestion, collector, registry (`ServingFlags`) and midnight; uses `DerivativeReadiness` | done |
| 5 | `UsEquityCollector`, `UsEquityCollectorProofs` | job and provider: late bars, restated series, one save for 20 symbols | done |
| 6 | `HistoricalArchive`, `HistoricalArchiveProofs`, `FredSnapshot` | threads of a mirror command, the publisher, crashes | done |
| 7 | `TrainingDataset`, `DatasetBuild` | a build against a running download; which days a row reads | done |
| 8 | `WalkForward`, `ResearchStudies`, `ResearchStudyProofs` | folds and the eleven scripts that use them | done |
| 9 | `BundlePublication`, `ResearchPipeline`, `ResearchPipelineProofs` | all of 6 to 8, as commands an operator starts and that may be killed | done |

Considered and left out: the news collector, the confidence gate, the rate limiter, the
migration lock and the web hooks. Each is one actor with no state another actor
races on, or a comparison of numbers; section 6 says more.

## 3. The modules

Every module translates the code the `map` names; data is kept only as far as a
property can tell it apart.

### SpotIngestion, PriceBarWriter, BarLedger

*State.* `db` is `price_bars`: per (asset, hour) `None` or a row with its
`IsFinal` flag and `ver`, the version of the four prices and the volumes.
`truth` is the exchange's version of each candle: it changes while the hour is
open (`Trade`) and stops when it closes (`Close`). `clock` is the exchange's hour, `host`
the one the worker's own clock shows (`DateTimeOffset.UtcNow`): at most `MaxDrift` behind or
ahead, never set back. `orig`/`cur` are the entities
the job's one long-lived context tracks (original and current values);
`cand`/`readAt` the parsed page and the instant the exchange answered it;
`asset`, `mode`, `cursor`, `stopBefore` the loop of `BinanceSyncJob`. `wsBar` and
`wsOrig` are the context of the candle the socket is handling. Three history variables serve
properties: `settled` (bars the job committed as final from data read after their close), `began`
(the exchange's hour when the latest run began) and `cut` (assets whose backfill has once been
cut short with some of its pages stored, or in the context for the catch block to store).

*Actions.* `SyncStart`, `SkipBackfill`/`BeginBackfill`, `Request`, `EmptyPage`,
`Parse`, `Load`, `Save`, `Finish` are the job between two awaits; `Parse` reads
the worker's clock, as `BinanceRestClient` does after the body has arrived, to say which candles are
final (`IsFinalNow`). A worker that is ahead thus stores an open candle as final, one that is behind a
closed candle as open. `HostTick` moves that clock on. `SaveConflict` is a rejected
INSERT, `Fail` any exception, after which `CatchSave` saves the catch block with
the *same* context and what is pending in it, and `CatchLost` is that save
failing too. `WsLoad`, `WsSave`, `WsDrop` are the socket; `Crash` is the process.
`PriceBarWriter` gives the three rules both writers follow: which entity the
query returns (`Tracked`: a tracked one is returned as it is), what `Apply`
leaves (`Skipped`, `Applied`), and what an UPDATE writes (`Written`: only the
columns that differ from the *tracked* original).

*Abstract.* `BarLedger` is what readers of the table rely on: rows are added or
changed, never removed, a final row is never open again, and a settled bar (one
committed from data read after its close) is frozen. `ImplementsLedger` states
that `SpotIngestion` implements it, with `rows <- db`.

*One day.* Both clocks stay inside the hours of one UTC day, and the assumption `OneDay` says
that a page (1000 hours) is longer than such a day and that its recent page either holds the
whole window or starts past the hour of tolerance in `HistoryLooksComplete`. Only
`OnlyCutBackfillsLeaveHoles` rests on it; section 4 says what happens beyond it.

### ModelRegistry

`disk` is each bundle's directory (`absent`, `torn`: the manifest is there and other
files are not, `bundle`), `db` the two flags of its row, `orig`/`cur` the
context. `Publish` is the pipeline, `CopyManifest`/`CopyRest` the copy that
`src/docs/vps-domainless-deployment.md` prescribes over a running worker. A run scans manifests from old to new: `Register` (also the re-read of a known model),
`Promote` (the other production models are demoted by `ExecuteUpdate`, *at once*),
`Mismatch` (a bad checksum ends the scan), `Commit` (the first save) and
`Normalise` (candidate selection and the second save). `Fail` covers exceptions and
crashes. Models are numbered by their manifest's time.

*Abstract.* `ServingFlags` is what a reader of `model_versions` may rely on, whenever it
reads: production is taken from a whole group at once (`Demote`) and given to any
models later (`Promote`), candidates are chosen anew among the others (`Choose`), and a
group never has two candidates. `ImplementsServing` states that `ModelRegistry`
implements it, with `StageOf` reading a row's two flags; `DailyPrediction` takes its registry
steps from the same module, so that the one model's steps are what the other was shown to do.
It promises no single production model, for the code does not keep to one (section 4).

### DerivativeReadiness, DerivativeShadow

Rows carry a day, a source and `AvailableAt`. `TryCreate` is
`DerivativeHistoryReadiness.TryCreate` on the rows the query returns, sorted by day and
cut to the last `RequiredDays`: the sort is stated through ranks (`After`, how many rows follow a
row; `Later`, the days may repeat), which keeps recursion out of a module proofs are about;
`DashboardState` is what the dashboard makes of
the same rows. `DerivativeShadow` is the collector with a clock of its own:
`clock` is the exchange's time, `drift` the host's error. `Return` is a firing
outside the window, `Start` reads the server time, `SkewTooLarge`, `Defer`,
`Proceed` are the three outcomes, `Skip`/`Visit`, `Fetch`, `Postpone`, `Save`,
`Conflict` handle an asset, `Finish` opens the issues and sets the status, `Fail`
is the catch block, `Crash` the process, `Delay` a slow request, `Adjust` a
clock that is set. `BootRead`/`BootWrite` are `bootstrap_shadow_snapshots`: what
it has read is written later in one transaction.

### DailyPrediction

*State.* `bars` are the complete UTC days of each asset (the equities' sessions),
`rows` the derivative rows, `flags` what the registry makes of each model,
`features` and `predictions` the two tables, `served` (history) the sets of models that have been in production
together. `run` is what the job holds between
two awaits: which part (crypto or equity), `now` (`DateTimeOffset.UtcNow` at the start), its cutoff,
the models' flags as read, the days seen of each asset, the assets left in the
current loop, and the rows waiting in the context.

*Actions.* `Start`; `ReadModels` (one query; a part without models ends);
`Observe(a)` one asset's bars; `Judge` the benchmark (BTC must end at midnight;
SPY's last session *becomes* the cutoff unless it is stale); `Decide(a)` the
derivative history, the snapshot (`GetOrCreateSnapshot` keeps a stored one), the
look-up per model and the new predictions; `Commit` the one save, which a unique
index may reject; `Fail` any exception. `Leave` goes on to the equity part,
`Abandon` does not: an exception in the crypto part costs the equities their turn.
Meanwhile `CompleteDay`, `SaveDerivatives`, `RegistryStep` (a step of `ServingFlags`) and
`NextDay` are the other jobs and midnight, in any order. Of a feature vector the model keeps the
days it was computed from, for the asset, its benchmark and every asset it is compared with
(`Peers`: those with 31 or 61 days, of the equities only the ones that end at the cutoff too). A prediction
keeps the run's `now` (`made`), the instant its derivative rows are judged by. The clock is the
worker's: a day is complete when its 24 bars are flagged final, and the first finding is what that flag may
be wrong about.

### UsEquityCollector

*State.* The provider: `today` (the last session that has closed), `offered` (the
bars it serves of each symbol, up to `MaxLate` sessions late), `actions` (how many
splits and dividends its series is restated for). The tables: `db` (of each bar,
the number of actions its prices are adjusted for), `status`, `issues`. The run:
`from` (the start date of its requests), `at` (the next symbol), `page` (the
answers), `day` (the session it began in), and `unsaved`/`noted`, what a rejected
save has left in the context.

*Actions.* `CloseSession`, `Publish`, `CorporateAction` are the provider, between
any two requests. `Start` takes the newest stored bar of *any* symbol and goes
`Overlap` sessions back; `Fetch` is one symbol's request with its rate limit and
retries; `Reject` an answer without data, which fails the run for all symbols;
`NothingToSave`, `Upsert` (the shared `PriceBarWriter`, every candidate final, so
every row in the answer is replaced), `Judge` (expected session, issue, status).
`Fail`, `CatchSave` and `Crash` are as for the spot job.

### HistoricalArchive, FredSnapshot

*State.* `remote` is the version of each archive the publisher serves; `raw` and
`parquet` the two local copies, each `Absent`, `Torn` or of a version; `tasks`,
`stage`, `payload` the files of the running command, how far its threads are with each and
what they hold in memory; `exit` the last command's files and exit code.

*Actions.* `Command` starts one; `Begin` is a thread taking a file
(`CacheVerdict`: a pair that agrees is done, one that disagrees is an error, not a
miss), `Get` and `Verify` the two requests (`Revise` may come between them), `Store`
and `Stored` the two halves of the raw write (never over a different one), `Convert` and
`Converted` those of the parquet write. A futures archive is parsed before it is stored, a
spot archive after, as in the code: an unreadable spot archive therefore stays. `RequestFails`,
`Exit`, `Crash`. `FredSnapshot` overwrites its series one by one and the manifest last;
`FilesMatchManifest` is the loader's check.

### TrainingDataset, DatasetBuild

`TrainingDataset` computes rows from days: a row is its asset, its stamp `at`, the
days its features `reads`, its horizon and the `end` of its label. Rows count *bars*,
not days, as the code does, so a missing day stretches a look-back and a label.
Crypto bars and derivative rows are stamped at the next midnight (`BarStamp`), peers are
cut at the snapshot (`BarsUntil`), an equity row uses SPY's sessions up to its own,
macro observations become usable `MacroLag` days later. `DatasetBuild` is the
commands: `ReadSpot`, `Look` (list the sources, compare modification times with the
consolidated table), `ReadCache` or `ReadSources` and `CacheWritten`, asset by asset; then
`Assemble` and `SamplesWritten`, the two halves of a write in place. A dataset is known by what it was built from;
`RowsIn` gives its rows.

### WalkForward, ResearchStudies

`Fold` is the purged split of a test year, `FoldYears` the folds that are complete
(others are dropped silently), `PartOf` every narrower period a script cuts from a
fold: the recent years, the inner year a candidate is chosen on, the calibration rows split
67:33. A *study* is a script of `Learn`, `Choose` and `Score` steps, each with the
artefacts it uses and the part it runs on; `Studies` lists the eleven with the files
they accept, their horizons, the folds they insist on and whether they lock 2026.
`SplitFolds`, `LearnOrChoose`, `ScoreFold`, `NextHorizon` and `Report` run any script; `art`
carries, for each artefact, the parts it was learnt from at any distance, which is what the
two leakage properties are about. `StrongerBaseline` is the one choice made on the test year itself: the
training and the regime analysis measure the model against whichever of two baselines has the lower Brier
score on the labels of that year (`pipeline.py:261`, `regime_analysis.py:142-147`); a score records what
is behind the scored artefacts (`behind`) and behind that baseline (`against`) apart. Which candidate wins is a matter of numbers and makes
no difference to them: the winner is behind everything all candidates are.

### BundlePublication, ResearchPipeline

`WriteOrder` is the order in which `train_and_evaluate` writes a bundle; the hash
over the ONNX files is computed between the models and the manifest; the smoke load
comes after the last file, too late to take a bundle back. `ResearchPipeline` composes all of the above: commands follow one another,
except that a download may overlap a crypto build; each may be killed at any step, files
stay as they are, and `Gated` hands a trained horizon to the bundle with the
gate's outcome left open.

## 4. The runs

| Run | Question | States |
|---|---|---|
| `spot_races` | every interleaving of exchange, two clocks, job, socket and one fault on one asset with a history of three pages and a closing hour: are final rows final, settled bars exact, succeeded runs reconciled, finished backfills without a hole, skipped ones too unless an earlier one was cut short, the ledger implemented? | 1.16 M |
| `spot_heals` | two assets in one context, a worker's clock an hour off either way, conflicts with the socket, a job that keeps firing: does every closed candle end up right? | 1.47 M |
| `spot_early_final` (violated) | is a final bar always of a closed candle? | |
| `registry_scan` | four generations of one group and a model of another, arriving in any order and copied file by file, with two faults: one candidate, the newest serves, gates respected, no group unserved for good, `ServingFlags` implemented? | 0.15 M |
| `registry_unloadable` (violated) | do all production models load? | |
| `deriv_window` | one window, two assets, host clocks right, fast, slow, far off or set meanwhile, one fault, one bootstrap | 0.86 M |
| `deriv_issue` (violated) | is a missing day reported? | |
| `deriv_duplicates` (violated) | does "ready" on the dashboard mean that the job predicts? | |
| `daily_runs` | two runs of a day against everything else, with any two of demotions, promotions, choices of candidates, exceptions and crashes, from complete tables, an asset without yesterday's derivatives, or one just listed beside a stale SPY session: do inputs end at the cutoff, were derivatives available and unbroken, is one production model used, a snapshot kept, a complete asset predicted? | 1.66 M |
| `equity_sessions` | two symbols, bars a session late, one restated series, one fault, any outage: does a session get out of reach, do statuses tell the truth, do the newest rows agree, is every bar stored in the end? | 3.37 M |
| `equity_adjusted` (violated) | are all rows of a symbol adjusted for the same corporate actions? | |
| `research_pipeline` | any three commands of the research side, a download under a build, one kill or failing request, archives revised between two requests, a month missing: are mirror and tables whole, do rows read only the past, do test years stay unseen by what is scored and by the baselines beside it, choices held out, bundles complete? | 1.62 M |

**Bounds, and why they are enough.**
*Spot*: the interesting row is one hour written by both writers while it closes, so `spot_races`
has a closing hour, and two data changes under each candle (`MaxTicks` 2: a writer can then
hold a version that is neither the first nor the last). `Limit` 2 with `StartClock` 4 and `ListedAt` 1 makes a
history of three pages whose recent page begins at hour 3 or 4: the socket and the recent page alone never satisfy
`HistoryLooksComplete` (an hour up to 2), a backfill does with its first page, so that a
later run skips it, rightly or after a cut. `MaxDrift` 1 is a clock in the hour before or the hour after,
the only distances that change which of two neighbouring candles counts as closed. A second asset matters only
because it shares the context, which is `spot_heals`; there conflicts with the socket are the failures, and the job
fires for ever. One fault suffices for safety, since the job starts afresh after each.
*Registry*: a scan treats three generations as any number (oldest, one in the middle, newest); the
fourth makes an ineligible one newest in turn. Two faults are a demotion whose promotion
is lost, followed by another failing run.
*Derivatives*: a time unit is half a cron period, so a firing, its delay and the
window's two ends are distinct instants; drifts of -1, 0, 1 are tolerated, 4 is
not. `RequiredDays` is 1 in `deriv_window`, where the window matters and not the
history; histories with gaps are what `daily_runs` has. The true window has ten
firings, the models have three or four: the first, the last, one between and the one
too late.
*Daily*: both runs of day 1 may run past midnight into day 2, when new
data arrive but (bound) no run starts; `MinDays` and `RequiredDays` are 2, `PeerDays` 1 and `StaleDays` 2 (252 or 365, 90, 31 or 61, and 5 in the code).
The tables begin (`FirstTables`) complete, without one asset's derivatives of yesterday, which may
arrive between two runs, or with an asset listed today beside a SPY session as old as `StaleDays`, so that each
test can go either way; `Earliest` -2 is the first day of the bars.
Two crypto assets make one the benchmark of the other; three models are a
production one, its challenger and the equity candidate: a registry run may promote the
challenger (`Promotions`), and choose the old model and the equity model as candidates
(`Choices`); two events (`MaxEvents`) are a demotion and its promotion, or one of them and a
fault. Registry steps and arrivals after the last
run are cut (`MoreToCome`), nothing reads them.
*Equity*: time is counted in sessions. Seven days are read again, at least
four sessions; `Overlap` 2 with `MaxLate` 1 is the tightest instance of
`LatenessIsCovered`, where a bar one session later would be lost. Four sessions are the fewest with which one can fall out of reach: the
first bar published late, and the newest stored bar then `Overlap` beyond it. A run lasts less than a
session (20 requests, 8 seconds apart). One stock asked before the benchmark has
its answer go out of date while the benchmark is asked.
*Research*: a spot file and two futures files of one asset (a table of several sources,
listed at different moments), two threads, one of the archives unreadable until it is
revised. Years are nine days long: an inner split (`MinFit` 5, `MinSelection` 3) and a
calibration split with at least four dates fit into one, an embargo of 1 and horizons
of 1 and 2 are shorter than a year, as 7 days and 30 or 90 rows are. Days 0 to 62
are 2020 to 2026; the missing "month" is the end of 2022, so that a label of a training
row stretches over the beginning of a year. The database holds SPY with one session
missing, or ends with 2025 (the locked year then has no fold). Three commands are a
producer, another producer or a rerun, and a consumer; four would only add reruns.
`MaxDownloads` 2 makes two vintages of macro data, one kill leaves one torn file.
Every bound is a CONSTANT or a comment that begins "bound" or "Bound".

**Fairness, and what in the code justifies it.** Only steps of a job are fair,
as one action (`WF`): Quartz fires every trigger for ever (`Program.cs` 60-116),
the HTTP client's time-out ends every request and database commands time out, so
a run goes on until it ends. `SpotIngestion` adds that the worker's clock goes on while it is
behind (`WF(host < clock /\ HostTick)`): clocks tick. Not fair: the exchange, the socket, failures, publication by
the exchange, bootstraps, promotions. `DerivativeShadow` also makes `Tick` fair:
time passes. `ModelRegistry` also assumes that a copy which has begun
is finished. In `DailyPrediction` the triggers of a day are a counter (at most `MaxTriggers`, which also
spaces the midnights of `Clock`) and midnight passes only when all have fired, so `CompleteAssetIsPredicted` may
assume that a trigger that is left fires. `PublishedBarIsStored` holds under the
condition that no symbol goes on answering nothing: the code ends the run with
that symbol's error, every time, so without the condition it is false.
`research_pipeline` assumes no fairness and has no liveness property: commands are started by hand.
Its commands end, so `CHECK_DEADLOCK` is off there, as it is where time ends.

**Findings.** The five violated runs are disagreements between the code and its
documentation or tests; `findings` in `PROJECT.json` quotes both sides.
1. A candle read while it was open and parsed after the hour has turned is stored as
   final with data from before its close (`BinanceRestClient.cs:71`). The next
   run corrects it (`ClosedBarsHeal`), a prediction in between does not know.
2. A bundle whose smoke load failed has its manifest on disk already and is
   promoted (`pipeline.py:405-415`, `ModelPromotionJob.cs:80`).
3. The last firing inside the collector's window is before `closesAt` and the one
   after it returns at once, so the documented quality issue is hardly ever opened.
4. An archive row beside a live row of one day is a "gap" for the job, and no
   gap for the dashboard.
5. A split or dividend restates a symbol's whole series at the provider; rows older than
   the seven days read again keep the old adjustment (`UsEquityShadowCollectorJob.cs:45`,
   against `adjust=all` in `docs/us-equity-shadow.md:17`).

Worth knowing, though no run is spent on it:
- The job's stale tracked entity lets an open candle overwrite columns of a row the socket
  has just made final (`PriceBarWriter.cs:46`). `ClosedBarsHeal` shows that a later run mends it.
- A group may keep two production models: `ExecuteUpdate` demotes the others in the table, so
  of two eligible bundles found by one scan the first, not yet saved, escapes it and
  both are inserted with the flag; likewise an older eligible model that lost it is promoted again by the
  next scan. The index that would forbid it is not unique (`ProboraDbContext.cs:86`). The
  daily job then publishes with both.
- A worker that is down for more than `BackfillLimit` (1000) hours leaves a hole no later run
  notices: the recent page begins too late, and the backfill looks at the earliest row
  only. `OneDay` keeps this out of the model.
- `production_eligible` comes from the scenario gate alone (`pipeline.py:348`),
  while `docs/model-governance.md:21-32` also asks for the direction gate and its calibration.
- `pipeline.py:374` says the validation year is never an outer test year; the fold of
  2025 validates on 2024, which is the test year of the fold before.
- `docs/data-sources.md:41-43` promises that a consolidated table is rebuilt when
  a source is newer. A source finished between the listing and the write of the
  table is older than it and stays out until another source changes. `TablesAreCurrent` excepts
  exactly these (`overlooked`).
- A torn raw archive, parquet file or consolidated table is an error in every later
  run until a person deletes it. An unreadable spot archive is stored before it is
  parsed, and its revision is then refused ("Immutable raw archive changed").
- Two scripts take the baseline a model is measured against by the labels of the test
  year: the lower Brier score of the class prior and a logistic regression (`pipeline.py:261`, per fold of
  the training; `regime_analysis.py:142-147`, per fold, and the regimes are then scored against it). Both candidates are
  learnt from training rows alone and the choice makes the comparison harder for the model, so
  `TestYearStaysBlind` allows it and nothing else. `docs/v3-one-month-plan.md:10` asks for the strongest
  baseline without saying by which year; line 14, that the test period must not be looked at for a choice, is about features.
- A worker whose clock is ahead stores an open candle as final (`BinanceRestClient.cs:40,71`). The next run
  reads it again, so the row heals like the one of the first finding; `SucceededRunReconciles` speaks of
  candles closed by both clocks.
- A backfill that is cut short after one of its pages leaves a hole behind the earliest bar, and no
  later run looks there (`BinanceSyncJob.cs:76-83`). This is the exception in `OnlyCutBackfillsLeaveHoles`.
- FRED values are those of the download's day, not of the publication (`fred_macro_ablation.py:166-169`
  says so in its report): that no row reads the future holds of publication days, not of revisions.
- Studies that ask for no number of folds average the complete ones silently.
- Python's `derivatives_available` accepts a span of 29 days with gaps; the service
  demands an unbroken window (`DerivativeReadiness`).

**Mutants.** Beside each definition they change stand mutated forms (comments
"Mutant: ..."); each property is refuted by one, so none holds whatever the code does.

## 5. What is proved

All theorems hold for every value of the constants under the named assumptions
(`Bounds`, `OneDay`, `RegistryBounds`, `CollectorConstants`, `PredictionConstants`,
`RegistryConstants`, ...), which TLC evaluates in the runs.

- `SpotIngestionProofs`. `IInv` strengthens `SettledBarsAreExact`, which is not
  inductive: a writer may hold a stale entity or page. `PageInv`: what was read
  after a close is the closing data. `TrackingInv`: a tracked original differs
  from its row only where the socket has moved it on, to the closing data.
  `PendingInv`: dirty entities are exactly those of the page being saved. From it
  follow `TypeCorrect`, `SettledExact`, `FinalityIsStable` (an action property) and
  `WritersImplementLedger` (refinement: initial states and every step).
  Two invariants follow a run. `ReconcileInv`, for `SucceededRunsReconcile`: the bars owed
  (listed, in the recent window, closed when the run began) of every asset already
  passed are settled, and the recent page of the asset at hand holds all its owed bars
  as they were read after the start. Settled bars stay (`SettledGrows`), so the socket cannot undo it.
  `BackfillInv`, for `BackfillIsGapless`: the hours before the cursor are stored, a page
  on its way runs from the cursor on without a gap, and no row is of an hour that has not begun.
  `UncutHistoryIsWhole`, for `OnlyCutBackfillsLeaveHoles`, is about why the
  earliest row is a sign of completeness at all. `HoleInv` fixes the hour `Base` every recent
  page reaches back to: the socket stores nothing before it (`LateSocketInv`), so a row
  before it comes from a backfill that has filled all of them, is still at work or was cut short (`EarlyBarsInv`,
  `FillingInv`, and `LeftoverInv` for what the catch block saves), and from `Base` on a run's recent page covers
  everything (`CoverInv`). Here alone `OneDay` is used. None of the theorems supposes that the two clocks agree:
  what the worker's clock says enters through `IsFinalNow` and `run.startedAt` only.
- `ModelRegistryProofs`. `OneCandidate` needs `ContextInv`: before the first
  save the context's unsaved shadow flags only ever clear, after it they agree with
  the table, although the production flags may be out of date because `ExecuteUpdate`
  bypasses the context. `RegistryTypes`, `RegistryInvariant`, `CandidateIsUnique`.
  `ServingInv` gives the other three. `BundleInv`: a row is of a complete bundle, and a model
  in production is eligible. `ScanInv`: manifests are read from old to new, and the newest eligible model
  read so far has production in the context, and in the table too when the context
  took the flag from there. `NewestServe` is what the first save makes of it,
  and it survives the candidate's selection. From it `GatesAreRespected`,
  `NewestEligibleIsServed`, `NewestBecomesCandidate`. `RegistryImplementsServing`
  (refinement): `ExecuteUpdate` is a `Demote`, the first save a `Promote`, the second
  a `Choose`, and every other step of the job a stutter, which needs both invariants.
- `DerivativeShadowProofs`. `SucceededRunIsComplete`, from `RunInv`: during a run
  every asset is still to visit, being handled, pending or stored, and no step
  removes a key from the table. `WholeDaysAreStored` (an action property), from `WholeInv`:
  the exchange's clock is past the opening of the run's day and the asset at hand has been published, however
  the host's clock is set. `DerivativeTableIsSound`: one row per asset, day and source, no row of
  a day not yet published, for collector and bootstrap together. `TableInv` adds that what a
  bootstrap has read and not yet written is as sound; that the other writer came first is caught
  by the upsert of the one and the unique index of the other.
  `StoredDaysStay` (an action property): no step takes a key away. `CollectorTypes`, which needs that a next firing exists (a set of
  integers bounded below has a least element).
- `UsEquityCollectorProofs`. `UnreadIsInReach` and `CompletedRunTellsTheTruth`, from
  `EquityConstants` and `LatenessIsCovered`. `RunInv` follows a run: its start date
  reaches back to everything unread (`StartInv`), at most one session closes while
  it lasts (`SpanInv`), a symbol already asked has answered everything
  from the start date on except bars published since, which are at most `MaxLate`
  sessions older than the run (`AnswerInv`, `PlaceInv`), and its answers are in the
  table when it judges (`SavedInv`). So what it overlooks is within `Overlap` of the
  newest row it leaves. `RecentBarsAreAdjusted`, from `AgreeInv`: an answer is one
  series, so its bars agree, and it is saved whole over the rows it repeats. `EquityTypes`.
- `DailyPredictionProofs`. `NoLookAhead`, `SnapshotIsKept`, `OneModelPublishes`.
  What is saved was computed several steps earlier, so the invariant speaks of
  the run: `ReadInv` (days seen are in the table and, for crypto, not after the
  cutoff), `FlagsInv` (the production models among the flags read were in production together
  at one moment, and there is one candidate of a class), `ReuseInv` (a
  run has seen at least the days of a stored snapshot of its cutoff, since days are
  only added), `PendingInv` (what waits in the context satisfies the properties).
  `PredictionTypes` is the typing they use. The derivative history needs the readiness
  test itself: `AcceptedIsUnbroken` shows that what it accepts has for every day of the window a row
  available at the time of the inference, also where two sources have a row of one day; `UnbrokenIsAccepted` that it accepts
  every such history (both by counting rows against days). Rows stay (`RowsInv`) and a prediction carries the
  run's time (`made`), which is never later than the clock (`ClockNow`), so `HistoryInv` holds of
  predictions in the context and in the table: `HistoriesAreUnbroken` (every row of the window was available when
  its prediction was made, not merely by now), `UnbrokenIsReady`. Two more lemmas on the test say where it and the dashboard
  part: `SecondRowIsRejected` (a second row of any required day but the oldest turns an otherwise complete
  history away; the fourth finding, for every history) and `DashboardAgreesWithJob` (with one row per day they
  agree). `SavesAreNeverRejected`: the two tables keep their keys and no save of the job
  meets a unique index, from `KeyInv` (what waits in the context has keys of its own, of assets
  decided in this part, absent from the tables). `DailyTypes` adds that
  a cutoff taken from SPY lies in the time of the model, from `ShapeInv` and `PlaceInv`.
- `HistoricalArchiveProofs`. File by file: `Settled` says
  what a file's stage implies for its two copies (nothing before `store`, the payload
  itself after), whatever the publisher has revised meanwhile and whichever
  crash left a torn file. From it `VerifiedFrames` and `ExitZeroMeansComplete`, from `ArchiveConstants` alone.
  Two action properties, from `CopyInv` (no parquet file without its archive, and none yet of a file a thread is at work on):
  `MirrorIsImmutable`, a whole raw archive or the rows made of it never change, and its
  price `TornCopiesAreNotRepaired`, what a kill leaves half written no later command repairs.
- `ResearchStudyProofs`, without state. First, every dataset a build can leave is point in time (`DatasetConstants`: the
  macro lag is at least the release delay). Second, in any set of rows whose labels end after
  their stamps, every part of a fold but the test year has labels that end before
  the year less the embargo, and inner and calibration fits end before what is
  chosen on. Third, the eleven scripts are well formed: what a `Score` uses is never learnt from the
  test year and what a `Choose` compares is over before the part it is made on; `StrongerBaseline` is the only
  step whose choice has seen the test year, and nothing is learnt with it (`SeenParts`, `ArtNames`).
- `ResearchPipelineProofs`. `PipelineInv` joins `ArchiveInv`, `BuildInv`,
  `StudyInv`, `ReportsInv`, `BundleInv`, `FredInv` and `Exclusive`. The last says which
  commands exclude which, without which no other part is inductive: a samples file
  must not change under a study, nor the FRED files under the one that reads them. `StudyInv` ties each artefact to the
  steps of its script already run, so that the facts about scripts apply to what a
  fold has computed so far. All nine invariants of `research_pipeline` follow, for any assets,
  files, histories, horizons, years, embargo and numbers of commands, threads and faults.

**Only model-checked.** Liveness (`ClosedBarsHeal`, `GroupIsServed`,
`PublishedDayIsCollected`, `CompleteAssetIsPredicted`, `PublishedBarIsStored`): outside what TLAPS
proves. All invariants and action properties of the passing runs are theorems. The five
violated properties are refuted on the instances of their runs; `SecondRowIsRejected` is the
general form of one of them.

## 6. What is not modelled

*Numbers.* Feature values, inference, calibration, metrics, the scores of a study and
the gates' comparisons are floating-point work: a gate's outcome is a free choice in
`Gated`, a vector is the days it was computed from. The label reconstruction check and
the parsers' checks are the set `Unreadable` and nothing more.

*Layout.* Wording, logging, HTTP routing. Reconnect delays and retry pauses are
steps of unknown length. A manifest that is itself torn, and two training
commands that start within one second and share a directory name, are left out.

*Components* with status `not_modelled` in `PROJECT.json`:
- price bar validation, confidence gate: stateless comparisons of one candidate or one output;
  a rejection appears as a failure of the run.
- news collector: one batch, one save, a table no job reads; that two identical
  articles in one answer make the save fail is a unit test.
- scheduling and start-up: triggers are actions of the jobs they fire; the migration
  lock is PostgreSQL's.
- API, broadcaster, web client: read-only views without state another part
  depends on. Of the query service only the count of derivative days is modelled (`DashboardState`).
- feature vectors and ONNX inference: arithmetic on one vector.
