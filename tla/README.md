# Verification of AI4Stock

TLA+ models of AI4Stock (Rust binaries under `src_rust/`, Python adapters under
`src/`), the TLC runs that check them, and TLAPS proofs. Paths below are relative
to the repository root. `PROJECT.json` maps every definition to the lines it
translates and lists the runs, the hazards, the findings and the theorems.

## 1. Inventory

AI4Stock collects Chinese A-share data, derives features, trains LightGBM models
on rolling windows, and backtests a top-k strategy. The stages exchange files;
inside a stage there are thread pools, rate-limited requests and a long daily
loop over one account.

| component | state | operations | talks to |
|---|---|---|---|
| collector driver `src_rust/bin/ai4stock_collect.rs` | deque of symbols, results of the run | run a stage in batches with retries, rebuild processed files, rebuild the packed store | bridge (one Python process per call), files |
| bridge `src/rust_collector_bridge.py` | shared side tables (stage manifest, exhausted backfills) | run one stage for one symbol, persist its side effects | Tushare adapter |
| Tushare adapter `src/collector_tushare.py` | raw file per symbol and stage, cooldown per stage, side tables | update a raw table, batch scheduler with cooldowns, precheck, processed build, endpoint rate limiter | Tushare API, files |
| AkShare adapter `src/collector_akshare.py` | raw and processed files | the same for another source, sequential per symbol | AkShare API |
| atomic IO `src/collector_io.py` | - | write to a temporary file, rename | files |
| packed-source builder (in `ai4stock_collect.rs`) | bucket files, manifest, metadata | rewrite buckets in parallel, then manifest, remove inactive buckets, metadata | processed and event files |
| feature generation `gen_feature.rs`, `feature_kernels.rs` | feature buckets, metadata | read packed buckets, compute, write | packed store |
| factor kernels and expressions `factor_kernels.rs`, `factor_expr/` | - | parse, analyse lookbacks, evaluate | feature generation, diagnostics |
| training `ai4stock_train*`, `rust_lgbm_bridge.py`, `pure_lightgbm.py` | rolling windows, model files, bundle files | cut the calendar into windows, fit or load a model, predict, write the bundle | feature store, LightGBM |
| backtest engine `src_rust/engine.rs` | cash, holdings, holding order, locks, histories | daily loop: select, sell, trim, buy, exit early, mark to market | run bundle |
| run bundle `bin/ai4stock_backtest/` | artifacts, completion markers | align predictions, risk schedules, groups of runs in parallel | engine, files |
| experiment batch `ai4stock_experiment.rs` | result rows | expand configurations, skip known ones, run | backtest |
| diagnostics `ai4stock_diagnostics*`, `single_factor_diagnostics.rs`, `feature_prefilter.rs` | candidate pools | statistics over artifacts, selection of factors | files |
| common `src_rust/common*` | - | arguments, profiles, parquet, YAML | all |

What is hard, per component, and what makes it correct:

* **Driver.** Batches run in parallel and settle at a barrier; the rate limit
  sends symbols back, other failures are recorded, an `Err` ends the whole run
  after files were written. Correct: no task is lost or repeated; what is derived
  is derived from complete inputs and is not older than them unless the run
  aborted or said so; the next run repairs what an aborted one left; a run ends.
* **Scheduler of the Python pipeline.** A batch is abandoned on the first
  refusal while its workers still write files; results are dropped, the symbols
  tried again. Correct: every symbol is in one place, the scheduler sleeps only
  when nothing else can run, cooldowns are respected, "ok" means complete, and it
  comes to an end, which may be an error.
* **Raw tables.** One window serves first fetch, forward update, backfill and
  schema refetch, and a file is only ever judged by its first and last date.
  Correct: no gap, no lost date or row, a success leaves nothing to fetch.
* **Engine.** A holding may be suspended, forced out, protected by a buffer,
  trimmed, unaffordable, or exited early, in one order per day. Correct: never
  more than topk holdings, locks respected, the order vector in step with the
  holdings, exposure within the risk degree, books that balance, no look-ahead.
* **Packed store, factor store and side tables.** In-place rewrites and unlocked
  read-modify-writes of shared files; stores of an older layout and policy are
  found on disk. Correct: what a successful rebuild or build leaves is whole,
  and factors come only from buckets under the event policy; a row of a day
  holds nothing that was published after it, but for the map of industries,
  which has no dates.
* **Factors and expressions.** Over a hundred series with their own conventions
  for short history and missing values. Correct: a factor reads the rows its
  window names and none later; columns taken for duplicates are duplicates; an
  expression evaluates to what its text says.
* **Feature profiles.** Lists inherited, dropped, added and repeated over several
  levels, read by two resolvers. Correct: the columns are those the chain means,
  in both.
* **Run bundle.** Matrices from several files on different axes, risk schedules
  that grow with the loop that reads them, groups of rows resumed by markers.
  Correct: exposure and fused scores of a day depend on no later day, returns are
  of one day, every row of a batch is accounted for, a batch ends.
* **Experiment batch.** Runs of a sweep share what one of them trained. Correct:
  a replay has the training inputs of its own settings.
* **Diagnostics and prefilter.** Statistics per day, segment and neutral space
  with missing numbers everywhere, and files that outlive their run. Correct: a
  segment is a run over its days, a selection is justified by the evidence, a
  profile rests on training days.
* **Training.** Windows and embargo are calendar positions, labels are row
  offsets, model files outlive the run that wrote them, and a bundle is several
  files rewritten one after another. Correct: no label that reaches into a test
  window is fitted or validated on, a window is trained on whole, each row is
  predicted once, a loaded model is the one a fit would give, the files of a
  successful run belong together.

## 2. Modules

State machines:

| module | models | state and actions |
|---|---|---|
| `BacktestEngine` | `run_backtest_core_impl_with_trace` | `cash`, `holdings`, `order`, `locked` and the day's working values; one action per loop of the day (`SellOne`, `TrimOne`, `BuyOne`, `ExitOne`) and per stretch between loops (`OpenDay`, `Rebalance`, `PlanTargets`, `BeginBuys`, `EndBuys`, `EndExits`, `MarkToMarket`) |
| `TargetWeights` | `cap_weights`, `cap_group_weights` | one step per redistribution round, exact fractions |
| `ExpectedReturnHistory` | histories of the expected-return exit mode | `Estimate` and `AppendFromRow` per day, with the label days each entry read |
| `CollectRun` | `run_tushare`, `run_stage_with_retry`, the stage calls | deque, batch, outcome per call, results; `TakeBatch`, one action per answer of a call, `Settle`, `Wake`, `EndStage`, `RebuildPacked` |
| `CooldownScheduler` | `run_tushare_update_pipeline`, `collect_stage_batch` | pass over stages, workers with program counters, cooldown per stage, results, processed files; `Finish` is the end of the pipeline, the processed rebuilds and the packed one that raises (`Ending`); the ghosts `dropped`, `restUntil`, `unheard` remember what the code forgets |
| `RawTableUpdate` | `update_raw_table` on one file | the file's rows against a provider that publishes date by date; one action per outcome |
| `PackedStores` | the packed rebuild of `ai4stock_collect.rs` and the factor store build of `gen_feature.rs`, side by side | bucket files, manifest, metadata and the workers of both programs; each file is truncated, then finished or failed; `RemoveInactive`, the two metadata writes, `CheckPolicy`, kills |
| `RollingTraining` | `make_bundle_lgbm_rust_runtime`, the fit-or-load step of `rust_lgbm_bridge.py`, the labels of `gen_feature.rs` | windows left (by their first test day), the model of the current one, predictions, model files and bundle files over several runs; `StartRun`, `Fit`, `SaveModel`, `LoadModel`, `WindowError`, `Predict`, `WriteFile`, `Abort` |
| `ExperimentBatch` | `ai4stock_experiment.rs` with the training process of `rolling_lgbm.rs` | run list, bundles on disk with tags and times, what the batch registered; `StartRun`, `TrainOk`, `TrainFails`, `BacktestOk`, `BacktestFails` |
| `ArtifactBatch` | `artifact_batch.rs` | status per row, done and failed markers, the failed table; `OpenBatch`, `SkipDone`, `RejectRow`, `StartRow`, `Succeed`, `Fail`, `DropRow`, `CloseBatch`, `Kill` |
| `JobLedger` | nothing in the code: the abstract promise of a resumable batch | `Open`, `Complete`, `Close` |

Calculations, as operators:

| module | models |
|---|---|
| `TopkDropout` | `select_topk_dropout_trades`: ranking, forced sales, buffer, drop, buy list |
| `RiskSchedule` | `build_risk_schedule_values` of `run_bundle.rs`: signal strength, quantiles of its history, curves, benchmark regimes, one or two validation metrics |
| `BundleMatrices` | `prediction_bundle.rs` and the alignment, fusion, baselines and label metadata of `run_bundle.rs` |
| `SourceTables` | rows of the processed tables and of the packed source: adjusted prices, events and sidecars as of a date, industry context, rolling columns |
| `FactorKernels` | `factor_kernels.rs`, `feature_kernels.rs` and the stored columns of `gen_feature.rs`: for each factor the cells its value reads and when it is missing |
| `FactorExpressions` | `factor_expr/`: parsing, validation, analysis, evaluation |
| `FeatureProfiles` | both resolvers of feature profiles, the incremental store of a profile, the composition of training profiles |
| `FactorEvidence` | `single_factor_diagnostics.rs`, `feature_prefilter.rs` and the provenance rules of `single_factor_batch.rs` |
| `Filtering` | `Kept`: the members of a vector that satisfy a condition, in their order, as the deque and the pending lists of the collectors are rebuilt; a recursive function, so that it can be reasoned about |

Composition and instances: `MCResearch` runs `ExperimentBatch` and
`ArtifactBatch` over one store of bundles and maps the latter onto `JobLedger`;
`MCDataStores` extends `RawTableUpdate` and `PackedStores` and puts them in one
run; `Calculations` draws a part and one of its inputs and takes one step (the two
loops with a state of their own are stepped through), and `MCCalculations` adds
the two parts whose operators are recursive, expressions and profiles.
`MCBacktestEngine`, `MCCollectRun`, `MCCooldownScheduler` and `MCRollingTraining`
hold constants. `BacktestEngine_proofs` (with the selection of `TopkDropout`),
`MCDataStores_proofs` (both stores), `MCResearch_proofs`, `RollingTraining_proofs`,
`CollectRun_proofs`, `CooldownScheduler_proofs` and `Calculations_proofs` hold the
theorems about the modules they are named for, `DataTheorems` what they need of
numbers, sums and sequences.

`BacktestEngine` EXTENDS `TopkDropout` and uses its `SellList` and `BuyList`; it
takes the weights of `compute_target_weights` as any vector that sums to at most
one, which `WeightsSound` checks of the real redistribution, and the risk degree
of a day as any value, of which `RiskPointInTime` checks the range.
`CollectRun` sees a raw-table update as an answer plus "the file changed or did
not"; `RawTableUpdate` is the inside of that call, `PackedStores` the inside of
its last stage. `CooldownScheduler` sees an update as "changed the latest date",
"backfilled" or "nothing to do". The factors of `FactorKernels` are the columns
`FeatureProfiles` resolves and the functions `FactorExpressions` builds on.

Abstractions worth knowing when reading them:

* Money is integer units, rates are percents, labels are small percents; prices,
  scores and risk come from small sets chosen in the step that first reads them.
  The code's `EPS` of 1e-12 is zero.
* `order` is a set: its sequence only breaks ties between equal targets, which
  the model leaves open (`BuyOne` may take any largest).
* File contents are reduced to what the properties tell apart: dates and
  reporting periods of rows in `RawTableUpdate`, versions, layouts and policies
  in `PackedStores`, freshness relations elsewhere. A save through
  `save_dataframe_atomic` is one step, because it renames a finished file; a
  write in place is two, truncating and finishing.
* A factor's value is NaN or the set of cells it is computed from. That decides
  which rows it reads and when it is missing, not the number it is.
* Days of the diagnostics are numbered with two to a month and three to a year,
  correlations are in tenths, rates in percent, each truncated; there are three
  factors to select from.
* The precheck of the Python pipeline is an arbitrary plan per stage (`PlansOf`).
* A model is a record of what it was fitted on (rows and parameters); label
  transforms, weights and rank transforms change values, not rows, and are left
  out. `ReusedModelIsFresh` is about models of equal parameters: nothing in the
  code compares the parameters or the factor store of a loaded model.
* `CooldownScheduler` starts from the processed files of `ProcessedBefore` (all or
  none in the run, any set of symbols in the proofs); those there are, are up to
  date. Files of symbols outside the run, which also make the pipeline end in the
  error, are not told apart from these.
* A diagnostics run without a result is `None` in `FactorEvidence`, whether the
  code returns an error or, for want of rows, writes an empty summary.
* A reclassification of a stock is a map of industries per day beside the one the
  code has (`classified`, for the source rows only). Labels and peers of the
  diagnostics take the map as given.

## 3. Runs, bounds and what they show

| run | bounds | shows |
|---|---|---|
| `Calculations` | selection: 4 stocks, topk 3, scores 1..3 or NaN, floor 1, buffer 1, n_drop 0..3; weights: 4 stocks, 2 groups, raw weights 1..3, caps in quarters; histories: frequency 1..4, 1..9 days, one missing label; risk in eighths of the account, matrices, source rows, factors, expressions, profiles, evidence: the cases listed per part in `Calculations` and `MCCalculations` | sixteen properties, below |
| `BacktestRebalance` | 3 stocks, topk 2, 2 rebalance days, floor, buffer, costs with a minimum, desticky | types, position limit, exposure and accounting through every rebalance step |
| `BacktestExits` | 3 stocks, topk 2, 5 days, rebalance every 3, price confirmation with both bypasses | order in step, locks under early exits |
| `CollectRun` | 2 symbols with five stage lists, 3 symbols with one; 2 workers, 2 refusals; any leftover freshness | nothing lost or repeated, derived files follow complete raw files, the run ends |
| `CooldownScheduler` | 3 symbols, 2 stages, 2 workers, 2 refusals, failure threshold 1, 1 tick, at most 3 calls pending at the start; processed files of all symbols or of none | every symbol in one place and "ok" only when complete, cooldowns and waits, the pipeline ends: in its report, or in the `RuntimeError` of the packed rebuild as soon as there is a processed file |
| `DataStores` | raw file: 3 kinds of stage, 4 dates, 2 periods, any provider contents, any file left by earlier runs; stores: 2 symbols, 3 buckets of which one is of an old layout, 2 workers, 2 versions, 3 runs | the file has no gap and loses no date, success means complete; stores are whole after success, factors come only from buckets under the policy |
| `RollingTraining` | 9 days, one symbol that always trades and one that may miss a day and be halted on another; 5 configurations, 2 runs with and without saving and loading | labels outside the test window, whole training windows and rows predicted once, models safely reused, bundle files of one run |
| `Research` | sweeps over up to two settings and up to three cases, values a number and its negative, seconds of two ticks; 3 rows over 2 bundles, 2 batches, 1 or 2 workers | replays of equal training, rows accounted for, the ledger, a batch ends |
| `CollectCooldown` (violation) | 2 symbols, 2 stages, 1 refusal | the Rust driver sleeps although another stage could run |
| `RawTableEvents` (violation) | 2 dates, 2 periods | one of two events announced on a day is lost |
| `RollingLeak` (violation) | as `RollingTraining`, 1 run | a symbol's missed day carries a validation label into the test window |
| `ProfileInheritance` (violation) | profiles of up to three levels | training selects other columns than the diagnostics |

The properties of `Calculations`:

| property | about |
|---|---|
| `TradesExecutable` | a trade list is executable within topk, and freed slots are filled while there are candidates |
| `NoWorseSwap` | a rotation never trades down and never sells a stock the buffer protects |
| `WeightsSound` | caps kept, the budget spent and not exceeded, the ranking kept |
| `NoLookahead` | an estimate reads only labels of periods that have ended, of one horizon, at indices in range |
| `RiskPointInTime` | the risk of a day is a function of its days so far, and in range |
| `FusionPointInTime` | a fused score depends on the scores of its day and the pairs both bundles have |
| `FixedRiskOnEveryDay` | fixed-risk baselines have every day the strategy has, whatever the scores leave out |
| `LabelsAreDaily` | of bundles whose metadata is true only those with daily labels are accepted, except bundles of other programs that state no horizon, no column and no meaning of their backtest labels (`Unstated`) |
| `SourcePointInTime` | a packed row holds the prices, derived values and events known on its day; its industry context is that of the classification of its day unless a stock has joined or left the industry since (`Reclassified`) |
| `FactorsReadTheirWindow` | a factor reads rows of its window and none later, and more history changes no value it has |
| `DuplicatesAgree` | known duplicates are equal on every input without zero prices and volumes, and what training reads for a dropped name is stored |
| `ExpressionsReadTheirWindow` | what is written parses to the tree that was written, and its value reads only rows its windows name and columns the projection loads |
| `ProfilesMeanTheirChain` | a profile's columns are those its chain of levels names, its incremental store those its parent lacks, and the resolvers agree where at most one level mutates |
| `SegmentsAreRuns` | the summary of a segment is that of a run over the segment's days alone |
| `SelectionJustified` | every factor kept passes, and every one left out fails, duplicates or correlates with a better one that is kept |
| `ProfilesFromTraining` | a profile is written only from diagnostics whose days are all in training, as long as a directory that is used again is written by whole runs that have segments if one before them had (a clean directory always is) |

Why the bounds are enough. Topk 2 with 3 stocks, and 3 with 4, make a full
account, a candidate outside it, a locked holding beside a forced one and a
buffered one; two rebalance days are the first purchase and the first real
rotation; five days with a frequency of three hold a whole period with two exit
days, the next rebalance and a cut last period. Two workers with three symbols
give a batch, a batch refused in part, and a symbol behind it; in the Python
pipeline the third symbol is one that is still running, and may be refused, when
the failure threshold ends the loop over the results. Two refusals are
one for each member of a batch, or a retry refused again. Four dates hold a file
with a date before it, inside it and behind it. Three buckets hold one of each
symbol's own and one no symbol is in any more; three runs of the stores are one
that fails or is killed, one beside it and one that repairs. Nine days hold three
windows behind their history, one skipped for want of it and a cut last one; the
configurations differ in step, range, horizon and embargo, one has the step of
zero that underflows; two training runs are one that saves and one that loads, or
one that is killed and one that follows. Three rows are two that share a bundle
and one that does not, or a fusion that uses the bundle of another row; two
batches are one that is killed and one that resumes. A sweep of a number and its
negative is what makes two tags equal. Three levels of a profile are a child, a
parent that mutates and a base. `MaxRefusals`, `MaxTicks`, `MaxPending`, `MaxRuns`,
`MaxVersion`, `MaxBatches`, `MaxSwept`, `MaxCases`, `MaxRaw`, `MaxFreq`, `MaxDates`,
`MaxMissing`, `LeastHistories`, `Slack` and `NDates` bound
behaviours that are otherwise infinite or long; none is in the code.
`MaxFailures` stands for `MAX_CONSECUTIVE_FAILURES`, which is 10 in the code.

`Calculations` has `CHECK_DEADLOCK FALSE` because a calculation ends after its
answer, `DataStores` and `Research` because they stop when their bounds are
used up; the other specifications end in an explicit stuttering `Done`.

**Fairness.** `CollectRun` and `CooldownScheduler` have `WF_vars(Next)`: a
started call returns (requests have timeouts in the client library and raise)
and the driver thread is scheduled. Nothing is assumed about which answer a call
gives. Refusals are bounded because the provider's limit is per minute and the
code waits 60 seconds; if the provider refused for ever the code would loop for
ever. `Research` has weak fairness of `Finishing`, the steps of an open artifact
batch: the Rayon pool runs every job it was given and a backtest ends. It does
not assume that a run succeeds, that a batch is started, or that the process
lives: a kill ends a batch without a verdict, and starting another is the user's
choice. The safety properties need no fairness.

**Refinement.** `ImplementsLedger` shows that `ArtifactBatch` implements
`JobLedger` with done markers as the finished jobs: a finished job stays finished
through kills and restarts, is completed only while a batch that chose it is
open, and "success" is reported only when nothing chosen is left. The batch's
bookkeeping (workers, groups, failed markers, table) maps to stuttering.

Every property of a passing run has a mutant: a plausible mistake in one
definition (the operators commented "A bug:") for which the run reports a
violation.

## 4. Findings

1. `docs/USER_GUIDE.md:180-183` describes stage-level cooldown scheduling; the
   Rust driver, which is the command users run, sleeps inside the stage
   (`ai4stock_collect.rs:1130`). Only the Python pipeline, now reached from the
   tests alone, schedules that way. Run `CollectCooldown`.
2. `update_raw_table` dedupes event tables by announcement date
   (`collector_tushare.py:2306`) although the fetchers keep distinct reporting
   periods, as `tests/test_collector_tushare.py:350` asks. Run `RawTableEvents`.
3. The embargo of the rolling windows counts calendar days
   (`rust_runtime.rs:1570`), a label counts rows of its symbol
   (`gen_feature.rs:754`), and a suspended symbol has no rows. Its label can end
   inside the test window, against the invariant that
   `docs/PROGRESS_AND_TODO.md:205` and `:217` describe. Run `RollingLeak`; for
   symbols without a gap `NoLabelReachesTest` holds.
4. Training merges the levels of a feature profile as YAML (`rust_runtime.rs:3090`),
   so the `add_columns` and `drop_columns` of a level replace those of its parent;
   the diagnostics apply them level by level (`single_factor_batch.rs:2096`).
   In `configs/feature_profiles.yaml` 23 of 51 profiles have several such levels;
   `core_v4_techlite_tushare_plus_industry_nostruct_v1`, the baseline of
   `docs/PROGRESS_AND_TODO.md:85`, is trained without the nine columns its parent
   adds. Run `ProfileInheritance`.

Met on the way and true of the code. The first two bullets are what documents say
should not be; they have no run of their own, because a property that passes
states each as its exception and is violated without it. The others are not
contradicted by a document that a run could quote.

* Documented look-ahead: the source is built with the one industry map of the
  present for all of its days (`TUSHARE_INDUSTRY_MAPPING_POLICY`,
  `ai4stock_collect.rs:41`, read at `:2386`), so a later reclassification changes
  the industry context of rows in the past and the `industry_excess` labels.
  `docs/PROGRESS_AND_TODO.md:230-233` lists this as open. `SourcePointInTime` says
  that it is the only way in which a row is not what was known on its day.
* Labels: `run_bundle.rs:2689-2698` asks only a bundle of the native trainer to
  prove that its backtest labels are daily. One of another program with a signal
  horizon above 1 and no statement about its backtest labels is taken, whatever
  they span, against `docs/CONFIG_PROFILE_ARCHITECTURE.md:141-145` ("backtest always
  uses realized `1d` returns", "Multi-day forward labels must never be compounded
  as daily realized returns"). `LabelsAreDaily` excepts exactly these bundles.
* Python pipeline: with any stage selected the end of the pipeline calls
  `rebuild_packed_source_from_local` (`collector_tushare.py:3076-3087`), which
  does nothing but raise (`:2494-2504`). Once one processed parquet exists no call
  returns its report; everything fetched and rebuilt before is on disk. The test of
  the whole pipeline (`tests/test_collector_tushare.py:500-503`) replaces the
  function.

* Engine and bundle: with both `max_weight` and `max_group_weight` set only the
  group cap holds at the end (`WeightsSound` is stated accordingly); a sale
  cheaper than its least cost lowers cash, also below zero; a stock without a
  return today may be bought, only holdings are locked; `rolling_lgbm.rs:440`
  passes `--disable-local-store`, which the option parser of `run-bundle`
  (`run_bundle.rs:2503-2540`) does not know; labels of a fused bundle are NaN
  where the fusion has no pair.
* Collector: `--stages processed,daily` leaves the processed files older than
  their input (`DerivedFollowRaw` excludes it); an aborted run leaves derived
  files stale until a run of an input stage or of `processed` repairs them; a
  result dropped when the Python pipeline abandons a batch can hide a backfill
  from the processed rebuild (`EverySymbolAccounted` shows it is the only way
  there); when the failure threshold ends a batch, a refusal that a worker still
  running gets afterwards is read by nobody (`collector_tushare.py:2563-2584`,
  `:2992-2998`), and the stage is called again within the minute. It takes a batch
  longer than the threshold of 10. `CooldownsKept` exempts exactly these stages
  (`unheard`); it was the proof of that property, not the first, smaller run of
  it, that showed the exemption is needed; a missing `adj_factor` counts as 1.
* Training and factors: a model file torn by a kill stops every later run that
  loads models; a killed training run leaves files of two runs in the bundle
  directory; training does not check the policy of a factor store it is given;
  a label at the end of the training range reaches past that range; an
  expression's lookback is that of its widest operator and ignores nesting;
  a profile that drops all of its columns is given every stored column by the
  diagnostics; the exact duplicates of `gen_feature.rs:689` differ where prices
  or volumes are zero.
* Batches: a done marker is never invalidated by a changed row; in the grouped
  mode an error outside a row ends the batch without marking the rows of the
  group; two settings whose tags are equal after slugging are told apart by the
  time of their bundles only.
* Diagnostics: a segment comparison left by an earlier run stays in its directory
  when a run has no segments; a factor without rank correlations passes the
  prefilter, because comparisons with a missing number are skipped; symbols
  without an industry keep their raw value in the industry-neutral space.

## 5. Proofs

Every safety property of the state machines and fourteen of the sixteen of
the calculations are proved for every value of the constants: any universe, calendar,
list of symbols and stages, number of workers, configurations, rows, runs and
kills. The proofs rest on the assumptions the modules state of their constants,
which TLC evaluates in the runs, and on nothing else. Each follows one argument: an inductive invariant that the initial states
satisfy, every action keeps (one step of the proof per action), and the property
follows from.

| module | assumption | properties proved | inductive invariant |
|---|---|---|---|
| `BacktestEngine` | `EngineAssumption`, `StocksAssumption`, `SelectionAssumption`, `SentinelAssumption` | `TypeOK`, `PositionLimit`, `OrderInSync`, `LockedUntouched`, `DayAccounting`, `ExposureWithinRisk` | `Inv` (types and `Books`), `Ledger`, `Plan` |
| `RawTableUpdate` | `TableAssumption` | `FileStaysWhole`, `SuccessIsComplete` | `TableInv` |
| `PackedStores` | `StoreAssumption` | `OnlyUnderPolicy`, `StoresAreWhole` | `StoreInv` |
| `MCResearch` with `ArtifactBatch` and `ExperimentBatch` | `ExperimentAssumption` | `EveryRowAccounted`, `ImplementsLedger`, `ReplayedSameTraining` | `BatchInv`, `ExperimentInv` |
| `RollingTraining` | `RollingAssumption` | `ReusedModelIsFresh`, `NoLabelReachesTest`, `BundleBelongsTogether`, `WindowsAreWhole` | `RollingInv` |
| `CollectRun` | `RequestAssumption`, `RunAssumption` | `NothingLostOrRepeated`, `DerivedFollowRaw` | `CollectInv` |
| `CooldownScheduler` | `SchedulerAssumption` | `EverySymbolAccounted`, `CooldownsKept` | `SchedulerInv` |
| `Calculations` | `InputAssumption`, `StocksAssumption`, `SelectionAssumption`, `SentinelAssumption` | `TradesExecutable`, `NoWorseSwap`, `WeightsSound`, `NoLookahead`, `RiskPointInTime`, `FusionPointInTime`, `FixedRiskOnEveryDay`, `LabelsAreDaily`, `SourcePointInTime`, `FactorsReadTheirWindow`, `DuplicatesAgree`, `SegmentsAreRuns`, `SelectionJustified`, `ProfilesFromTraining` | `Inv` (`WeightsInv`, `HistoryInv`, and for the other parts that the input is one of those drawn) |

Why the properties are not inductive, and what the invariants add:

* **Engine.** In the middle of a rebalance the account may hold stocks that are
  about to be sold, and `order` lags behind. `Books` says what each phase may rely
  on: while selling, the holdings that will stay together with the buy list fit in
  topk; from then on holdings and targets together do; the order covers the
  holdings and equals them outside the loops; locked stocks are held, have no
  return, and are in no list of stocks to trade. `Rebalance` establishes the first
  part by `SelectionWithinLimit`: the portfolio after the selected trades fits in
  topk, because `Top(scores, S, n)` has at most `n` members (`TopSize`, from
  `FirstSize`: every rank below the size of a set is taken exactly once). `Ledger` says that within a day
  cash, holdings and the costs paid add up to what the day began with; a sale, a
  cut and a purchase each keep it, because the cost is taken from the cash in the
  same step. `Plan` says that the targets and the locked holdings fit in what the
  risk degree allows and that, once trimmed, no holding is above its target;
  purchases are bounded by the deficit to the target (`BuyWithinDeficit`). The
  sums of holdings are those of `DataTheorems`.
* **Raw tables.** `FileStaysWhole` speaks of the first and last date of the file,
  which move with every save. `NoHole` speaks of rows instead: a provider row
  whose date lies between those of two rows of the file has a row of its date
  there. With `FromProvider` it says what a fetched window adds to.
* **Packed and factor store.** Both programs write while the other runs. `Clean`
  (no readable bucket is of the old policy) holds from the policy check of a build
  to its end, although a rebuild may start in between, since a rebuild only writes
  strict files. `PackInv` and `GenInv` say of a process under way that what it has
  dealt with it has written, but for failures, and that nothing it read or holds
  open is of the old policy.
* **Artifact batch.** `Marked` relates the status of a row to its markers,
  `GivenUp` says why a row is dropped, `Reported` what an end with a report says.
  The refinement maps done markers to finished jobs: each step of a row, of the
  opening and of the closing is shown to be a step of `JobLedger` or a stutter.
* **Experiment batch.** That two runs share a bundle only with equal training
  inputs rests on directory names, which carry seconds and slugs: `HandedOn` says
  that no registered bundle is of the current second, `OwnDirectory` that a run
  that trains writes the directory of its second and tag, and `JustTrained` that
  nothing on disk is as new as what it trained, so that the code's search for the
  newest bundle of that tag finds its own.
* **Rolling training.** `ModelInv`: every model, in memory or on disk, is what a
  fit on the whole store with some parameters gives for its window (`Canon`), even
  one that an earlier run of other parameters left; it identifies the model of a
  loaded file without knowing who wrote it. `WindowInv`: the predictions so far
  are those of the windows that are not left. `BundleInv`: a run that writes can
  tell its own files from those of the runs before, and the metadata comes last.
* **Collector driver.** `TasksOK`: a due call is open, in the deque or the batch
  and never in both, or has exactly one result. `FreshOK`: while the processed
  stage runs a stale symbol is still to be built or failed before, and afterwards
  it failed. `Settle` turns outcomes into results, retries and failures in one
  step, and the lemmas `ResultsAdded` and `QueueSettled` say which.
* **Scheduler.** `PlacesOK` is the partition of the symbols of a stage into queue,
  batch and settled; `BooksOK` and `StaleOK` relate it to results and files;
  `ClockOK` says that a pass without progress took no time and came only by stages
  that could not run, and that a refusal asks for a cooldown that is in force, is
  still to be heard, or was not heard (`unheard`).

* **Selection of trades.** `SelectionExecutable` and `NeverTradesDown` hold of any
  scores, portfolio, locks and limits. `Better` orders the stocks with a score
  (`RankingOrders`), so `Top` and `Bottom` have the sizes asked for or are all
  there is, and what is sold, dropped and bought can be counted: the slots of a
  day are the free ones, the forced ones and the dropped ones (`ListsOfADay`). A
  worse stock bought while a better one is sold would leave one candidate too few.
* **Weights.** The two redistribution loops have one shape (`Shared`): weights are
  given in proportion to shares, and what a cap does not take goes to the next
  round. `RoundFits` says that a round gives what is left, `LoopEnds` that no cap
  is left out at its end. The code's fractions are compared over a common
  denominator, so that a reduced fraction (`Reduced`, from `GcdDivides`) is the
  same number; `CapInv` and `GroupInv` say which stocks and groups are settled,
  at their caps, and which are open; the ranking is kept because open weights are
  in proportion to the raw ones and settled ones at caps of a larger raw weight.
* **Histories.** `EntriesTrue` says of each entry which day it is of and which
  labels it read; `EarlierPeriodIsOver`: an entry in the history of as many
  remaining steps, of an earlier day, is of an earlier period, whose labels all
  end before this day.
* **Degrees of risk.** `ScheduleLooksBack` and `ScheduleInRange` hold of any scores,
  benchmark file, validation records and configuration (`RiskInputOk`,
  `RiskConfigTyped`; the model's inputs are shown to be such, `DrawnRiskOk`). A
  signal's thresholds come from the sorted part before the day (`SubSeqAgree`);
  the file of the benchmark lists the same days whatever its values are
  (`FileLooksBack`), sorted those before a day come first (`ListedBefore`, by ranks),
  so that a moving average of the day before reads none of the masked values
  (`RegimeLooksBack`). For the range, a threshold is a number because a quantile
  lies at or between two numbers of the history (`QuantileNumber`), a span is used
  only when it is not empty, and a curve of a share is a share (`CurveInRange`).
* **Source rows.** `RowsArePointInTime` holds of any market whose days are numbers
  and whose events are in the order of their announcement (`MarketOk`; the model's
  inputs are shown to be, `DrawnMarketOk`), and of any two maps of industries, the
  one of the build and the one of the day. Every operator a row is made of is
  shown to be unchanged when the tables are cut after the day: prices and returns
  by the latest of the earlier days, events because one is in effect by day t
  exactly if some trading day up to t is behind its announcement (`InEffectWhen`),
  so that those in effect are a beginning of the list and the last of them is
  shown (`CurrentIsLast`), the industry because a member without a row by the day
  adds nothing to it, and because its rolling context depends on the map through its
  members alone (`ContextOfMembers`): where the maps differ about none of those the
  context is the same.
* **Factors.** `FactorsLookBack` holds of any source (`SourceOk`: columns of any
  length, each cell missing or of its own row, any cells zero) and any window. The
  operations are treated once, with the number of rows they add (`Reads`: a shift
  by w adds w, a window of w adds w - 1, a moving average all of the past), as
  closed rules for one window (`Levels`, `Combined`, `Graded`); each record of
  columns has a lemma that follows its formulas (`AlphaLevelsRead` ...
  `TsCompositesRead`, `TrendsRead`). `DuplicatesEqual` needs more of the columns:
  each of the nine pairs is in one record only (`NamesOfRecords`), and without
  zeros the formulas of both are the same function (`NothingLeftOut`,
  `TwinsEqual`); for highs and lows because a mean of observed rows is never empty.
* **Segments.** `SegmentIsRun` holds of any store of finitely many rows, any run
  and any of its segments. What a run finds is followed from its rows to its files
  for a part of the days (`PartOf`): the mean of an industry and the label space
  are of a day (`PeerMeanOfPart`, `InSpaceOfPart`), so the rows that are examined
  are those of the part (`ExaminedOfPart`), and so is what each day says
  (`DailyOfPart`). A run fails, for want of industries or labels, with no rows at
  all; a segment is compared only with a run over its days that does not.
  `YearsCover`: a day is of one year (`YearOfDay`), no two segments have the same
  name, and a clipped year has a day exactly if the year and the range have it.
  `MonthsAgree`: the summary takes the mean over pairs of a month and its value,
  the months beside it over a function of the months; a sum does not depend on
  what its members are called (`SumRenamed`).
* **Selection of factors.** The ranking is a total order in which missing numbers
  are the worst and the name decides at last (`BetterOrders`), so the sorted list
  is the one of the ranks (`RankingLists`). The three lists the code makes by
  keeping an entry unless one it kept before stands for it (segments by name,
  duplicates, columns too much alike) are one operator, `Surviving`, and one lemma:
  `SurvivingStays`. `SelectedAreBest` chains it twice, and `ProfileJustified`
  holds of any passing factors, columns, groups and maximum. `RobustOfBoth` holds
  of any two summaries with any numbers missing: the worse of two numbers fails a
  threshold that either fails (`WorseFails`), with a sign or without
  (`SmallerFails`). That the summaries of a run are such rows is `SummaryRowType`:
  every mean, rate, ratio and correlation of finitely many rows is a number or
  missing.
* **Bundles and evidence.** `FusionOfADay` (a fused score is made of its day) and
  `BaselinesKeepTheDays` hold of all matrices; `WrittenFromTraining` of all
  directories that are each about one range of days.

The theorems above hold for all arguments. The properties of the runs that rest on
them speak of the inputs `Calculations` draws: those of selections, weights and
histories range over the constants, those of risk, bundles, metadata, source rows,
factors and evidence over the cases the module lists. `InputAssumption` also says
that `None` is not the name of an industry, which the drawn stores rest on.

`DataTheorems` is about data: ranks in a finite order (`FirstSize`), quotients and
parts of sequences (`Quotient`, `SubSeqAgree`), the library's sum over a finite set (`SumSplit`, `SumGrouped`, `SumProportional`), divisors and
fractions (`GcdDivides`, `CommonMultiple`), and the filter of the collectors
(`KeptMembers`: a filtered sequence has exactly the members that satisfy the
condition, and repeats none). The library's induction rules take an operator and cannot be used, so these
inductions are done to first order: a counterexample of least size, from the
well-foundedness of the naturals (`LeastExists`, `SmallestSet`), is refuted.

Only model-checked:

* liveness (`RunEnds`, `PipelineEnds`, `BatchEnds`): the proof system does not
  treat it;
* `ExpressionsReadTheirWindow` and `ProfilesMeanTheirChain`: expressions and
  profiles are trees of any depth, their operators are recursive, and a module that
  reaches a recursive operator loses the prover's arithmetic.

## 6. Not modelled, and the plan

Left out for good: the Tushare probe, plots, reports and performance metrics
(output), the values of numeric kernels (floating point; the cells they read are
modelled), LightGBM, argument parsing, parquet encoding, file renames.

Left out of this project, with the reason:

* `candidate_pool.rs` and `strategy_pair.rs`: comparisons of finished backtests,
  statistics from files to files without a state or an order to get wrong.
* The unlocked read-modify-writes of the stage manifest and the
  exhausted-backfill table (`rust_collector_bridge.py:375`): both save requests
  only, so a lost entry costs requests and no data. They are a hazard without a
  property.
* The endpoint rate limiter of `collector_tushare.py:413`: needs real time.
* The AkShare loop: sequential per symbol, the same append, dedupe and save as
  the raw table updater with one window; its processed row is in `SourceTables`.

Nothing of the plan is left but what the proof system cannot reach (section 5,
last list). Worth adding when the code changes: a lock around the files that
parallel stages rewrite, which would turn the hazard above into a property, and a
model of the AkShare loop once it fetches symbols in parallel.
