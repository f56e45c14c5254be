-------------------------- MODULE ExperimentBatch --------------------------
(***************************************************************************)
(* `ai4stock-experiment batch --dedupe-predictions` and the rolling-lgbm   *)
(* processes it starts one after the other. The runs of a sweep differ in  *)
(* a few settings; runs that would train the same models share one         *)
(* prediction bundle: the first trains and saves it, the later ones replay *)
(* it. The bundle just saved is found again by the tag in its directory's  *)
(* name and by the age of its metadata file.                               *)
(*                                                                         *)
(* Time is counted in ticks, Second of them to the second: directory names *)
(* carry whole seconds, file times do not.                                 *)
(***************************************************************************)
EXTENDS Integers, Sequences, FiniteSets, SequencesExt

CONSTANTS
  Values,       \* values a swept setting takes, a number and its negative
  Base,         \* value of a setting that is not swept
  MaxSwept,     \* bound: settings swept at once
  MaxCases,     \* bound: --case groups
  Second,       \* ticks in a second
  Slack         \* bound: ticks a training takes beyond its first second

ASSUME ExperimentAssumption ==
  /\ Values \subseteq Int /\ Base \in Values
  /\ MaxSwept \in Nat /\ MaxCases \in Nat
  /\ Second \in Nat \ {0} /\ Slack \in Nat

VARIABLES
  options,   \* [runs, pinned, failFast, movedStore]
  pc,        \* "resolve", "train", "backtest" or "over"
  run,       \* index of the current run
  dir,       \* output directory of the current run
  bundle,    \* directory of the bundle the current run backtests
  store,     \* run directories on disk
  registry,  \* prediction_artifacts_by_fingerprint
  started,   \* started_at of the current run
  clock,
  failures,  \* runs that ended with a nonzero code
  verdict    \* "none", "success", "failure" or "error"

vars == <<options, pc, run, dir, bundle, store, registry, started, clock,
          failures, verdict>>

Keys == {"label", "lgbm", "benchmark", "topk", "weighting"}
None == [second |-> -1, tag |-> <<>>]

-----------------------------------------------------------------------------
(* The runs of a batch: a sweep's grid, or the cases as they are given.    *)

SweepGrid(swept) == [swept -> Values]

RunLists ==
  {SetToSeq(SweepGrid(S)) : S \in {K \in SUBSET Keys : Cardinality(K) <= MaxSwept}}
    \cup UNION {[1..n -> UNION {SweepGrid({k}) : k \in {"lgbm", "topk"}}]
                : n \in 1..MaxCases}

RunConfig(overrides) ==
  [k \in Keys |-> IF k \in DOMAIN overrides THEN overrides[k] ELSE Base]

\* The tag keeps letters and digits of a value: a sign is lost.
Magnitude(v) == IF v < 0 THEN -v ELSE v
Tag(overrides) == [k \in DOMAIN overrides |-> Magnitude(overrides[k])]

\* lgbm.validation_topk, when it is not set, is strategy.topk.
ValidationTopk(cfg) == IF options.pinned THEN Base ELSE cfg["topk"]

\* What rolling training reads of a configuration.
TrainingInputs(cfg) ==
  <<cfg["label"], cfg["lgbm"], cfg["benchmark"], ValidationTopk(cfg)>>

\* A bug: the effective validation_topk is left out.
FingerprintNoTopk(cfg) == <<cfg["label"], cfg["lgbm"], cfg["benchmark"]>>

Fingerprint(cfg) ==
  <<cfg["label"], cfg["lgbm"], cfg["benchmark"], ValidationTopk(cfg)>>

-----------------------------------------------------------------------------
Overrides == options.runs[run]
Config == RunConfig(Overrides)
SecondOf(t) == t \div Second

\* A finished bundle: its configuration, the time of its metadata file, and
\* whether the files beside the metadata belong to it.
NewBundle(cfg) == [cfg |-> cfg, modified |-> clock', whole |-> TRUE]

Init ==
  /\ options \in [runs : RunLists, pinned : BOOLEAN, failFast : BOOLEAN,
                  movedStore : BOOLEAN]
  /\ pc = "resolve" /\ run = 1
  /\ dir = None /\ bundle = None
  /\ clock = 2 * Second
  \* at most one bundle an earlier batch left, of any age
  /\ store \in {<<>>} \cup
       [{[second |-> 0, tag |-> Tag(options.runs[1])]} ->
          [cfg : {[RunConfig(options.runs[1]) EXCEPT !["label"] = -@]},
           modified : Second..(2 * Second - 1), whole : {TRUE}]]
  /\ registry = <<>>
  /\ started = 0
  /\ failures = {} /\ verdict = "none"

Replays == Fingerprint(Config) \in DOMAIN registry

\* Resolve the run, name its directory after the second and the tag, and
\* start the child: a replay has no training to do.
StartRun ==
  /\ pc = "resolve" /\ run <= Len(options.runs)
  /\ started' = clock
  /\ dir' = [second |-> SecondOf(clock), tag |-> Tag(Overrides)]
  /\ bundle' = IF Replays THEN registry[Fingerprint(Config)] ELSE dir'
  /\ pc' = IF Replays THEN "backtest" ELSE "train"
  /\ UNCHANGED <<options, run, store, registry, clock, failures, verdict>>

\* Training ends with the metadata file of a whole bundle.
TrainOk ==
  /\ pc = "train"
  /\ \E t \in 0..Slack : clock' = clock + Second + t
  /\ store' = [d \in DOMAIN store \cup {dir} |->
                 IF d = dir THEN NewBundle(Config) ELSE store[d]]
  /\ pc' = "backtest"
  /\ UNCHANGED <<options, run, dir, bundle, registry, started, failures, verdict>>

NextRun ==
  /\ run' = run + 1
  /\ IF run' > Len(options.runs)
     THEN /\ pc' = "over"
          /\ verdict' = IF failures' = {} THEN "success" ELSE "failure"
     ELSE pc' = "resolve" /\ UNCHANGED verdict

FailRun ==
  /\ failures' = failures \cup {run}
  /\ IF options.failFast
     THEN pc' = "over" /\ verdict' = "failure" /\ UNCHANGED run
     ELSE NextRun

\* Training stops early: no metadata is written, and the files of a bundle
\* that was in this directory before may be replaced.
TrainFails ==
  /\ pc = "train"
  /\ store' = [d \in DOMAIN store |->
                 IF d = dir THEN [store[d] EXCEPT !.whole = FALSE] ELSE store[d]]
  /\ clock' = clock + 1
  /\ FailRun
  /\ UNCHANGED <<options, dir, bundle, registry, started>>

\* The directories that could be the one just written. The search follows
\* the artifacts.store_dir of the configuration, the child does not; a run
\* without overrides has no tag to go by.
Candidates ==
  {d \in DOMAIN store :
     /\ ~options.movedStore
     /\ DOMAIN Overrides = {} \/ d.tag = Tag(Overrides)
     /\ store[d].modified + Second >= started}

FoundBundle ==
  CHOOSE d \in Candidates :
    \A e \in Candidates : store[d].modified >= store[e].modified

\* Only a run that trained and ended well hands its bundle on.
Registers == Fingerprint(Config) \notin DOMAIN registry

BacktestOk ==
  /\ pc = "backtest"
  /\ clock' = clock + 1
  /\ IF Registers /\ Candidates = {}
     THEN pc' = "over" /\ verdict' = "error" /\ UNCHANGED <<run, registry, failures>>
     ELSE /\ registry' = IF Registers
                         THEN [f \in DOMAIN registry \cup {Fingerprint(Config)} |->
                                 IF f \in DOMAIN registry THEN registry[f] ELSE FoundBundle]
                         ELSE registry
          /\ UNCHANGED failures
          /\ NextRun
  /\ UNCHANGED <<options, dir, bundle, store, started>>

BacktestFails ==
  /\ pc = "backtest"
  /\ clock' = clock + 1
  /\ FailRun
  /\ UNCHANGED <<options, dir, bundle, store, registry, started>>

Next == StartRun \/ TrainOk \/ TrainFails \/ BacktestOk \/ BacktestFails

-----------------------------------------------------------------------------
(***************************************************************************)
(* A backtest only ever uses a whole bundle whose models were trained from *)
(* inputs equal to its own run's: sharing bundles between the runs of a    *)
(* sweep changes no result (prediction_fingerprint against                 *)
(* resolve_runtime_config, find_prediction_artifact_dir).                  *)
(***************************************************************************)
ReplayedSameTraining ==
  pc = "backtest" =>
    /\ bundle \in DOMAIN store
    /\ store[bundle].whole
    /\ TrainingInputs(store[bundle].cfg) = TrainingInputs(Config)
=============================================================================
