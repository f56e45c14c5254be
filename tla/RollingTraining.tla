-------------------------- MODULE RollingTraining --------------------------
(***************************************************************************)
(* Rolling training (make_bundle_lgbm_rust_runtime in                      *)
(* src_rust/bin/ai4stock_train/rust_runtime.rs): the test calendar is cut  *)
(* into windows, each window's model is fitted on the labelled rows of a   *)
(* train and a validation window that end label_embargo_days before it,    *)
(* and the predictions of all windows are written with their labels as one *)
(* bundle. Models are kept on disk when asked for and may be loaded by a   *)
(* later run, after a run was killed or its configuration changed.         *)
(*                                                                         *)
(* Days are positions of the calendar. A model is what it was fitted on.   *)
(***************************************************************************)
EXTENDS Naturals, FiniteSets

CONSTANTS
  LastDay, Symbols,
  Stores,        \* factor stores: symbol -> day -> "traded", "halted", "none"
  Configs,       \* [train, valid, step, horizon, embargo, first, last]
  MaxRuns,       \* bound on the runs over one output directory
  Unset,         \* label_embargo_days is not configured
  Missing, Torn  \* a file that is not there, a file cut short

Days == 1..LastDay

ASSUME RollingAssumption ==
  /\ LastDay \in Nat /\ MaxRuns \in Nat /\ Missing # Torn
  /\ Stores \subseteq [Symbols -> [Days -> {"traded", "halted", "none"}]]
  /\ \A st \in Stores, d \in Days : \E s \in Symbols : st[s][d] # "none"
  /\ \A c \in Configs :
        /\ {c.train, c.valid, c.step, c.horizon, c.first, c.last} \subseteq Nat
        /\ c.embargo \in Nat \cup {Unset} /\ c.first \in 1..c.last
  /\ {Missing, Torn} \cap [run : Nat, rows : SUBSET (Symbols \X Days)] = {}

VARIABLES
  store,          \* the factor store
  cfg, save, load,\* resolved configuration, --save-models, --load-models
  runs,           \* runs started so far
  pc,             \* "idle" | "window" | "save" | "predict" | "write" | "done" | "failed"
  todo,           \* rolling windows left, by their first test day
  model,          \* model of the current window
  predictions,    \* prediction_rows: the row and the window that predicted it
  models,         \* model files, by the first test day of their window
  bundle          \* files of the prediction bundle

options == <<store, cfg, save, load, runs>>
vars == <<options, pc, todo, model, predictions, models, bundle>>

BundleFiles == <<"predictions", "signal_labels", "backtest_labels", "metadata">>

-----------------------------------------------------------------------------
(* Labels (gen_feature.rs): row offsets in the symbol's own series.        *)

RowDays(s) == {d \in Days : store[s][d] # "none"}

LaterRow(s, d, n) ==
  CHOOSE e \in RowDays(s) :
    e > d /\ Cardinality({x \in RowDays(s) : d < x /\ x <= e}) = n

LabelExit(s, d, horizon) == LaterRow(s, d, horizon + 1)

\* build_open_to_open_label is finite: both opens exist and were traded at.
HasLabel(s, d, horizon) ==
  /\ Cardinality({x \in RowDays(s) : x > d}) > horizon
  /\ store[s][LaterRow(s, d, 1)] = "traded"
  /\ store[s][LabelExit(s, d, horizon)] = "traded"

-----------------------------------------------------------------------------
(* Windows.                                                                *)

\* A bug: the label is taken to end at its horizon.
EmbargoOfHorizon(c) == IF c.embargo = Unset THEN c.horizon ELSE c.embargo

Embargo(c) == IF c.embargo = Unset THEN c.horizon + 1 ELSE c.embargo

TestDays(c) == {d \in Days : c.first <= d /\ d <= c.last}
LastTestDay(c) == IF c.last < LastDay THEN c.last ELSE LastDay

\* load_start_ns: a saturating subtraction of positions.
LoadStart(c) ==
  LET span == Embargo(c) + c.train + c.valid
  IN  IF c.first > span THEN c.first - span ELSE 1

Loaded(c) ==
  {r \in Symbols \X Days : /\ r[2] \in RowDays(r[1])
                           /\ LoadStart(c) <= r[2] /\ r[2] <= c.last}

\* compute_rolling_window_indices has an answer: no checked_sub fails.
Fits(c, start) ==
  c.train > 0 /\ c.valid > 0 /\ start > Embargo(c) + c.valid + c.train

\* A bug: a window runs into the first day of the next.
WindowEndOverlapping(c, start) ==
  IF start + c.step < LastTestDay(c) THEN start + c.step ELSE LastTestDay(c)

WindowEnd(c, start) ==
  IF start + c.step - 1 < LastTestDay(c) THEN start + c.step - 1 ELSE LastTestDay(c)

Window(c, start) ==
  LET afterValid == start - Embargo(c)
  IN  [start |-> start,
       test  |-> start..WindowEnd(c, start),
       valid |-> (afterValid - c.valid)..(afterValid - 1),
       train |-> (afterValid - c.valid - c.train)..(afterValid - c.valid - 1)]

\* build_rolling_windows: windows that do not fit are skipped.
RollingStarts(c) ==
  {d \in TestDays(c) : c.step > 0 /\ (d - c.first) % c.step = 0 /\ Fits(c, d)}

\* collect_indices_for_date_range, keep_positions_for_training_window
LabelledRows(c, days) ==
  {r \in Loaded(c) : r[2] \in days /\ HasLabel(r[1], r[2], c.horizon)}

\* What a fit depends on besides the data.
FitConfig(c) == <<c.train, c.valid, c.horizon, Embargo(c)>>

FittedModel(c, w) ==
  [by |-> FitConfig(c), horizon |-> c.horizon,
   train |-> LabelledRows(c, w.train), valid |-> LabelledRows(c, w.valid)]

TestRows(c, w) == {r \in Loaded(c) : r[2] \in w.test}

-----------------------------------------------------------------------------
Init ==
  /\ store \in Stores
  /\ cfg \in Configs /\ save = FALSE /\ load = FALSE /\ runs = 0
  /\ pc = "idle"
  /\ todo = {} /\ model = Missing /\ predictions = {}
  /\ models = [d \in Days |-> Missing]
  /\ bundle = [f \in {BundleFiles[i] : i \in DOMAIN BundleFiles} |-> Missing]

\* A step of zero underflows, the other conditions are error returns.
Rejected(c) ==
  c.step = 0 \/ TestDays(c) = {} \/ Loaded(c) = {} \/ RollingStarts(c) = {}

StartRun(c) ==
  /\ pc \in {"idle", "done", "failed"} /\ runs < MaxRuns
  /\ runs' = runs + 1
  /\ cfg' = c /\ save' \in BOOLEAN /\ load' \in BOOLEAN
  /\ model' = Missing /\ predictions' = {}
  /\ \/ Rejected(c) /\ pc' = "failed" /\ todo' = {}
     \/ ~Rejected(c) /\ pc' = "window" /\ todo' = RollingStarts(c)
  /\ UNCHANGED <<store, models, bundle>>

\* Windows are taken in the order of the calendar.
NextStart == CHOOSE d \in todo : \A e \in todo : d <= e
Current == Window(cfg, NextStart)

\* A bug: model files are numbered by the windows of the run.
ModelFileByStep(w) == Cardinality(RollingStarts(cfg) \ todo) + 1

\* model_path
ModelFile(w) == w.start

Empty(w) ==
  \/ LabelledRows(cfg, w.train) = {}
  \/ LabelledRows(cfg, w.valid) = {}
  \/ TestRows(cfg, w) = {}

Reusable(w) == load /\ models[ModelFile(w)] # Missing

\* train_lgbm_window_from_prepared_arrays fits; opening the pickle empties it.
Fit ==
  /\ pc = "window"
  /\ LET w == Current
     IN  /\ ~Empty(w) /\ ~Reusable(w)
         /\ model' = FittedModel(cfg, w)
         /\ models' = IF save THEN [models EXCEPT ![ModelFile(w)] = Torn] ELSE models
  /\ pc' = IF save THEN "save" ELSE "predict"
  /\ UNCHANGED <<options, todo, predictions, bundle>>

SaveModel ==
  /\ pc = "save"
  /\ models' = [models EXCEPT ![ModelFile(Current)] = model]
  /\ pc' = "predict"
  /\ UNCHANGED <<options, todo, model, predictions, bundle>>

LoadModel ==
  /\ pc = "window"
  /\ LET w == Current
     IN  /\ ~Empty(w) /\ Reusable(w) /\ models[ModelFile(w)] # Torn
         /\ model' = models[ModelFile(w)]
  /\ pc' = "predict"
  /\ UNCHANGED <<options, todo, predictions, models, bundle>>

Forget == todo' = {} /\ model' = Missing /\ predictions' = {}

\* An empty matrix and an unreadable pickle raise; the error ends the run.
WindowError ==
  /\ pc = "window"
  /\ LET w == Current
     IN  Empty(w) \/ (Reusable(w) /\ models[ModelFile(w)] = Torn)
  /\ pc' = "failed"
  /\ Forget
  /\ UNCHANGED <<options, models, bundle>>

Predict ==
  /\ pc = "predict"
  /\ predictions' = predictions \cup
       {[row |-> r, window |-> NextStart] : r \in TestRows(cfg, Current)}
  /\ todo' = todo \ {NextStart}
  /\ pc' = IF todo' = {} THEN "write" ELSE "window"
  /\ UNCHANGED <<options, model, models, bundle>>

Predicted == {p.row : p \in predictions}

\* A bug: every row of the test range has a label in the bundle.
LabelRowsUnfiltered == {r \in Loaded(cfg) : r[2] \in TestDays(cfg)}

\* signal_label_rows, backtest_label_rows
LabelRows == {r \in Loaded(cfg) : r[2] \in TestDays(cfg)} \cap Predicted

FileContent(f) ==
  [run |-> runs,
   rows |-> CASE f = "predictions" -> Predicted
              [] f = "metadata" -> {}
              [] OTHER -> LabelRows]

\* The file the run writes next: the first that is not its own.
NextFile ==
  BundleFiles[CHOOSE i \in DOMAIN BundleFiles :
    \A j \in 1..i :
      j = i <=> bundle[BundleFiles[j]] \in {Missing, Torn}
                 \/ bundle[BundleFiles[j]].run # runs]

WriteFile ==
  /\ pc = "write"
  /\ bundle' = [bundle EXCEPT ![NextFile] = FileContent(NextFile)]
  /\ pc' = IF NextFile = "metadata" THEN "done" ELSE "write"
  /\ UNCHANGED <<options, todo, model, predictions, models>>

\* The process is killed, or a write fails after the file was created.
Abort ==
  /\ pc \in {"window", "save", "predict", "write"}
  /\ pc' = "failed"
  /\ Forget
  /\ \/ bundle' = bundle
     \/ pc = "write" /\ bundle' = [bundle EXCEPT ![NextFile] = Torn]
  /\ UNCHANGED <<options, models>>

Over == pc \in {"done", "failed"} /\ runs = MaxRuns /\ UNCHANGED vars

Next ==
  \/ \E c \in Configs : StartRun(c)
  \/ Fit \/ SaveModel \/ LoadModel \/ WindowError
  \/ Predict \/ WriteFile \/ Abort \/ Over

Spec == Init /\ [][Next]_vars

-----------------------------------------------------------------------------
OwnModel == pc = "predict" /\ model.by = FitConfig(cfg)

Gapless(s, d, horizon) == \A e \in d..(d + horizon + 1) : e \in RowDays(s)

(***************************************************************************)
(* No label a model was fitted or validated on ends inside the window it   *)
(* predicts, for symbols with a row on every day of the label: the embargo *)
(* of build_rolling_windows covers the open-to-open label.                 *)
(***************************************************************************)
NoLabelReachesTest ==
  OwnModel /\ (cfg.embargo = Unset \/ cfg.embargo > cfg.horizon) =>
    \A r \in model.train \cup model.valid :
      Gapless(r[1], r[2], model.horizon) =>
        LabelExit(r[1], r[2], model.horizon) < NextStart

(***************************************************************************)
(* The same of every symbol, suspended or not: docs/PROGRESS_AND_TODO.md   *)
(* calls the embargo a hard invariant, since validation rows could else    *)
(* "use future opens inside the test period".                              *)
(***************************************************************************)
NoLabelEverReachesTest ==
  OwnModel /\ cfg.embargo = Unset =>
    \A r \in model.train \cup model.valid :
      LabelExit(r[1], r[2], model.horizon) < NextStart

TrainedOnWholeWindow ==
  OwnModel =>
    LET last == NextStart - Embargo(cfg) - cfg.valid - 1
    IN  model.train = {r \in Symbols \X ((last - cfg.train + 1)..last) :
                         r[2] \in RowDays(r[1]) /\ HasLabel(r[1], r[2], cfg.horizon)}

PredictedOnceByLatest ==
  pc = "done" =>
    \A r \in Symbols \X TestDays(cfg) :
      LET retrained == {d \in cfg.first..r[2] :
                          (d - cfg.first) % cfg.step = 0 /\ Fits(cfg, d)}
      IN  {p.window : p \in {x \in predictions : x.row = r}} =
          IF r[2] \notin RowDays(r[1]) THEN {}
          ELSE {d \in retrained : \A e \in retrained : e <= d}

(***************************************************************************)
(* A model is fitted on every labelled row of the train_days trading days  *)
(* before its validation days: projecting the factor store to the days     *)
(* from load_start on takes nothing away from any window. And a run that   *)
(* succeeds has predicted every row of the test range from the first day   *)
(* with history enough on, once, and by the model of the latest retraining.*)
(***************************************************************************)
WindowsAreWhole == TrainedOnWholeWindow /\ PredictedOnceByLatest

(***************************************************************************)
(* A model loaded from disk is the model a fit would give, whatever window *)
(* step or test range the run that saved it had and however that run       *)
(* ended, if the parameters of the fit are the same (--load-models).       *)
(***************************************************************************)
ReusedModelIsFresh == OwnModel => model = FittedModel(cfg, Current)

(***************************************************************************)
(* The files of a run that succeeded belong together: all are of that run, *)
(* and both label files have exactly the rows of the predictions, which    *)
(* the backtest compares axis by axis.                                     *)
(***************************************************************************)
BundleBelongsTogether ==
  pc = "done" =>
    /\ \A f \in DOMAIN bundle : bundle[f] # Torn /\ bundle[f].run = runs
    /\ bundle["signal_labels"].rows = bundle["predictions"].rows
    /\ bundle["backtest_labels"].rows = bundle["predictions"].rows
=============================================================================
