----------------------- MODULE RollingTraining_proofs -----------------------
(***************************************************************************)
(* What rolling training keeps true for every calendar, factor store, set  *)
(* of configurations and any number of runs over one output directory,     *)
(* killed and failed ones included.                                        *)
(***************************************************************************)
EXTENDS RollingTraining, FiniteSetTheorems, WellFoundedInduction, TLAPS

(***************************************************************************)
(* The labelled rows of some days of the whole factor store, and the model *)
(* that a fit with these parameters gives before test day d.               *)
(***************************************************************************)
WholeRows(days, h) ==
  {r \in Symbols \X Days : /\ r[2] \in days /\ r[2] \in RowDays(r[1])
                           /\ HasLabel(r[1], r[2], h)}

Canon(t, v, h, e, d) ==
  [by |-> <<t, v, h, e>>, horizon |-> h,
   train |-> WholeRows((d - e - v - t)..(d - e - v - 1), h),
   valid |-> WholeRows((d - e - v)..(d - e - 1), h)]

IsCanon(m, d) == \E t, v, h, e \in Nat : m = Canon(t, v, h, e, d)

InWindow == pc \in {"window", "save", "predict"}
Running == InWindow \/ pc \in {"write", "done"}

(***************************************************************************)
(* Every model, in memory or on disk, is what a fit on the whole store     *)
(* would give for its window, whatever configuration it was fitted under.  *)
(***************************************************************************)
ModelInv ==
  /\ models = [d \in Days |-> models[d]]
  /\ \A d \in Days : models[d] \notin {Missing, Torn} => IsCanon(models[d], d)
  /\ pc \in {"save", "predict"} => IsCanon(model, NextStart)

PredictedBy(c, d) == {[row |-> r, window |-> d] : r \in TestRows(c, Window(c, d))}
PredictionsOf(c, starts) == UNION {PredictedBy(c, d) : d \in starts}

(***************************************************************************)
(* The predictions are those of the windows that are not left.             *)
(***************************************************************************)
WindowInv ==
  /\ cfg \in Configs
  /\ Running => todo \subseteq RollingStarts(cfg) /\ RollingStarts(cfg) # {}
  /\ InWindow => todo # {}
  /\ pc \in {"write", "done"} => todo = {}
  /\ Running => predictions = PredictionsOf(cfg, RollingStarts(cfg) \ todo)

(***************************************************************************)
(* A run that writes has written some files of its own and none of an      *)
(* earlier run can pass for one; the metadata comes last.                  *)
(***************************************************************************)
Files == {"predictions", "signal_labels", "backtest_labels", "metadata"}
Content == [run : Nat, rows : SUBSET (Symbols \X Days)]
Own(f) == bundle[f] \notin {Missing, Torn} /\ bundle[f].run = runs

BundleInv ==
  /\ runs \in Nat
  /\ bundle \in [Files -> Content \cup {Missing, Torn}]
  /\ \A f \in Files : bundle[f] \notin {Missing, Torn} => bundle[f].run <= runs
  /\ InWindow => \A f \in Files : ~Own(f)
  /\ pc \in {"write", "done"} => \A f \in Files : Own(f) => bundle[f] = FileContent(f)
  /\ pc = "write" => ~Own("metadata")
  /\ pc = "done" => \A f \in Files : Own(f)

Stages == {"idle", "window", "save", "predict", "write", "done", "failed"}

RollingInv == pc \in Stages /\ ModelInv /\ WindowInv /\ BundleInv

(***************************************************************************)
(* A configuration's numbers are natural, and so is its embargo.           *)
(***************************************************************************)
LEMMA ConfigTyped ==
  ASSUME NEW c \in Configs
  PROVE  /\ c.train \in Nat /\ c.valid \in Nat /\ c.step \in Nat /\ c.horizon \in Nat
         /\ c.first \in Nat /\ c.last \in Nat /\ Embargo(c) \in Nat
         /\ 1 <= c.first /\ c.first <= c.last
         /\ LastDay \in Nat
BY RollingAssumption DEF Embargo

(***************************************************************************)
(* build_rolling_windows keeps a window only if its days are days of the   *)
(* calendar, all loaded: load_start reaches back to the first train day of *)
(* the first window.                                                       *)
(***************************************************************************)
LEMMA WindowIsLoaded ==
  ASSUME NEW c \in Configs, NEW s \in RollingStarts(c)
  PROVE  /\ s \in Days /\ c.first <= s /\ s <= c.last /\ c.step \in Nat \ {0}
         /\ s - Embargo(c) - c.valid - c.train >= 1
         /\ s - Embargo(c) - c.valid - c.train >= LoadStart(c)
<1>1. /\ s \in Days /\ c.first <= s /\ s <= c.last /\ c.step > 0
      /\ s > Embargo(c) + c.valid + c.train
  BY DEF RollingStarts, TestDays, Fits
<1>2. s \in Nat
  BY <1>1, ConfigTyped DEF Days
<1> QED BY <1>1, <1>2, ConfigTyped DEF LoadStart

(***************************************************************************)
(* A fit on what was loaded is a fit on the whole store.                   *)
(***************************************************************************)
LEMMA FitIsCanon ==
  ASSUME NEW c \in Configs, NEW s \in RollingStarts(c)
  PROVE  FittedModel(c, Window(c, s)) =
           Canon(c.train, c.valid, c.horizon, Embargo(c), s)
<1> DEFINE e == Embargo(c)
<1>1. s \in Nat /\ s <= c.last /\ s - e - c.valid - c.train >= LoadStart(c)
  BY WindowIsLoaded, ConfigTyped DEF Days
<1>2. ASSUME NEW lo \in Int, NEW hi \in Int, lo >= LoadStart(c), hi <= c.last
      PROVE  LabelledRows(c, lo..hi) = WholeRows(lo..hi, c.horizon)
  <2>1. LoadStart(c) \in Int
    BY ConfigTyped DEF LoadStart
  <2> QED BY <1>2, <2>1, ConfigTyped DEF LabelledRows, WholeRows, Loaded, Days
<1>3. LoadStart(c) \in Int
  BY ConfigTyped DEF LoadStart
<1>4. LabelledRows(c, (s - e - c.valid - c.train)..(s - e - c.valid - 1)) =
        WholeRows((s - e - c.valid - c.train)..(s - e - c.valid - 1), c.horizon)
  BY <1>1, <1>2, ConfigTyped
<1>5. LabelledRows(c, (s - e - c.valid)..(s - e - 1)) =
        WholeRows((s - e - c.valid)..(s - e - 1), c.horizon)
  BY <1>1, <1>2, <1>3, ConfigTyped
<1> QED BY <1>4, <1>5 DEF FittedModel, Window, Canon, FitConfig

(***************************************************************************)
(* The next window is one of those left.                                   *)
(***************************************************************************)
LEMMA LeastStart ==
  ASSUME NEW S \in SUBSET Nat, S # {}
  PROVE  \E d \in S : \A x \in S : d <= x
<1>1. \E d \in S : \A x \in S : <<x, d>> \notin OpToRel(<, Nat)
  BY WFMin, NatLessThanWellFounded, Zenon
<1>2. \E d \in S : \A x \in S : ~(x < d)
  BY <1>1, Zenon DEF OpToRel
<1> QED BY <1>2

\* The next window is one that is left.
LEMMA NextStartIsLeft ==
  ASSUME RollingInv, todo # {}, Running
  PROVE  /\ NextStart \in todo
         /\ NextStart \in RollingStarts(cfg)
         /\ NextStart \in Days
<1>1. todo \subseteq RollingStarts(cfg) /\ cfg \in Configs
  BY DEF RollingInv, WindowInv
<1>2. todo \subseteq Days /\ Days \subseteq Nat
  BY <1>1, RollingAssumption DEF RollingStarts, TestDays, Days
<1>3. \E d \in todo : \A x \in todo : d <= x
  BY <1>2, LeastStart
<1>4. NextStart \in todo
  BY <1>3 DEF NextStart
<1> QED BY <1>1, <1>2, <1>4

(***************************************************************************)
(* A row of a symbol with a row on each of the next n days has its n-th    *)
(* later row n days later.                                                 *)
(***************************************************************************)
LEMMA GaplessRow ==
  ASSUME NEW s, NEW d \in Nat, NEW n \in Nat \ {0},
         \A e \in d..(d + n) : e \in RowDays(s)
  PROVE  LaterRow(s, d, n) = d + n
<1> DEFINE Count(e) == Cardinality({x \in RowDays(s) : d < x /\ x <= e})
<1>1. RowDays(s) \subseteq Nat
  BY RollingAssumption DEF RowDays, Days
<1>2. ASSUME NEW e \in RowDays(s), d < e, e <= d + n
      PROVE  Count(e) = e - d
  <2>1. {x \in RowDays(s) : d < x /\ x <= e} = (d + 1)..e
    BY <1>1, <1>2
  <2>2. Cardinality((d + 1)..e) = e - d
    BY <1>1, <1>2, FS_Interval
  <2> QED BY <2>1, <2>2
<1>3. ASSUME NEW e \in RowDays(s), d + n < e
      PROVE  Count(e) # n
  <2> DEFINE X == {x \in RowDays(s) : d < x /\ x <= e}
  <2>1. X \subseteq (d + 1)..e /\ (d + 1)..(d + n) \subseteq X \ {e} /\ e \in X
    BY <1>1, <1>3
  <2>2. IsFiniteSet(X)
    <3> HIDE DEF X
    <3>1. d + 1 \in Int /\ e \in Int
      BY <1>1
    <3>2. IsFiniteSet((d + 1)..e)
      BY <3>1, FS_Interval
    <3> QED BY <2>1, <3>2, FS_Subset
  <2>3. Cardinality((d + 1)..(d + n)) = n
    BY FS_Interval
  <2>4. IsFiniteSet(X \ {e}) /\ Cardinality(X \ {e}) = Cardinality(X) - 1
    BY <2>1, <2>2, FS_RemoveElement
  <2>5. Cardinality((d + 1)..(d + n)) <= Cardinality(X \ {e})
    BY <2>1, <2>4, FS_Subset
  <2>6. Cardinality(X) \in Nat
    BY <2>2, FS_CardinalityType
  <2> QED BY <2>3, <2>4, <2>5, <2>6
<1>4. d + n \in RowDays(s) /\ d + n > d /\ Count(d + n) = n
  <2>1. d + n \in RowDays(s)
    OBVIOUS
  <2> QED BY <1>2, <2>1
<1>5. \A e \in RowDays(s) : e > d /\ Count(e) = n => e = d + n
  BY <1>1, <1>2, <1>3
<1> HIDE DEF Count
<1>6. (CHOOSE e \in RowDays(s) : e > d /\ Count(e) = n) = d + n
  BY <1>4, <1>5
<1> QED BY <1>6 DEF LaterRow, Count

(***************************************************************************)
(* The factor store does not change under a run.                           *)
(***************************************************************************)
LEMMA SameStoreSameModel ==
  ASSUME store' = store, NEW t, NEW v, NEW h, NEW e, NEW d
  PROVE  Canon(t, v, h, e, d)' = Canon(t, v, h, e, d)
BY DEF Canon, WholeRows, HasLabel, LabelExit, LaterRow, RowDays

\* While the store stands still, a model that was fitted from it stays one.
LEMMA SameStoreSameCanon ==
  ASSUME store' = store
  PROVE  \A m, d : IsCanon(m, d) => \E t, v, h, e \in Nat : m = Canon(t, v, h, e, d)'
<1>1. ASSUME NEW m, NEW d, NEW t \in Nat, NEW v \in Nat, NEW h \in Nat, NEW e \in Nat,
             m = Canon(t, v, h, e, d)
      PROVE  m = Canon(t, v, h, e, d)'
  BY <1>1, SameStoreSameModel
<1> QED BY <1>1 DEF IsCanon

\* The model a window fits is the one its rows give.
LEMMA FitFits ==
  ASSUME RollingInv, pc = "window"
  PROVE  IsCanon(FittedModel(cfg, Current), NextStart)
<1>1. NextStart \in RollingStarts(cfg) /\ cfg \in Configs
  BY NextStartIsLeft DEF RollingInv, WindowInv, Running, InWindow
<1> QED BY <1>1, FitIsCanon, ConfigTyped DEF IsCanon, Current

-----------------------------------------------------------------------------
(***************************************************************************)
(* Each step keeps the models.                                             *)
(***************************************************************************)
LEMMA FileOfCurrent ==
  ASSUME RollingInv, InWindow
  PROVE  /\ ModelFile(Current) = NextStart
         /\ NextStart \in Days
BY NextStartIsLeft DEF RollingInv, WindowInv, Running, ModelFile, Current, Window

\* Every step keeps the invariant of the model files.
LEMMA NextModelInv ==
  ASSUME RollingInv, [Next]_vars
  PROVE  ModelInv'
<1>1. /\ models = [d \in Days |-> models[d]]
      /\ \A d \in Days : models[d] \notin {Missing, Torn} => IsCanon(models[d], d)
      /\ pc \in {"save", "predict"} => IsCanon(model, NextStart)
  BY DEF RollingInv, ModelInv
<1>2. store' = store
  BY DEF Next, vars, options, StartRun, Fit, SaveModel, LoadModel, WindowError, Predict,
         WriteFile, Abort, Over
<1>3. \A m, d : IsCanon(m, d) => \E t, v, h, e \in Nat : m = Canon(t, v, h, e, d)'
  BY <1>2, SameStoreSameCanon
<1>4. ASSUME models' = models, pc' \notin {"save", "predict"} PROVE ModelInv'
  <2>1. \A d \in Days : models'[d] \notin {Missing, Torn} =>
          \E t, v, h, e \in Nat : models'[d] = Canon(t, v, h, e, d)'
    BY <1>1, <1>3, <1>4
  <2>2. models' = [d \in Days |-> models'[d]]
    BY <1>1, <1>4
  <2> QED BY <1>4, <2>1, <2>2 DEF ModelInv, IsCanon
<1>5. ASSUME models' = [d \in Days |-> models'[d]], todo' = todo,
             \A d \in Days : \/ models'[d] \in {models[d], Torn}
                             \/ IsCanon(models'[d], d),
             pc' \in {"save", "predict"} => IsCanon(model', NextStart)
      PROVE  ModelInv'
  <2>1. NextStart' = NextStart
    BY <1>5 DEF NextStart
  <2>2. \A d \in Days : models'[d] \notin {Missing, Torn} => IsCanon(models'[d], d)
    BY <1>1, <1>5
  <2>3. \A d \in Days : models'[d] \notin {Missing, Torn} =>
          \E t, v, h, e \in Nat : models'[d] = Canon(t, v, h, e, d)'
    BY <1>3, <2>2
  <2>4. pc' \in {"save", "predict"} =>
          \E t, v, h, e \in Nat : model' = Canon(t, v, h, e, NextStart)'
    BY <1>3, <1>5, <2>1
  <2> QED BY <1>5, <2>3, <2>4 DEF ModelInv, IsCanon
<1>6. CASE Fit
  <2>1. IsCanon(FittedModel(cfg, Current), NextStart)
    BY <1>6, FitFits DEF Fit
  <2>2. model' = FittedModel(cfg, Current) /\ todo' = todo
    BY <1>6 DEF Fit
  <2>3. models' \in {models, [models EXCEPT ![NextStart] = Torn]}
    BY <1>6, FileOfCurrent DEF Fit, InWindow
  <2>4. models' = [d \in Days |-> models'[d]]
    BY <1>1, <2>3
  <2>5. \A d \in Days : models'[d] \in {models[d], Torn}
    BY <1>1, <2>3
  <2> QED BY <1>5, <2>1, <2>2, <2>4, <2>5
<1>7. CASE SaveModel
  <2>1. IsCanon(model, NextStart) /\ todo' = todo /\ model' = model
    BY <1>1, <1>7 DEF SaveModel
  <2>2. models' = [models EXCEPT ![NextStart] = model] /\ NextStart \in Days
    BY <1>7, FileOfCurrent DEF SaveModel, InWindow
  <2>3. models' = [d \in Days |-> models'[d]]
    BY <1>1, <2>2
  <2>4. \A d \in Days : models'[d] = models[d] \/ IsCanon(models'[d], d)
    BY <1>1, <2>1, <2>2
  <2> QED BY <1>5, <2>1, <2>3, <2>4
<1>8. CASE LoadModel
  <2>1. /\ models' = models /\ todo' = todo /\ model' = models[NextStart]
        /\ models[NextStart] \notin {Missing, Torn} /\ NextStart \in Days
    BY <1>8, FileOfCurrent DEF LoadModel, InWindow, Reusable
  <2> QED BY <1>1, <1>5, <2>1
<1>9. CASE Predict
  BY <1>4, <1>9 DEF Predict
<1>10. CASE WriteFile
  BY <1>4, <1>10 DEF WriteFile
<1>11. CASE WindowError \/ Abort
  BY <1>4, <1>11 DEF WindowError, Abort
<1>12. ASSUME NEW c \in Configs, StartRun(c) PROVE ModelInv'
  BY <1>4, <1>12 DEF StartRun
<1>13. CASE UNCHANGED vars
  BY <1>1, <1>5, <1>13 DEF vars
<1> QED
  BY <1>6, <1>7, <1>8, <1>9, <1>10, <1>11, <1>12, <1>13 DEF Next, Over

-----------------------------------------------------------------------------
(***************************************************************************)
(* Each step keeps the predictions.                                        *)
(***************************************************************************)
LEMMA SameStoreSamePredictions ==
  ASSUME store' = store, cfg' = cfg
  PROVE  /\ \A d : PredictedBy(cfg, d)' = PredictedBy(cfg, d)
         /\ RollingStarts(cfg)' = RollingStarts(cfg)
<1>1. Loaded(cfg)' = Loaded(cfg)
  BY DEF Loaded, RowDays, LoadStart, Embargo
<1>2. \A d : Window(cfg, d)' = Window(cfg, d)
  BY DEF Window, WindowEnd, LastTestDay, Embargo
<1>3. \A d : PredictedBy(cfg, d)' = PredictedBy(cfg, d)
  BY <1>1, <1>2 DEF PredictedBy, TestRows
<1>4. RollingStarts(cfg)' = RollingStarts(cfg)
  BY DEF RollingStarts, TestDays, Fits, Embargo
<1> QED BY <1>3, <1>4

\* Every step keeps the invariant of the windows and their predictions.
LEMMA NextWindowInv ==
  ASSUME RollingInv, [Next]_vars
  PROVE  WindowInv'
<1>1. WindowInv /\ pc \in Stages
  BY DEF RollingInv
<1>2. store' = store
  BY DEF Next, vars, options, StartRun, Fit, SaveModel, LoadModel, WindowError, Predict,
         WriteFile, Abort, Over
<1>3. ASSUME cfg' = cfg, pc' = "failed" PROVE WindowInv'
  BY <1>1, <1>3 DEF WindowInv, Running, InWindow
<1>4. ASSUME cfg' = cfg, todo' = todo, predictions' = predictions,
             \/ pc' = pc
             \/ pc = "write" /\ pc' = "done"
             \/ InWindow /\ pc' \in {"window", "save", "predict"}
      PROVE  WindowInv'
  <2>1. PredictionsOf(cfg, RollingStarts(cfg) \ todo)' =
          PredictionsOf(cfg, RollingStarts(cfg) \ todo)
    BY <1>2, <1>4, SameStoreSamePredictions DEF PredictionsOf
  <2>2. RollingStarts(cfg)' = RollingStarts(cfg)
    BY <1>2, <1>4, SameStoreSamePredictions
  <2> QED BY <1>1, <1>4, <2>1, <2>2 DEF WindowInv, Running, InWindow
<1>5. CASE Fit
  BY <1>4, <1>5 DEF Fit, options, InWindow
<1>6. CASE SaveModel
  BY <1>4, <1>6 DEF SaveModel, options, InWindow
<1>7. CASE LoadModel
  BY <1>4, <1>7 DEF LoadModel, options, InWindow
<1>8. CASE WindowError \/ Abort
  BY <1>3, <1>8 DEF WindowError, Abort, options
<1>9. CASE Predict
  <2>1. /\ cfg' = cfg /\ todo' = todo \ {NextStart}
        /\ predictions' = predictions \cup PredictedBy(cfg, NextStart)
        /\ pc' = IF todo' = {} THEN "write" ELSE "window"
        /\ pc = "predict"
    BY <1>9 DEF Predict, options, PredictedBy, Current
  <2>2. /\ todo \subseteq RollingStarts(cfg) /\ RollingStarts(cfg) # {} /\ todo # {}
        /\ predictions = PredictionsOf(cfg, RollingStarts(cfg) \ todo)
    BY <1>1, <2>1 DEF WindowInv, Running, InWindow
  <2>3. NextStart \in todo
    BY <2>1, <2>2, NextStartIsLeft DEF Running, InWindow
  <2>4. RollingStarts(cfg) \ todo' = (RollingStarts(cfg) \ todo) \cup {NextStart}
    BY <2>1, <2>2, <2>3
  <2>5. predictions' = PredictionsOf(cfg, RollingStarts(cfg) \ todo')
    BY <2>1, <2>2, <2>4, Zenon DEF PredictionsOf
  <2>6. PredictionsOf(cfg, RollingStarts(cfg) \ todo)' =
          PredictionsOf(cfg, RollingStarts(cfg) \ todo')
    BY <1>2, <2>1, SameStoreSamePredictions DEF PredictionsOf
  <2>7. RollingStarts(cfg)' = RollingStarts(cfg)
    BY <1>2, <2>1, SameStoreSamePredictions
  <2> QED BY <1>1, <2>1, <2>2, <2>5, <2>6, <2>7 DEF WindowInv, Running, InWindow
<1>10. CASE WriteFile
  BY <1>4, <1>10 DEF WriteFile, options
<1>11. ASSUME NEW c \in Configs, StartRun(c) PROVE WindowInv'
  <2>1. CASE Rejected(c) /\ pc' = "failed"
    BY <1>11, <2>1 DEF StartRun, WindowInv, Running, InWindow
  <2>2. CASE ~Rejected(c) /\ pc' = "window" /\ todo' = RollingStarts(c)
    <3>1. cfg' = c /\ predictions' = {} /\ RollingStarts(c) # {}
      BY <1>11, <2>2 DEF StartRun, Rejected
    <3>2. RollingStarts(cfg)' = RollingStarts(c)
      BY <3>1 DEF RollingStarts, TestDays, Fits, Embargo
    <3>3. PredictionsOf(cfg, RollingStarts(cfg) \ todo)' = {}
      BY <2>2, <3>2 DEF PredictionsOf
    <3> QED BY <2>2, <3>1, <3>2, <3>3 DEF WindowInv, Running, InWindow
  <2> QED BY <1>11, <2>1, <2>2 DEF StartRun
<1>12. CASE UNCHANGED vars
  BY <1>4, <1>12 DEF vars, options
<1> QED
  BY <1>5, <1>6, <1>7, <1>8, <1>9, <1>10, <1>11, <1>12 DEF Next, Over

-----------------------------------------------------------------------------
(***************************************************************************)
(* Each step keeps the bundle.                                             *)
(***************************************************************************)
LEMMA NextFileIs ==
  ASSUME ~Own("metadata")
  PROVE  /\ NextFile \in Files /\ ~Own(NextFile)
         /\ NextFile = "metadata" => \A f \in Files \ {"metadata"} : Own(f)
<1> DEFINE First(i) == \A j \in 1..i : j = i <=> ~Own(BundleFiles[j])
<1>1. DOMAIN BundleFiles = 1..4
  BY DEF BundleFiles
<1>2. /\ BundleFiles[1] = "predictions" /\ BundleFiles[2] = "signal_labels"
      /\ BundleFiles[3] = "backtest_labels" /\ BundleFiles[4] = "metadata"
  BY DEF BundleFiles
<1>3. \E i \in DOMAIN BundleFiles : First(i)
  <2>1. CASE ~Own(BundleFiles[1])
    BY <1>1, <2>1
  <2>2. CASE Own(BundleFiles[1]) /\ ~Own(BundleFiles[2])
    BY <1>1, <2>2
  <2>3. CASE Own(BundleFiles[1]) /\ Own(BundleFiles[2]) /\ ~Own(BundleFiles[3])
    <3>1. \A j \in 1..3 : j = 3 <=> ~Own(BundleFiles[j])
      BY <2>3
    <3> QED BY <1>1, <3>1
  <2>4. CASE Own(BundleFiles[1]) /\ Own(BundleFiles[2]) /\ Own(BundleFiles[3])
    <3>1. \A j \in 1..4 : j = 4 <=> ~Own(BundleFiles[j])
      BY <1>2, <2>4
    <3> QED BY <1>1, <3>1
  <2> QED BY <2>1, <2>2, <2>3, <2>4
<1>4. NextFile = BundleFiles[CHOOSE i \in DOMAIN BundleFiles : First(i)]
  BY DEF NextFile, Own
<1>5. PICK i \in 1..4 : NextFile = BundleFiles[i] /\ First(i)
  <2> HIDE DEF First
  <2> QED BY <1>1, <1>3, <1>4
<1> QED BY <1>2, <1>5 DEF Files

\* Predictions are made for loaded rows of test days only.
LEMMA PredictedAreRows ==
  ASSUME RollingInv, pc \in {"write", "done"}
  PROVE  /\ Predicted \subseteq Symbols \X Days
         /\ Predicted \subseteq {r \in Loaded(cfg) : r[2] \in TestDays(cfg)}
<1>1. /\ cfg \in Configs
      /\ predictions = PredictionsOf(cfg, RollingStarts(cfg) \ todo)
  BY DEF RollingInv, WindowInv, Running
<1>2. ASSUME NEW p \in predictions
      PROVE  p.row \in Loaded(cfg) /\ p.row[2] \in TestDays(cfg)
  <2>1. PICK d \in RollingStarts(cfg) : p \in PredictedBy(cfg, d)
    BY <1>1 DEF PredictionsOf
  <2>2. p.row \in TestRows(cfg, Window(cfg, d))
    BY <2>1 DEF PredictedBy
  <2>3. p.row \in Loaded(cfg) /\ p.row[2] \in d..WindowEnd(cfg, d)
    BY <2>2 DEF TestRows, Window
  <2>4. /\ cfg.first <= d /\ d \in Days /\ WindowEnd(cfg, d) <= cfg.last
        /\ WindowEnd(cfg, d) <= LastDay /\ WindowEnd(cfg, d) \in Int
    BY <1>1, WindowIsLoaded, ConfigTyped DEF WindowEnd, LastTestDay, Days
  <2> QED BY <1>1, <2>3, <2>4, ConfigTyped DEF TestDays, Days
<1> QED BY <1>2 DEF Predicted, Loaded

\* What a run writes to a file is whole and carries the run's number.
LEMMA ContentTyped ==
  ASSUME RollingInv, pc \in {"write", "done"}, NEW f
  PROVE  /\ FileContent(f) \in Content
         /\ FileContent(f) \notin {Missing, Torn} /\ FileContent(f).run = runs
<1>1. Predicted \in SUBSET (Symbols \X Days) /\ LabelRows \in SUBSET (Symbols \X Days)
  BY PredictedAreRows DEF LabelRows
<1>2. FileContent(f) \in Content /\ FileContent(f).run = runs
  BY <1>1 DEF FileContent, Content, RollingInv, BundleInv
<1> QED BY <1>2, RollingAssumption DEF Content

\* Every step keeps the invariant of the bundle on disk.
LEMMA NextBundleInv ==
  ASSUME RollingInv, [Next]_vars
  PROVE  BundleInv'
<1>1. /\ runs \in Nat /\ bundle \in [Files -> Content \cup {Missing, Torn}]
      /\ \A f \in Files : bundle[f] \notin {Missing, Torn} => bundle[f].run <= runs
      /\ InWindow => \A f \in Files : ~Own(f)
      /\ pc \in {"write", "done"} => \A f \in Files : Own(f) => bundle[f] = FileContent(f)
      /\ pc = "write" => ~Own("metadata")
      /\ pc = "done" => \A f \in Files : Own(f)
  BY DEF RollingInv, BundleInv
<1>2. \A f \in Files : bundle[f] \in Content => bundle[f].run \in Nat
  BY DEF Content
<1>3. store' = store
  BY DEF Next, vars, options, StartRun, Fit, SaveModel, LoadModel, WindowError, Predict,
         WriteFile, Abort, Over
<1>4. ASSUME UNCHANGED <<cfg, predictions, runs>>
      PROVE  \A f : FileContent(f)' = FileContent(f)
  <2>1. Predicted' = Predicted /\ LabelRows' = LabelRows
    BY <1>3, <1>4 DEF Predicted, LabelRows, Loaded, RowDays, LoadStart, Embargo, TestDays
  <2> QED BY <1>4, <2>1 DEF FileContent
<1>5. ASSUME bundle' = bundle, runs' = runs, InWindow,
             pc' \in {"window", "save", "predict", "write", "failed"}
      PROVE  BundleInv'
  BY <1>1, <1>5 DEF BundleInv, InWindow, Own, Files
<1>6. CASE Fit \/ SaveModel \/ LoadModel \/ WindowError \/ Predict
  <2>1. /\ bundle' = bundle /\ runs' = runs
        /\ pc' \in {"window", "save", "predict", "write", "failed"}
    BY <1>6 DEF Fit, SaveModel, LoadModel, WindowError, Predict, options
  <2>2. InWindow
    BY <1>6 DEF Fit, SaveModel, LoadModel, WindowError, Predict, InWindow
  <2> QED BY <1>5, <2>1, <2>2
<1>7. CASE WriteFile
  <2>1. /\ pc = "write" /\ UNCHANGED <<cfg, predictions, runs>>
        /\ ~Own("metadata")
    BY <1>1, <1>7 DEF WriteFile, options
  <2>2. PICK f \in Files :
          /\ f = "metadata" => \A g \in Files \ {f} : Own(g)
          /\ bundle' = [bundle EXCEPT ![f] = FileContent(f)]
          /\ pc' = IF f = "metadata" THEN "done" ELSE "write"
    BY <1>7, <2>1, NextFileIs DEF WriteFile
  <2>3. /\ FileContent(f) \in Content
        /\ FileContent(f) \notin {Missing, Torn} /\ FileContent(f).run = runs
    BY <2>1, ContentTyped
  <2>4. \A g \in Files \ {f} : bundle'[g] = bundle[g]
    BY <1>1, <2>2
  <2>5. bundle'[f] = FileContent(f)
    BY <1>1, <2>2
  <2>6. bundle' \in [Files -> Content \cup {Missing, Torn}]
    BY <1>1, <2>2, <2>3
  <2>7. /\ Own(f)'
        /\ \A g \in Files \ {f} : Own(g)' <=> Own(g)
    BY <2>1, <2>3, <2>4, <2>5 DEF Own
  <2>8. \A g \in Files : bundle'[g] \notin {Missing, Torn} => bundle'[g].run <= runs'
    BY <1>1, <2>1, <2>3, <2>4, <2>5
  <2>9. \A g \in Files : Own(g)' => bundle'[g] = FileContent(g)'
    BY <1>1, <1>4, <2>1, <2>4, <2>5, <2>7
  <2>10. pc' = "write" => ~Own("metadata")'
    BY <2>1, <2>2, <2>7 DEF Files
  <2>11. pc' = "done" => \A g \in Files : Own(g)'
    BY <2>2, <2>7
  <2>12. pc' \in {"write", "done"}
    BY <2>2
  <2> QED BY <1>1, <2>1, <2>6, <2>8, <2>9, <2>10, <2>11, <2>12 DEF BundleInv, InWindow
<1>8. CASE Abort
  <2>1. pc' = "failed" /\ runs' = runs
    BY <1>8 DEF Abort, options
  <2>2. bundle' = bundle \/ bundle' = [bundle EXCEPT ![NextFile] = Torn]
    BY <1>8 DEF Abort
  <2>3. bundle' \in [Files -> Content \cup {Missing, Torn}]
    BY <1>1, <2>2
  <2>4. \A f \in Files : bundle'[f] \in {bundle[f], Torn}
    BY <1>1, <2>2
  <2> QED BY <1>1, <2>1, <2>3, <2>4 DEF BundleInv, InWindow
<1>9. ASSUME NEW c \in Configs, StartRun(c) PROVE BundleInv'
  <2>1. bundle' = bundle /\ runs' = runs + 1 /\ pc' \in {"window", "failed"}
    BY <1>9 DEF StartRun
  <2>2. \A f \in Files : bundle[f] \notin {Missing, Torn} => bundle[f].run # runs + 1
    BY <1>1, <1>2
  <2>3. \A f \in Files : bundle[f] \notin {Missing, Torn} => bundle[f].run <= runs + 1
    BY <1>1, <1>2
  <2>4. \A f \in Files : ~Own(f)'
    BY <2>1, <2>2 DEF Own
  <2> QED BY <1>1, <2>1, <2>3, <2>4 DEF BundleInv
<1>10. CASE UNCHANGED vars
  <2>1. UNCHANGED <<cfg, predictions, runs, bundle, pc>>
    BY <1>10 DEF vars, options
  <2>2. \A f : FileContent(f)' = FileContent(f)
    BY <1>4, <2>1
  <2>3. \A f : Own(f)' <=> Own(f)
    BY <2>1 DEF Own
  <2> QED BY <1>1, <2>1, <2>2, <2>3 DEF BundleInv, InWindow
<1> QED
  BY <1>6, <1>7, <1>8, <1>9, <1>10 DEF Next, Over

-----------------------------------------------------------------------------
(***************************************************************************)
(* The invariant is inductive.                                             *)
(***************************************************************************)
LEMMA InitRollingInv ==
  ASSUME Init
  PROVE  RollingInv
<1>1. pc = "idle" /\ cfg \in Configs /\ runs = 0
  BY DEF Init
<1>2. {BundleFiles[i] : i \in DOMAIN BundleFiles} = Files
  BY DEF BundleFiles, Files
<1>3. bundle = [f \in Files |-> Missing] /\ models = [d \in Days |-> Missing]
  BY <1>2 DEF Init
<1>4. ModelInv
  BY <1>1, <1>3 DEF ModelInv
<1>5. WindowInv
  BY <1>1 DEF WindowInv, Running, InWindow
<1>6. BundleInv
  BY <1>1, <1>3 DEF BundleInv, InWindow
<1> QED BY <1>1, <1>4, <1>5, <1>6 DEF RollingInv, Stages

\* So every step keeps the whole invariant,
LEMMA NextRollingInv ==
  ASSUME RollingInv, [Next]_vars
  PROVE  RollingInv'
<1>1. pc' \in Stages
  BY DEF RollingInv, Stages, Next, vars, StartRun, Fit, SaveModel, LoadModel, WindowError,
         Predict, WriteFile, Abort, Over
<1> QED BY <1>1, NextModelInv, NextWindowInv, NextBundleInv DEF RollingInv

\* and so it holds throughout.
LEMMA RollingInvariant == Spec => []RollingInv
BY InitRollingInv, NextRollingInv, PTL DEF Spec

-----------------------------------------------------------------------------
(***************************************************************************)
(* What a model fitted under the configuration of the run is.              *)
(***************************************************************************)
LEMMA OwnModelIs ==
  ASSUME RollingInv, OwnModel
  PROVE  /\ cfg \in Configs /\ NextStart \in RollingStarts(cfg)
         /\ model = Canon(cfg.train, cfg.valid, cfg.horizon, Embargo(cfg), NextStart)
<1>1. cfg \in Configs /\ NextStart \in RollingStarts(cfg) /\ IsCanon(model, NextStart)
  BY NextStartIsLeft
     DEF OwnModel, RollingInv, WindowInv, ModelInv, InWindow, Running
<1>2. PICK t, v, h, e \in Nat : model = Canon(t, v, h, e, NextStart)
  BY <1>1 DEF IsCanon
<1>3. <<t, v, h, e>> = <<cfg.train, cfg.valid, cfg.horizon, Embargo(cfg)>>
  BY <1>2 DEF OwnModel, FitConfig, Canon
<1> QED BY <1>1, <1>2, <1>3

(***************************************************************************)
(* A model that is loaded instead of fitted is the model a fit would give, *)
(* of whatever run it is: in make_bundle_lgbm_rust_runtime a file named by *)
(* the first test day of its window never stands for another window.       *)
(***************************************************************************)
THEOREM ReuseIsFresh == Spec => []ReusedModelIsFresh
<1>1. RollingInv => ReusedModelIsFresh
  <2> SUFFICES ASSUME RollingInv, OwnModel PROVE model = FittedModel(cfg, Current)
    BY DEF ReusedModelIsFresh
  <2> QED BY OwnModelIs, FitIsCanon DEF Current
<1> QED BY <1>1, RollingInvariant, PTL

(***************************************************************************)
(* With an embargo over the horizon, no label of a fit or of its           *)
(* validation that spans only days its symbol traded ends in the test      *)
(* window.                                                                 *)
(***************************************************************************)
THEOREM LabelsEndBeforeTest == Spec => []NoLabelReachesTest
<1>1. RollingInv => NoLabelReachesTest
  <2> SUFFICES ASSUME RollingInv, OwnModel, cfg.embargo = Unset \/ cfg.embargo > cfg.horizon,
                      NEW r \in model.train \cup model.valid,
                      Gapless(r[1], r[2], model.horizon)
               PROVE  LabelExit(r[1], r[2], model.horizon) < NextStart
    BY DEF NoLabelReachesTest
  <2> DEFINE h == cfg.horizon
             e == Embargo(cfg)
             n == NextStart
  <2>1. /\ cfg \in Configs /\ n \in RollingStarts(cfg)
        /\ model = Canon(cfg.train, cfg.valid, h, e, n)
    BY OwnModelIs
  <2>2. h \in Nat /\ e \in Nat /\ cfg.valid \in Nat /\ cfg.train \in Nat /\ n \in Nat /\ e > h
    BY <2>1, ConfigTyped, WindowIsLoaded, RollingAssumption DEF Embargo, Days
  <2>3. model.horizon = h
    BY <2>1 DEF Canon
  <2>4. /\ model.train = WholeRows((n - e - cfg.valid - cfg.train)..(n - e - cfg.valid - 1), h)
        /\ model.valid = WholeRows((n - e - cfg.valid)..(n - e - 1), h)
    BY <2>1 DEF Canon
  <2>5. r[2] \in Nat /\ r[2] <= n - e - 1
    <3> HIDE DEF h, e, n
    <3>1. r[2] \in Days
      BY <2>4 DEF WholeRows
    <3> QED BY <2>2, <2>4, <3>1, RollingAssumption DEF WholeRows, Days
  <2>6. LaterRow(r[1], r[2], h + 1) = r[2] + (h + 1)
    <3>1. \A x \in r[2]..(r[2] + (h + 1)) : x \in RowDays(r[1])
      BY <2>2, <2>3, <2>5 DEF Gapless
    <3>2. h + 1 \in Nat \ {0}
      BY <2>2
    <3> QED BY <2>5, <3>1, <3>2, GaplessRow
  <2> QED BY <2>2, <2>3, <2>5, <2>6 DEF LabelExit
<1> QED BY <1>1, RollingInvariant, PTL

(***************************************************************************)
(* The files of a run that succeeded are all of that run and have the same *)
(* rows.                                                                   *)
(***************************************************************************)
THEOREM BundleIsOne == Spec => []BundleBelongsTogether
<1>1. RollingInv => BundleBelongsTogether
  <2> SUFFICES ASSUME RollingInv, pc = "done"
               PROVE  /\ \A f \in DOMAIN bundle : bundle[f] # Torn /\ bundle[f].run = runs
                      /\ bundle["signal_labels"].rows = bundle["predictions"].rows
                      /\ bundle["backtest_labels"].rows = bundle["predictions"].rows
    BY DEF BundleBelongsTogether
  <2>1. /\ DOMAIN bundle = Files
        /\ \A f \in Files : Own(f) /\ bundle[f] = FileContent(f)
    BY DEF RollingInv, BundleInv
  <2>2. LabelRows = Predicted
    BY PredictedAreRows DEF LabelRows
  <2>3. /\ FileContent("signal_labels").rows = LabelRows
        /\ FileContent("backtest_labels").rows = LabelRows
        /\ FileContent("predictions").rows = Predicted
    BY DEF FileContent
  <2> QED BY <2>1, <2>2, <2>3 DEF Own, Files
<1> QED BY <1>1, RollingInvariant, PTL

-----------------------------------------------------------------------------
(***************************************************************************)
(* Days that are retrained on are at least a step apart.                   *)
(***************************************************************************)
LEMMA StepsApart ==
  ASSUME NEW k \in Nat \ {0}, NEW a \in Nat, NEW b \in Nat, a % k = 0
  PROVE  /\ (a + k) % k = 0
         /\ b % k = 0 /\ a < b => a + k <= b
<1>1. PICK q \in Nat : a = k * q
  <2>1. a = k * (a \div k) + (a % k) /\ a \div k \in Nat
    OBVIOUS
  <2> QED BY <2>1
<1>2. (a + k) % k = 0
  <2>1. a + k = k * (q + 1)
    BY <1>1
  <2>2. (k * (q + 1)) % k = 0
    OBVIOUS
  <2> QED BY <2>1, <2>2
<1>3. ASSUME b % k = 0, a < b PROVE a + k <= b
  <2>1. PICK p \in Nat : b = k * p
    <3>1. b = k * (b \div k) + (b % k) /\ b \div k \in Nat
      OBVIOUS
    <3> QED BY <1>3, <3>1
  <2>2. q < p
    BY <1>1, <1>3, <2>1
  <2>3. k * q + k <= k * p
    BY <2>2
  <2> QED BY <1>1, <2>1, <2>3
<1> QED BY <1>2, <1>3

\* Each window was trained on all the rows of its training days.
LEMMA TrainedWhole ==
  ASSUME RollingInv
  PROVE  TrainedOnWholeWindow
<1> SUFFICES ASSUME OwnModel
             PROVE  LET last == NextStart - Embargo(cfg) - cfg.valid - 1
                    IN  model.train =
                          {r \in Symbols \X ((last - cfg.train + 1)..last) :
                             r[2] \in RowDays(r[1]) /\ HasLabel(r[1], r[2], cfg.horizon)}
  BY DEF TrainedOnWholeWindow
<1> DEFINE n == NextStart
           e == Embargo(cfg)
           last == n - e - cfg.valid - 1
<1>1. /\ cfg \in Configs /\ n \in RollingStarts(cfg)
      /\ model = Canon(cfg.train, cfg.valid, cfg.horizon, e, n)
  BY OwnModelIs
<1>2. /\ n \in Days /\ n - e - cfg.valid - cfg.train >= 1
      /\ n \in Nat /\ e \in Nat /\ cfg.valid \in Nat /\ cfg.train \in Nat /\ LastDay \in Nat
  BY <1>1, ConfigTyped, WindowIsLoaded DEF Days
<1>3. model.train = WholeRows((n - e - cfg.valid - cfg.train)..last, cfg.horizon)
  BY <1>1 DEF Canon
<1>4. /\ (last - cfg.train + 1)..last = (n - e - cfg.valid - cfg.train)..last
      /\ (last - cfg.train + 1)..last \subseteq Days
  <2> HIDE DEF n, e
  <2> QED BY <1>2 DEF Days
<1> HIDE DEF n, e, last
<1>5. model.train = {r \in Symbols \X ((last - cfg.train + 1)..last) :
                       r[2] \in RowDays(r[1]) /\ HasLabel(r[1], r[2], cfg.horizon)}
  BY <1>3, <1>4 DEF WholeRows
<1> QED BY <1>5 DEF n, e, last

(***************************************************************************)
(* The windows whose predictions cover a day of the test range: the one    *)
(* of the last day up to it that was retrained on, if any.                 *)
(***************************************************************************)
Retrained(c, day) == {d \in c.first..day : (d - c.first) % c.step = 0 /\ Fits(c, d)}

\* A test day lies in the window of the latest retraining not after it.
LEMMA LatestWindowCovers ==
  ASSUME NEW c \in Configs, c.step > 0, NEW day \in TestDays(c), NEW d
  PROVE  d \in RollingStarts(c) /\ day \in d..WindowEnd(c, d) <=>
           d \in Retrained(c, day) /\ \A x \in Retrained(c, day) : x <= d
<1>1. /\ c.first \in Nat /\ c.last \in Nat /\ c.step \in Nat \ {0} /\ LastDay \in Nat
      /\ c.train \in Nat /\ c.valid \in Nat /\ Embargo(c) \in Nat /\ 1 <= c.first
  BY ConfigTyped
<1>2. day \in Nat /\ c.first <= day /\ day <= LastTestDay(c) /\ day <= LastDay /\ day <= c.last
  BY <1>1 DEF TestDays, Days, LastTestDay
<1>3. ASSUME NEW x \in Nat, x <= day
      PROVE  x \in RollingStarts(c) <=> x \in Retrained(c, day)
  BY <1>1, <1>2, <1>3 DEF RollingStarts, Retrained, TestDays, Days
<1>4. Retrained(c, day) \subseteq Nat /\ RollingStarts(c) \subseteq Nat
  BY <1>1 DEF Retrained, RollingStarts, TestDays, Days
<1>5. ASSUME NEW x \in Nat, x <= day
      PROVE  day \in x..WindowEnd(c, x) <=> day <= x + c.step - 1
  BY <1>1, <1>2, <1>5 DEF WindowEnd, LastTestDay
<1>6. ASSUME d \in RollingStarts(c), day \in d..WindowEnd(c, d), NEW x \in Retrained(c, day)
      PROVE  d \in Retrained(c, day) /\ x <= d
  <2>1. d \in Nat /\ d <= day /\ day <= d + c.step - 1
    BY <1>2, <1>4, <1>5, <1>6
  <2>2. d \in Retrained(c, day)
    BY <1>3, <1>6, <2>1
  <2>3. /\ d - c.first \in Nat /\ x - c.first \in Nat /\ x <= day /\ x \in Nat
        /\ (d - c.first) % c.step = 0 /\ (x - c.first) % c.step = 0
    BY <1>1, <1>2, <1>4, <1>6, <2>1, <2>2 DEF Retrained
  <2>4. d - c.first < x - c.first => d - c.first + c.step <= x - c.first
    BY <1>1, <2>3, StepsApart
  <2> QED BY <1>1, <1>2, <2>1, <2>2, <2>3, <2>4
<1>7. ASSUME d \in RollingStarts(c), day \in d..WindowEnd(c, d)
      PROVE  d \in Retrained(c, day)
  BY <1>2, <1>3, <1>4, <1>5, <1>7
<1>8. ASSUME d \in Retrained(c, day), \A x \in Retrained(c, day) : x <= d
      PROVE  d \in RollingStarts(c) /\ day \in d..WindowEnd(c, d)
  <2>1. /\ d \in Nat /\ d <= day /\ c.first <= d
        /\ (d - c.first) % c.step = 0 /\ Fits(c, d)
    BY <1>1, <1>2, <1>8 DEF Retrained
  <2>2. d \in RollingStarts(c)
    BY <1>3, <1>8, <2>1
  <2>3. (d - c.first + c.step) % c.step = 0
    <3>1. d - c.first \in Nat
      BY <1>1, <2>1
    <3> QED BY <1>1, <2>1, <3>1, StepsApart
  <2>4. Fits(c, d + c.step)
    BY <1>1, <2>1 DEF Fits
  <2>5. d + c.step - c.first = d - c.first + c.step
    BY <1>1, <2>1
  <2>6. d + c.step <= day => d + c.step \in Retrained(c, day)
    BY <1>1, <1>2, <2>1, <2>3, <2>4, <2>5 DEF Retrained
  <2>7. ~(d + c.step <= day)
    BY <1>1, <1>8, <2>1, <2>6
  <2> QED BY <1>1, <1>2, <1>5, <2>1, <2>2, <2>7
<1> QED BY <1>6, <1>7, <1>8

\* So each row of a test day is predicted once, by that window's model.
LEMMA PredictedOnce ==
  ASSUME RollingInv
  PROVE  PredictedOnceByLatest
<1> SUFFICES ASSUME pc = "done", NEW r \in Symbols \X TestDays(cfg)
             PROVE  LET retrained == Retrained(cfg, r[2])
                    IN  {p.window : p \in {x \in predictions : x.row = r}} =
                        IF r[2] \notin RowDays(r[1]) THEN {}
                        ELSE {d \in retrained : \A e \in retrained : e <= d}
  BY DEF PredictedOnceByLatest, Retrained
<1> DEFINE Windows == {p.window : p \in {x \in predictions : x.row = r}}
<1>1. /\ cfg \in Configs /\ RollingStarts(cfg) # {}
      /\ predictions = PredictionsOf(cfg, RollingStarts(cfg))
  BY DEF RollingInv, WindowInv, Running
<1>2. cfg.step \in Nat /\ cfg.step > 0
  BY <1>1, ConfigTyped DEF RollingStarts
<1>3. r \in Symbols \X Days /\ r[2] \in TestDays(cfg)
  BY DEF TestDays
<1>4. r \in Loaded(cfg) <=> r[2] \in RowDays(r[1])
  <2>1. LoadStart(cfg) <= r[2] /\ r[2] <= cfg.last
    BY <1>1, <1>3, ConfigTyped DEF LoadStart, TestDays, Days
  <2> QED BY <1>3, <2>1 DEF Loaded
<1>5. \A d : d \in Windows <=>
        d \in RollingStarts(cfg) /\ r \in Loaded(cfg) /\ r[2] \in d..WindowEnd(cfg, d)
  <2>1. ASSUME NEW d
        PROVE  d \in Windows <=> [row |-> r, window |-> d] \in predictions
    <3>1. ASSUME NEW p \in predictions, p.row = r, p.window = d
          PROVE  p = [row |-> r, window |-> d]
      BY <1>1, <3>1 DEF PredictionsOf, PredictedBy
    <3> QED BY <3>1
  <2>2. ASSUME NEW d
        PROVE  [row |-> r, window |-> d] \in predictions <=>
                 d \in RollingStarts(cfg) /\ r \in TestRows(cfg, Window(cfg, d))
    <3>1. ASSUME [row |-> r, window |-> d] \in predictions
          PROVE  d \in RollingStarts(cfg) /\ r \in TestRows(cfg, Window(cfg, d))
      <4>1. PICK x \in RollingStarts(cfg) : [row |-> r, window |-> d] \in PredictedBy(cfg, x)
        BY <1>1, <3>1 DEF PredictionsOf
      <4>2. PICK q \in TestRows(cfg, Window(cfg, x)) :
              [row |-> r, window |-> d] = [row |-> q, window |-> x]
        BY <4>1 DEF PredictedBy
      <4>3. q = r /\ x = d
        BY <4>2
      <4> QED BY <4>2, <4>3
    <3>2. ASSUME d \in RollingStarts(cfg), r \in TestRows(cfg, Window(cfg, d))
          PROVE  [row |-> r, window |-> d] \in predictions
      <4>1. [row |-> r, window |-> d] \in PredictedBy(cfg, d)
        BY <3>2 DEF PredictedBy
      <4> QED BY <1>1, <3>2, <4>1 DEF PredictionsOf
    <3> QED BY <3>1, <3>2
  <2> HIDE DEF Windows
  <2> QED BY <2>1, <2>2 DEF TestRows, Window
<1>6. \A d : d \in RollingStarts(cfg) /\ r[2] \in d..WindowEnd(cfg, d) <=>
        d \in Retrained(cfg, r[2]) /\ \A x \in Retrained(cfg, r[2]) : x <= d
  BY <1>1, <1>2, <1>3, LatestWindowCovers
<1> HIDE DEF Windows
<1>7. Windows = IF r[2] \notin RowDays(r[1]) THEN {}
                ELSE {d \in Retrained(cfg, r[2]) : \A e \in Retrained(cfg, r[2]) : e <= d}
  BY <1>4, <1>5, <1>6, Zenon
<1> QED BY <1>7 DEF Windows

(***************************************************************************)
(* A model is fitted on every labelled row of its train days, and a run    *)
(* that succeeded has predicted every row of the test range with history   *)
(* enough once, by the model of the latest retraining.                     *)
(***************************************************************************)
THEOREM WindowsWhole == Spec => []WindowsAreWhole
<1>1. RollingInv => WindowsAreWhole
  BY TrainedWhole, PredictedOnce DEF WindowsAreWhole
<1> QED BY <1>1, RollingInvariant, PTL
=============================================================================
