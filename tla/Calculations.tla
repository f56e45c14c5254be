---------------------------- MODULE Calculations ----------------------------
(***************************************************************************)
(* The calculations the programs are built from, over bounded inputs. Init *)
(* draws a part and one of its inputs. The two loops with a state of their *)
(* own (cap redistribution, residual-return history) are stepped through;  *)
(* of every other part `case` is the input and Answer the one step.        *)
(***************************************************************************)
EXTENDS TopkDropout, Sequences, SequencesExt

CONSTANTS
  ScoreVals,                     \* scores of a rebalance day
  Names, Groups, MaxRaw, Unit,   \* of TargetWeights
  RiskUnit,                      \* of RiskSchedule
  Estimated, MaxFreq, MaxDates, MaxMissing, LeastHistories  \* of ExpectedReturnHistory

ASSUME InputAssumption ==
  /\ ScoreVals \subseteq Int
  /\ IsFiniteSet(Names) /\ MaxRaw \in Nat /\ Unit \in Nat \ {0}
  /\ RiskUnit \in Nat \ {0} /\ None # "bank"
  /\ {MaxFreq, MaxDates} \subseteq Nat \ {0} /\ LeastHistories \subseteq Nat

VARIABLES
  part, case, answered,
  raw, group, maxWeight, maxGroup, phase, weight, final, remaining, budget,
  freq, nDates, minHistory, missing, pos, pc, histories, used

weightVars == <<raw, group, maxWeight, maxGroup, phase, weight, final, remaining, budget>>
historyVars == <<freq, nDates, minHistory, missing, pos, pc, histories, used>>
vars == <<part, case, answered, weightVars, historyVars>>

Weights == INSTANCE TargetWeights
History == INSTANCE ExpectedReturnHistory WITH Stocks <- Estimated
Risk == INSTANCE RiskSchedule WITH Unit <- RiskUnit
Bundle == INSTANCE BundleMatrices
Source == INSTANCE SourceTables WITH Window <- 2
Factors == INSTANCE FactorKernels
Found == INSTANCE FactorEvidence WITH Scale <- 6, DaysPerMonth <- 2, DaysPerYear <- 3

-----------------------------------------------------------------------------
(* Inputs.                                                                 *)

\* One rebalance: any portfolio, and any part of it locked.
TopkCase ==
  \E current \in {S \in SUBSET Stocks : Cardinality(S) <= TopK} :
    \E locked \in SUBSET current, nDrop \in 0..TopK,
       scores \in [Stocks -> ScoreVals \cup {NaN}] :
      case = [scores |-> scores, current |-> current, locked |-> locked, nDrop |-> nDrop]

\* The bounds of a second validation metric.
SecondBounds ==
  [minSignal |-> 1, maxSignal |-> 2, minQuantile |-> None, maxQuantile |-> 4,
   minRisk |-> 0, maxRisk |-> RiskUnit \div 2]

RiskBase ==
  [transform |-> "none", clip |-> 0, minScore |-> None, topk |-> 1, metric |-> "top1",
   source |-> "score", validation |-> "label_mean", secondary |-> None, bounds |-> SecondBounds,
   mode |-> "signal_strength", curve |-> "linear",
   minSignal |-> 1, maxSignal |-> 3, minQuantile |-> None, maxQuantile |-> None,
   minRisk |-> RiskUnit \div 4, maxRisk |-> RiskUnit, fast |-> 1, slow |-> 2,
   bullRisk |-> RiskUnit, neutralRisk |-> RiskUnit \div 2, bearRisk |-> 0,
   riskDegree |-> (3 * RiskUnit) \div 4, valueType |-> "close"]

SignalConfigs ==
  {[RiskBase EXCEPT !.minQuantile = low, !.maxQuantile = high, !.curve = curve,
                    !.metric = metric, !.topk = 2] :
     low \in {None, 1}, high \in {None, 3}, curve \in {"convex", "sigmoid"},
     metric \in {"topk_sum", "top1"}}
  \cup {[RiskBase EXCEPT !.transform = transform, !.minQuantile = 0, !.maxQuantile = 4,
                         !.clip = 2, !.minScore = 0, !.metric = "topk_mean"] :
          transform \in {"rank_pct", "zscore_clip"}}
  \cup {[RiskBase EXCEPT !.source = "validation_metric", !.minQuantile = 0,
                         !.maxQuantile = 4, !.curve = "concave", !.secondary = second] :
          second \in {None, "positive_rate"}}

BenchmarkConfigs ==
  {[RiskBase EXCEPT !.mode = mode, !.valueType = kind, !.slow = 3, !.fast = 2] :
     mode \in {"benchmark_ma", "benchmark_ma_signal_strength"}, kind \in {"close", "return"}}

NoBenchmark == <<>>
Rows(values) == [n \in DOMAIN values |-> [day |-> n, value |-> values[n]]]

RiskCase ==
  \/ \E a, b, c \in [1..2 -> {1, 3, NaN}], cfg \in SignalConfigs, late \in {2, 3} :
       case = [cfg |-> cfg,
               input |-> [scores |-> <<a, b, c>>, benchmark |-> NoBenchmark,
                          records |-> <<[label_mean |-> 1, positive_rate |-> 2, first |-> 1, last |-> 2],
                                        [label_mean |-> 2, positive_rate |-> 1, first |-> late, last |-> 3]>>]]
  \/ \E values \in [1..4 -> {1, 2, 3, NaN}], last \in {1, 4}, cfg \in BenchmarkConfigs :
       case = [cfg |-> cfg,
               input |-> [scores |-> [d \in 1..4 |-> <<d % 3, 3>>],
                          benchmark |-> Append(Rows(values), [day |-> last, value |-> 2]),
                          records |-> <<>>]]

\* Scores of two days and names, labels and baselines on any days.
Cells(days, names, values) ==
  {Bundle!FromRows(SetToSeq(
     {[day |-> k[1], name |-> k[2], value |-> f[k]] : k \in days \X names})) :
     f \in [days \X names -> values]}
Listed(values) == UNION {Cells(D, {"a", "b"}, values) : D \in (SUBSET {1, 2}) \ {{}}}
Steady(days) == Bundle!Matrix(days, {"a", "b"}, LAMBDA d, i : IF i = "a" THEN NaN ELSE 1)
Scored == Bundle!Matrix({1, 2}, {"a", "b"}, LAMBDA d, i : d)

Fusions ==
  {[mode |-> mode, primaryTransform |-> t, secondaryTransform |-> "rank_pct",
    threshold |-> 3, filterValue |-> 0] :
     mode \in {"multiply", "filter"}, t \in {"rank_pct", "none"}}

MatrixCase ==
  \/ \E a, b \in Cells({1, 2}, {"a", "b"}, {1, 2, NaN}), f \in Fusions :
       case = [predictions |-> a, labels |-> Scored, baselines |-> {Scored},
               secondary |-> b, fusion |-> f]
  \/ \E p, l \in Listed({1, NaN}), D \in (SUBSET {1, 2}) \ {{}} :
       case = [predictions |-> p, labels |-> l, baselines |-> {Steady(D)},
               secondary |-> p, fusion |-> None]

\* What a bundle says of its labels, and the horizon they really have.
MetadataCase ==
  \E native, daily \in BOOLEAN, signal \in {None, 1, 2}, actual \in {1, 2},
     horizon, column \in {None, 1, 2}, label \in {None, 1, 2} :
    /\ horizon \in {None, actual} /\ column \in {None, actual}
    /\ label \in {None, IF signal = None THEN 1 ELSE signal}
    /\ daily => actual = 1
    /\ native /\ signal \in {None, 1} => actual = 1
    /\ case = [native |-> native, saysDaily |-> daily, signalHorizon |-> signal,
               horizon |-> horizon, backtestColumn |-> column, labelColumn |-> label,
               actual |-> actual]

\* The tables of one symbol: any trading days, a close that may be missing, a
\* split after day 1, and two events in the order of their announcement.
Table(days, values) == [d \in days |-> values[d]]
Tables(days, gap, split, events) ==
  [daily |-> [d \in days |-> [close |-> IF d = gap THEN NaN ELSE d + 1, preClose |-> d]],
   factor |-> Table(days \ {split}, <<1, 2, 2>>),
   limit |-> Table(days \ {1}, <<2, 3, 4>>),
   basic |-> Table(days \ {2}, <<1, 2, 3>>),
   events |-> events]

\* The industries are those of the symbol cache when the source is built; on
\* days 1 and 2 the symbols may have been classified otherwise.
SourceCase ==
  \E D, E \in (SUBSET (1..3)) \ {{}}, gap \in {0, 2}, split \in {0, 3},
     first, second \in 0..3, other \in {"bank", "steel"},
     before \in [{"a", "b"} -> {"bank", "steel"}] :
    /\ first <= second
    /\ case = [market |-> [a |-> Tables(D, gap, split, <<[ann |-> first, value |-> "old"],
                                                           [ann |-> second, value |-> "new"]>>),
                          b |-> Tables(E, 0, 0, <<[ann |-> second, value |-> "b"]>>)],
               industry |-> [a |-> "bank", b |-> other],
               classified |-> <<before, before, [a |-> "bank", b |-> other]>>]

\* Six rows of one symbol: a column with gaps, and perhaps a zero.
FactorColumns ==
  {"open", "high", "low", "close", "vwap", "volume", "amount", "turnover", "turnover_free",
   "limit", "valuation", "fi", "fc", "exp", "div", "age", "ind"}
Columns(gapped, gaps, zero) ==
  [c \in FactorColumns \cup {"zero"} |->
     IF c = "zero" THEN zero
     ELSE [t \in 1..6 |-> IF c = gapped /\ t \in gaps THEN NaN ELSE {<<c, t>>}]]

FactorCase ==
  \E gapped \in {"close", "high", "volume", "fi", "ind"}, gaps \in SUBSET {2, 3, 5},
     zero \in {{}} \cup {{<<c, 3>>} : c \in {"close", "low", "volume", "valuation"}} :
    case = [x |-> Columns(gapped, gaps, zero), zero |-> zero]

\* Four days of three symbols, in months of two days and years of three.
EvidenceCells == (1..4) \X (1..3)
Shape(p, d, s) ==
  CASE p = "rising" -> s [] p = "turning" -> IF d > 2 THEN s ELSE 3 - s
    [] p = "mixed" -> (s * d) % 3 [] OTHER -> 1
FactorStore(p, q, gaps, absent, third) ==
  [k \in EvidenceCells \ absent |->
     [label |-> IF k[1] = 4 /\ q = "mixed" THEN NaN ELSE 6 * Shape(q, k[1], k[2]),
      x |-> IF k \in gaps THEN NaN ELSE 6 * Shape(p, k[1], k[2]),
      industry |-> IF k[2] = 3 THEN third ELSE "bank"]]

Days(first, last) == [train |-> <<1, first>>, valid |-> <<first + 1, last>>, test |-> <<last + 1, 4>>]
OwnSegment == <<[name |-> <<"own">>, from |-> 2, to |-> 5]>>
Run(range, space, benchmark, neutral, segments) ==
  [from |-> range[1], to |-> range[2], space |-> space, benchmark |-> benchmark, neutral |-> neutral,
   segments |-> segments, universe |-> (1 :> {<<None, None>>}) @@ (2 :> {<<2, None>>}) @@ (3 :> {<<None, 3>>}),
   threshold |-> 1, horizon |-> 1, bins |-> 2]
Spaces == {"raw_return", "industry_excess", "benchmark_excess"}
IndexFile == <<[day |-> 1, value |-> 2], [day |-> 2, value |-> 1],
               [day |-> 3, value |-> NaN], [day |-> 4, value |-> 3]>>

EvidenceCase ==
  \E p \in {"rising", "turning", "mixed", "flat"}, q \in {"rising", "turning", "mixed"},
     gaps \in {{}, {<<2, 1>>, <<4, 3>>}}, third \in {None, "steel"}, space \in Spaces, file \in {None, IndexFile},
     neutral, filtered \in BOOLEAN, scheme \in {"yearly", "config_split"}, period \in {"train", "all"} :
    LET main == Found!PeriodDates(Days(2, 3), period, None, None)
        run == Run(main, space, file, neutral,
                   Found!Segments(Days(2, 3), scheme, OwnSegment, main))
    IN  /\ file # None => space = "benchmark_excess"
        /\ case = [store |-> FactorStore(p, q, gaps, {<<3, 2>>}, third), scheme |-> scheme,
                   run |-> IF filtered THEN run ELSE [run EXCEPT !.universe = None]]

\* Three factors, of which the first two are duplicates, and what is asked of them.
SelectionCase ==
  \E p \in {"rising", "turning", "flat"}, r, q \in {"turning", "mixed"},
     third \in {None, "steel"}, withSegments, inRanks, duplicates \in BOOLEAN,
     most \in {None, 1}, hit \in {0, 60}, maxCorr \in {5, 10} :
    case = [stores |-> <<FactorStore(p, q, {<<1, 2>>}, {}, third), FactorStore("rising", q, {}, {}, third),
                         FactorStore(r, q, {}, {<<3, 2>>}, third)>>,
            run |-> [Run(<<1, 4>>, "raw_return", None, FALSE,
                         Found!Segments(Days(2, 3), "yearly", <<>>, <<1, 4>>)) EXCEPT !.universe = None],
            withSegments |-> withSegments,
            choice |-> [limits |-> [coverage |-> 50, rankIc |-> 3, rankIr |-> 4, hit |-> hit,
                                    segHit |-> IF withSegments THEN 40 ELSE None,
                                    segRange |-> IF withSegments THEN 15 ELSE None, noFlip |-> withSegments],
                        groups |-> IF duplicates THEN {{1, 2}} ELSE {},
                        inRanks |-> inRanks, maxCorr |-> maxCorr, maxFeatures |-> most]]

\* Two runs into a directory, the first of them whole, and a second directory.
DiagnosticRuns ==
  {[period |-> period, from |-> from, to |-> to, segmented |-> segmented] :
     period \in {"train", "all"}, from \in {1, 2}, to \in {2, 4}, segmented \in BOOLEAN}
ProvenanceCase ==
  \E first \in DiagnosticRuns \cup {None}, second \in DiagnosticRuns, written \in 0..3,
     other \in {None, [period |-> "train", from |-> 1, to |-> 2, segmented |-> TRUE]},
     days \in {<<1, 2>>, <<1, 3>>} :
    LET before == IF first = None THEN Found!NoDirectory ELSE Found!Written(Found!NoDirectory, first, 3)
    IN  case = [first |-> first, second |-> second, written |-> written, days |-> days,
                dirs |-> <<Found!Written(before, second, written)>>
                           \o (IF other = None THEN <<>>
                               ELSE <<Found!Written(Found!NoDirectory, other, 3)>>)]

-----------------------------------------------------------------------------
WeightsIdle ==
  /\ raw = None /\ group = None /\ maxWeight = None /\ maxGroup = None /\ phase = "idle"
  /\ weight = None /\ final = None /\ remaining = {} /\ budget = 0

HistoryIdle ==
  /\ freq = 0 /\ nDates = 0 /\ minHistory = 0 /\ missing = {} /\ pos = 0 /\ pc = "idle"
  /\ histories = <<>> /\ used = {}

Init ==
  /\ answered = FALSE
  /\ \/ part = "weights" /\ case = None /\ Weights!Init /\ HistoryIdle
     \/ part = "history" /\ case = None /\ History!Init /\ WeightsIdle
     \/ /\ WeightsIdle /\ HistoryIdle
        /\ \/ part = "topk" /\ TopkCase
           \/ part = "risk" /\ RiskCase
           \/ part = "matrices" /\ MatrixCase
           \/ part = "metadata" /\ MetadataCase
           \/ part = "source" /\ SourceCase
           \/ part = "factors" /\ FactorCase
           \/ part = "evidence" /\ EvidenceCase
           \/ part = "selection" /\ SelectionCase
           \/ part = "provenance" /\ ProvenanceCase

Answer ==
  /\ part \notin {"weights", "history"} /\ ~answered
  /\ answered' = TRUE
  /\ UNCHANGED <<part, case, weightVars, historyVars>>

WeightStep ==
  part = "weights" /\ Weights!Next /\ UNCHANGED <<part, case, answered, historyVars>>
HistoryStep ==
  part = "history" /\ History!Next /\ UNCHANGED <<part, case, answered, weightVars>>

Next == Answer \/ WeightStep \/ HistoryStep
Spec == Init /\ [][Next]_vars

Of(p) == part = p /\ answered

-----------------------------------------------------------------------------
(* Selection of trades.                                                    *)

Sold == SellList(case.scores, case.current, case.locked, case.nDrop)
Bought == BuyList(case.scores, case.current, case.locked, case.nDrop)
Staying == case.current \ Sold
NotHeld == Eligible(case.scores) \ case.current

(***************************************************************************)
(* A trade list can be executed as it stands and wastes no slot: nothing   *)
(* locked or unheld is sold, nothing held is bought, the portfolio stays   *)
(* within topk, and it is full unless every eligible stock is in it, also  *)
(* when forced sales freed the slots (select_topk_dropout_trades).         *)
(***************************************************************************)
TradesExecutable ==
  Of("topk") =>
    /\ Sold \subseteq case.current \ case.locked
    /\ Bought \cap case.current = {}
    /\ Cardinality(Staying \cup Bought) <= TopK
    /\ Cardinality(Staying \cup Bought) = TopK \/ NotHeld \subseteq Bought

(***************************************************************************)
(* The drop never trades down: while there are candidates enough for every *)
(* slot it could free, no eligible holding is sold on a day a worse one    *)
(* is bought. And a holding within the buffer is never sold for its rank.  *)
(***************************************************************************)
NoWorseSwap ==
  Of("topk") =>
    /\ Cardinality(NotHeld)
         >= Cardinality(ForcedSell(case.scores, case.current, case.locked))
              + case.nDrop + Shortfall(case.current) =>
         \A s \in Sold \cap Eligible(case.scores), b \in Bought :
           Better(case.scores, b, s)
    /\ KeepTopN # None =>
         Sold \cap Top(case.scores, Eligible(case.scores), KeepTopN) = {}

-----------------------------------------------------------------------------
(* Weights and histories: TargetWeights and ExpectedReturnHistory say what *)
(* these mean.                                                             *)

(* The weights spend the budget, all of it unless the caps forbid it, and  *)
(* no redistribution pushes a stock or a group over its cap, or a stock    *)
(* below one of a smaller raw weight in its group (cap_weights,            *)
(* cap_group_weights).                                                     *)
WeightsSound ==
  part = "weights" =>
    /\ Weights!WithinBudget /\ Weights!BudgetSpent
    /\ Weights!CapsRespected /\ Weights!RankingKept

(* An early exit is estimated only from labels of earlier days, of spans   *)
(* as long as its own, read inside the matrix (ExpectedReturnHistory).     *)
NoLookahead ==
  part = "history" => History!NoLookahead /\ History!SameHorizon /\ History!IndicesInRange

-----------------------------------------------------------------------------
(* Degrees of risk.                                                        *)

\* What is known when day d is traded: scores of days up to d, the
\* benchmark of days before it. Later values are replaced, not left out:
\* whether a day is listed is the calendar's to say.
KnownBy(input, d) ==
  [input EXCEPT
     !.scores = SubSeq(@, 1, d),
     !.benchmark = [n \in DOMAIN @ |->
       IF @[n].day >= d /\ @[n].value # NaN THEN [@[n] EXCEPT !.value = 1] ELSE @[n]]]

(***************************************************************************)
(* The degree of risk of a day does not change with what comes after: the  *)
(* quantile thresholds, the moving averages and the day they apply to only *)
(* look back. And a configuration the parser accepts never fails half-way  *)
(* through a run: every day gets a degree within the account, also where   *)
(* quantiles of the history meet or there is no signal at all              *)
(* (build_risk_schedule_values).                                           *)
(***************************************************************************)
RiskPointInTime ==
  Of("risk") =>
    \A d \in DOMAIN case.input.scores :
      LET degree == Risk!Schedule(case.input, case.cfg)[d]
      IN  /\ degree = Risk!Schedule(KnownBy(case.input, d), case.cfg)[d]
          /\ Risk!RiskConfigOk(case.cfg) => degree # None /\ degree \in 0..RiskUnit

-----------------------------------------------------------------------------
(* Matrices of a bundle.                                                   *)

OnDay(m, d) == [days |-> {d}, names |-> m.names, at |-> [e \in {d} |-> m.at[d]]]

(***************************************************************************)
(* A fused score of a day depends on the two bundles' scores of that day   *)
(* only: ranks are taken within it (fuse_predictions).                     *)
(***************************************************************************)
FusionPointInTime ==
  Of("matrices") /\ case.fusion # None =>
    LET whole == Bundle!Fused(case.predictions, case.secondary, case.fusion)
    IN  \A d \in whole.days :
          LET alone == Bundle!Fused(OnDay(case.predictions, d), OnDay(case.secondary, d),
                                    case.fusion)
          IN  \A i \in alone.names : whole.at[d][i] = alone.at[d][i]

(***************************************************************************)
(* The baselines at fixed risk are backtested apart from the strategy and  *)
(* reported beside it, a missing day as 0: they have every day the         *)
(* strategy has, whatever the scores leave out.                            *)
(***************************************************************************)
FixedRiskOnEveryDay ==
  Of("matrices") =>
    LET run == Bundle!Prepared(case, case.secondary, case.fusion)
        fixed == Bundle!FixedBaselines(case)
    IN  Bundle!Usable(run) =>
          \A b \in fixed.baselines :
            Bundle!CoreDays(run.scores, run.labels) \subseteq Bundle!CoreDays(b, fixed.labels)

\* Neither a horizon nor a column nor the semantics of the backtest labels is
\* given, and the native trainer, which gives them, did not write the bundle.
Unstated(meta) ==
  ~meta.native /\ meta.horizon = None /\ meta.backtestColumn = None /\ ~meta.saysDaily

(***************************************************************************)
(* A day's return is never a longer one: a bundle whose metadata is true   *)
(* is accepted only if its backtest labels are daily, whatever the horizon *)
(* the model was trained for and whoever wrote the bundle; but of one that *)
(* another program wrote and that says nothing of its backtest labels, any *)
(* labels are taken (validate_backtest_label_metadata_value). The document *)
(* on label semantics allows no such exception.                            *)
(***************************************************************************)
LabelsAreDaily ==
  Of("metadata") /\ Bundle!LabelMetadataOk(case) => case.actual = 1 \/ Unstated(case)

-----------------------------------------------------------------------------
(* Rows of the source.                                                     *)

UpTo(table, d) == [e \in {x \in DOMAIN table : x <= d} |-> table[e]]

\* Events are in the order of their announcement: those announced before d.
Announced(events, d) ==
  SubSeq(events, 1, Cardinality({n \in DOMAIN events : events[n].ann < d}))

\* What has been published when day d closes: rows up to d, of symbols that
\* have any, and events announced before d.
PublishedOf(tables, d) ==
  [daily |-> UpTo(tables.daily, d), factor |-> UpTo(tables.factor, d),
   limit |-> UpTo(tables.limit, d), basic |-> UpTo(tables.basic, d),
   events |-> Announced(tables.events, d)]
PublishedBy(market, d) ==
  [s \in {x \in DOMAIN market : \E e \in DOMAIN market[x].daily : e <= d} |->
     PublishedOf(market[s], d)]

\* The newest report of those announced before d.
Newest(events, d) ==
  LET before == Announced(events, d)
  IN  IF before = <<>> THEN None
      ELSE <<before[Len(before)].value, d - before[Len(before)].ann>>

\* The industry of s has gained or lost a member since d, of those that were
\* listed by then.
Reclassified(s, d) ==
  \E x \in DOMAIN PublishedBy(case.market, d) :
    (case.classified[d][x] = case.industry[s]) # (case.industry[x] = case.industry[s])

(***************************************************************************)
(* A row of the source says what was known on its day, whatever else has   *)
(* been collected since: its prices, and announced events, of which it     *)
(* shows the newest, also over days of no trading. So does the context of  *)
(* its industry unless a symbol has been reclassified since: the source is *)
(* built with one map, that of the present, for all of its days            *)
(* (build_processed_rows, load_sidecar_series, asof_industry_context,      *)
(* TUSHARE_INDUSTRY_MAPPING_POLICY).                                       *)
(***************************************************************************)
SourcePointInTime ==
  Of("source") =>
    \A s \in DOMAIN case.market : \A d \in DOMAIN case.market[s].daily :
      LET row == Source!SourceRow(case.market, case.industry, s, d)
          known == PublishedBy(case.market, d)
          then == Source!SourceRow(known, case.classified[d], s, d)
      IN  /\ row.processed = then.processed
          /\ row.events = then.events
          /\ Reclassified(s, d) \/ row.context = then.context
          /\ Source!AkshareRow(case.market[s], d) = Source!AkshareRow(known[s], d)
          /\ row.events = Newest(case.market[s].events, d)

-----------------------------------------------------------------------------
(* Factors.                                                                *)

WithinRows(value, from, to) == value = NaN \/ \A cell \in value : cell[2] \in from..to

(***************************************************************************)
(* No factor reads a later row, so that a row appended to the source       *)
(* changes none of the rows before it; and a factor of a window forgets    *)
(* the rows before it, so that a store built from a longer history agrees. *)
(* Moving averages that keep their whole past and the age of a limit day   *)
(* are the exception (alpha158_features and the kernels after it).         *)
(***************************************************************************)
FactorsReadTheirWindow ==
  Of("factors") =>
    LET windowed == Factors!Windowed(case.x, 2)
        unbounded == Factors!Unbounded(case.x, 2)
    IN  \A t \in 1..6 :
          /\ \A f \in DOMAIN windowed : WithinRows(windowed[f][t], t - 3, t)
          /\ \A f \in DOMAIN unbounded : WithinRows(unbounded[f][t], 1, t)

(***************************************************************************)
(* A column left out of the store as a duplicate is the one kept in its    *)
(* place, row by row, whatever is missing, as long as no price or volume   *)
(* is zero; and what training reads for its name is in the store           *)
(* (deduplicate_exact_feature_columns, canonical_feature_source).          *)
(***************************************************************************)
DuplicatesAgree ==
  Of("factors") =>
    LET columns == Factors!Windowed(case.x, 2)
        stored == Factors!Stored(DOMAIN columns)
    IN  /\ \A f \in DOMAIN columns : Factors!SourceOf(f) \in stored
        /\ case.zero = {} =>
             \A f \in DOMAIN columns : columns[f] = columns[Factors!SourceOf(f)]

-----------------------------------------------------------------------------
(* Evidence and selection.                                                 *)

Elements(seq) == {seq[n] : n \in DOMAIN seq}

EvidenceFor(run) == Found!Evidence(case.store, run)
Alone(run, segment) ==
  [run EXCEPT !.from = Found!Upper(run.from, segment.from), !.to = Found!Lower(run.to, segment.to),
              !.segments = <<>>]

OwnOf(alone, segment) == alone # None => segment = alone.summary
SegmentsOf(found) ==
  found # None =>
    /\ \A n \in DOMAIN case.run.segments :
         OwnOf(EvidenceFor(Alone(case.run, case.run.segments[n])), found.segments[n])
    /\ found.summary.monthlyMean
         = Found!Average(found.months, Found!Known(found.months, DOMAIN found.months))

(***************************************************************************)
(* The evidence of a segment is what a run over its days alone would have  *)
(* found: no mean, rank or month reaches over its ends. The years of a     *)
(* range are all of it and overlap nowhere, and the months beside the      *)
(* summary are those it was made from (run_single_factor_diagnostics,      *)
(* resolve_segments).                                                      *)
(***************************************************************************)
SegmentsAreRuns ==
  Of("evidence") =>
    /\ SegmentsOf(EvidenceFor(case.run))
    /\ case.scheme = "yearly" =>
         \A d \in case.run.from..case.run.to :
           Cardinality({n \in DOMAIN case.run.segments :
                          LET segment == case.run.segments[n]
                          IN  segment.name # <<"own">> /\ d \in segment.from..segment.to}) = 1

Summaries(run) ==
  {Found!SummaryRow(n, n % 2, Found!Evidence(case.stores[n], run), case.withSegments) : n \in 1..3}
NamesOf(rows) == {r.name : r \in rows}

Like(columns, r, q) ==
  LET c == Found!Likeness(columns, case.choice.inRanks, r, q)
  IN  c # NaN /\ c >= case.choice.maxCorr
Replaces(columns, q, r) ==
  \/ \E g \in case.choice.groups : {q.name, r.name} \subseteq g
  \/ Like(columns, q, r)

Justifies(passing, columns, profile) ==
  /\ \A n, m \in DOMAIN profile : n < m => ~Replaces(columns, profile[n], profile[m])
  /\ case.choice.maxFeatures = None =>
       \A r \in passing \ Elements(profile) :
         \E q \in passing : Found!Better(q, r) /\ Replaces(columns, q, r)

JustifiedBy(plain, neutral) ==
  LET robust == Found!RobustSummary(plain, neutral)
      passing == Found!Prefiltered(robust, case.choice.limits)
      Judged(profile) ==
        profile # None => Justifies(passing, Found!Columns(case.stores, case.run), profile)
  IN  /\ NamesOf(passing) \subseteq NamesOf(Found!Prefiltered(plain, case.choice.limits))
                                      \cap NamesOf(Found!Prefiltered(neutral, case.choice.limits))
      /\ Judged(Found!Profile(robust, case.stores, case.run, case.choice))

(***************************************************************************)
(* What the robust selection keeps either summary would keep alone, also   *)
(* where evidence is missing. No two columns of a profile are duplicates   *)
(* or more alike than the limit, and a factor that passes and is left out  *)
(* is a duplicate of, or too much like, a better one (passes_prefilter,    *)
(* build_robust_feature_summary, prune_correlated_rows).                   *)
(***************************************************************************)
SelectionJustified ==
  Of("selection") =>
    JustifiedBy(Summaries(case.run), Summaries([case.run EXCEPT !.neutral = TRUE]))

(***************************************************************************)
(* Without the override no profile is made of evidence from after the      *)
(* training days, as long as a directory that is used again is written by  *)
(* whole runs that have segments if one before them had                    *)
(* (profile_write_safety_warning, check_diagnostics_provenance_safety).    *)
(***************************************************************************)
ProfilesFromTraining ==
  Of("provenance") =>
    LET clean == \/ case.first = None
                 \/ case.written \in {0, 3} /\ (case.first.segmented => case.second.segmented)
        seen == {case.dirs[n].summary : n \in DOMAIN case.dirs}
                  \cup {case.dirs[n].comparison : n \in DOMAIN case.dirs}
    IN  clean /\ Found!MayWrite(Days(2, 3), case.days, case.dirs, FALSE) =>
          \A range \in seen \cup {case.days} : range = None \/ range[2] <= 2
=============================================================================
