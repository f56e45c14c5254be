---------------------------- MODULE RiskSchedule ----------------------------
(***************************************************************************)
(* How much of the account a backtest may invest on each day               *)
(* (build_risk_schedule_values of run_bundle.rs): from the strength of the *)
(* day's scores or one or two validation metrics of the rolling windows,   *)
(* from two moving averages of a benchmark, or from the smaller of both.   *)
(*                                                                         *)
(* Days are 1..n, a row of scores is a sequence. Quotients are integers    *)
(* rounded down; degrees of risk count in parts of Unit. A convex or       *)
(* concave curve is the square or its mirror image, the sigmoid one of its *)
(* monotone steps.                                                         *)
(***************************************************************************)
EXTENDS Integers, Sequences, FiniteSets, Functions, FiniteSetsExt

CONSTANTS NaN, None, Unit

Least(a, b) == IF a <= b THEN a ELSE b
Most(a, b) == IF a >= b THEN a ELSE b
Clamp(x, low, high) == Least(Most(x, low), high)
Total(s) == SumFunction(s)

FiniteAt(values) == {i \in DOMAIN values : values[i] # NaN}

\* The numbers that sort before the one at i, of equal ones by index.
Before(values, i) ==
  {j \in FiniteAt(values) : \/ values[j] < values[i]
                            \/ values[j] = values[i] /\ j < i}

\* The numbers among some values, the smallest first.
Sorted(values) ==
  [n \in 1..Cardinality(FiniteAt(values)) |->
     values[CHOOSE i \in FiniteAt(values) : Cardinality(Before(values, i)) = n - 1]]

-----------------------------------------------------------------------------
(* The transforms of a day's scores.                                       *)

\* Average rank of equal scores, as a share of the finite ones.
RankPct(values) ==
  [i \in DOMAIN values |->
     IF values[i] = NaN THEN NaN
     ELSE LET below == {j \in FiniteAt(values) : values[j] < values[i]}
              upTo == {j \in FiniteAt(values) : values[j] <= values[i]}
          IN  ((Cardinality(below) + 1 + Cardinality(upTo)) * Unit)
                \div (2 * Cardinality(FiniteAt(values)))]

\* Distance from the mean, clipped. The scale of the spread is left out.
ZscoreClip(values, clip) ==
  LET n == Cardinality(FiniteAt(values))
      sum == SumFunctionOnSet(values, FiniteAt(values))
      centred(i) == n * values[i] - sum
  IN  [i \in DOMAIN values |->
         IF values[i] = NaN THEN NaN
         ELSE IF clip > 0 THEN Clamp(centred(i), -clip, clip) ELSE centred(i)]

Transformed(values, cfg) ==
  CASE cfg.transform = "none" -> values
    [] cfg.transform = "rank_pct" -> RankPct(values)
    [] cfg.transform = "zscore_clip" -> ZscoreClip(values, cfg.clip)

-----------------------------------------------------------------------------
(* The signal of a day.                                                    *)

\* The scores above the floor, best first.
Counting(values, cfg) ==
  LET above == [i \in DOMAIN values |->
                  IF values[i] # NaN /\ (cfg.minScore = None \/ values[i] > cfg.minScore)
                  THEN values[i] ELSE NaN]
      least == Sorted(above)
  IN  [n \in DOMAIN least |-> least[Len(least) + 1 - n]]

\* No score at all is no signal, except that a sum of nothing is 0.
SignalStrength(values, cfg) ==
  LET best == Counting(values, cfg)
      k == Least(Most(1, cfg.topk), Len(best))
  IN  IF cfg.metric = "topk_sum" THEN Total(SubSeq(best, 1, k))
      ELSE IF best = <<>> THEN NaN
      ELSE IF cfg.metric = "top1" THEN best[1]
      ELSE Total(SubSeq(best, 1, k)) \div k

StrengthSeries(scores, cfg) ==
  [d \in DOMAIN scores |-> SignalStrength(Transformed(scores[d], cfg), cfg)]

\* A window's validation metric holds on the days it predicts; of windows
\* that overlap the last record counts.
ValidationSeries(records, metric, days) ==
  [d \in days |->
     LET covering == {i \in DOMAIN records :
                        /\ records[i][metric] # NaN
                        /\ records[i].first <= d /\ d <= records[i].last}
     IN  IF covering = {} THEN NaN ELSE records[Max(covering)][metric]]

-----------------------------------------------------------------------------
(* From a signal to a degree of risk.                                      *)

\* Quantiles are in quarters, interpolated between neighbours.
Quantile(sorted, q) ==
  LET pos == q * (Len(sorted) - 1)
      lower == pos \div 4 + 1
      upper == (pos + 3) \div 4 + 1
  IN  sorted[lower] + ((sorted[upper] - sorted[lower]) * (pos % 4)) \div 4

RiskCurve(scale, curve) ==
  CASE curve = "linear" -> scale
    [] curve = "convex" -> (scale * scale) \div Unit
    [] curve = "concave" -> Unit - ((Unit - scale) * (Unit - scale)) \div Unit
    [] curve = "sigmoid" -> IF 2 * scale < Unit THEN (scale * scale) \div Unit
                            ELSE Unit - ((Unit - scale) * (Unit - scale)) \div Unit

\* Without a signal the risk is the least; an empty span is an error.
SignalRisk(value, low, high, cfg) ==
  IF high <= low
  THEN None
  ELSE LET scale == IF value = NaN THEN 0
                    ELSE Clamp(((value - low) * Unit) \div (high - low), 0, Unit)
       IN  cfg.minRisk + (RiskCurve(scale, cfg.curve) * (cfg.maxRisk - cfg.minRisk)) \div Unit

\* A bug: the day's own signal and later ones set the thresholds.
HistoryOfAll(series, d) == Sorted(series)

\* The signals a day's thresholds come from.
History(series, d) == Sorted(SubSeq(series, 1, d - 1))

Threshold(history, q, fixed) ==
  IF q = None \/ history = <<>> THEN fixed ELSE Quantile(history, q)

\* Quantile thresholds that meet or cross give way to the configured ones.
SpanStands(low, high) == low < high

SignalSchedule(series, cfg) ==
  [d \in DOMAIN series |->
     LET low == Threshold(History(series, d), cfg.minQuantile, cfg.minSignal)
         high == Threshold(History(series, d), cfg.maxQuantile, cfg.maxSignal)
     IN  IF SpanStands(low, high)
         THEN SignalRisk(series[d], low, high, cfg)
         ELSE SignalRisk(series[d], cfg.minSignal, cfg.maxSignal, cfg)]

-----------------------------------------------------------------------------
(* The benchmark's moving averages.                                        *)

\* The rows of the file by day: unusable values are passed over, and of two
\* rows of a day the later counts.
BenchmarkFile(rows) ==
  LET usable == {i \in DOMAIN rows : rows[i].value # NaN}
      days == {rows[i].day : i \in usable}
  IN  [d \in days |-> rows[Max({i \in usable : rows[i].day = d})].value]

\* What becomes of an amount over some returns.
Compounded(amount, returns) ==
  LET nav[n \in 0..Len(returns)] ==
        IF n = 0 THEN amount ELSE (nav[n - 1] * (2 + returns[n])) \div 2
  IN  nav[Len(returns)]

\* Net asset value after n listed days. Closes are their own, up to a factor;
\* a return counts halves, exact from a start of 2^n.
Nav(values, kind) ==
  IF kind = "close"
  THEN values
  ELSE [n \in DOMAIN values |->
          Compounded(2 ^ Len(values), SubSeq(values, 1, n))]

\* value >= the average of the last w values, in whole numbers.
AtLeastAverage(nav, n, w) ==
  LET first == Most(1, n - w + 1)
  IN  nav[n] * (n - first + 1) >= Total(SubSeq(nav, first, n))

\* What the benchmark says at the end of day n.
Regime(nav, n, cfg) ==
  IF AtLeastAverage(nav, n, cfg.fast) THEN cfg.bullRisk
  ELSE IF AtLeastAverage(nav, n, cfg.slow) THEN cfg.neutralRisk
  ELSE cfg.bearRisk

\* A day takes the regime of the day before.
BenchmarkSchedule(nav, cfg) ==
  [n \in DOMAIN nav |-> IF n = 1 THEN cfg.riskDegree ELSE Regime(nav, n - 1, cfg)]

-----------------------------------------------------------------------------
(* The schedule of a run: one degree of risk per prepared day.             *)

BenchmarkRisk(input, cfg) ==
  LET file == BenchmarkFile(input.benchmark)
      listed == Sorted([d \in DOMAIN file |-> d])
      schedule == BenchmarkSchedule(Nav([n \in DOMAIN listed |-> file[listed[n]]],
                                        cfg.valueType), cfg)
  IN  [d \in DOMAIN input.scores |->
         IF d \in DOMAIN file
         THEN schedule[Cardinality({e \in DOMAIN file : e <= d})]
         ELSE cfg.riskDegree]

SignalSeries(input, cfg) ==
  IF cfg.source = "validation_metric"
  THEN ValidationSeries(input.records, cfg.validation, DOMAIN input.scores)
  ELSE StrengthSeries(input.scores, cfg)

OneSignal(input, cfg) == SignalSchedule(SignalSeries(input, cfg), cfg)

\* A second validation metric has bounds of its own.
TwoMetrics(cfg) == cfg.source = "validation_metric" /\ cfg.secondary # None
Secondary(cfg) ==
  [cfg EXCEPT !.validation = cfg.secondary,
              !.minSignal = cfg.bounds.minSignal, !.maxSignal = cfg.bounds.maxSignal,
              !.minQuantile = cfg.bounds.minQuantile, !.maxQuantile = cfg.bounds.maxQuantile,
              !.minRisk = cfg.bounds.minRisk, !.maxRisk = cfg.bounds.maxRisk]

\* The smaller of two degrees of risk; an error of either fails the run.
Lesser(a, b) ==
  [d \in DOMAIN a |-> IF None \in {a[d], b[d]} THEN None ELSE Least(a[d], b[d])]

SignalRisks(input, cfg) ==
  IF TwoMetrics(cfg)
  THEN Lesser(OneSignal(input, cfg), OneSignal(input, Secondary(cfg)))
  ELSE OneSignal(input, cfg)

Schedule(input, cfg) ==
  CASE cfg.mode = "signal_strength" -> SignalRisks(input, cfg)
    [] cfg.mode = "benchmark_ma" -> BenchmarkRisk(input, cfg)
    [] cfg.mode = "benchmark_ma_signal_strength" ->
         Lesser(SignalRisks(input, cfg), BenchmarkRisk(input, cfg))

\* The configurations the parser lets through.
BoundsOk(cfg) ==
  /\ cfg.maxSignal > cfg.minSignal
  /\ cfg.minQuantile # None /\ cfg.maxQuantile # None => cfg.maxQuantile > cfg.minQuantile
  /\ 0 <= cfg.minRisk /\ cfg.minRisk <= cfg.maxRisk /\ cfg.maxRisk <= Unit

RiskConfigOk(cfg) ==
  /\ BoundsOk(cfg)
  /\ TwoMetrics(cfg) => BoundsOk(Secondary(cfg))
  /\ 1 <= cfg.fast /\ cfg.fast < cfg.slow
  /\ {cfg.bullRisk, cfg.neutralRisk, cfg.bearRisk, cfg.riskDegree} \subseteq 0..Unit
=============================================================================
