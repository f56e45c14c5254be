--------------------------- MODULE FactorEvidence ---------------------------
(***************************************************************************)
(* The evidence on a factor and the selection made from it.                *)
(*                                                                         *)
(* single_factor_diagnostics.rs compares a factor with the labels of the   *)
(* same rows, over all days and over segments of them. feature_prefilter.rs*)
(* chooses factors by that evidence, and single_factor_batch.rs writes the *)
(* choice down as a profile if the evidence is from the training days.     *)
(*                                                                         *)
(* Days are numbered. A store is a function from <<day, symbol>> to        *)
(* [label, x, industry], of one factor x: the code treats each factor      *)
(* alone. Labels and factors are multiples of Scale, which every number of *)
(* symbols divides, correlations and their ratios are in tenths and rates  *)
(* in percent, each truncated. NaN stands for a value that is not finite,  *)
(* None for no industry, no filter, and no result: an error of the code or *)
(* an empty summary.                                                       *)
(***************************************************************************)
EXTENDS Integers, Sequences, FiniteSets, FiniteSetsExt, Functions, Filtering

CONSTANTS NaN, None, Scale, DaysPerMonth, DaysPerYear

Sum(f, S) == SumFunctionOnSet(f, S)
Average(f, S) == IF S = {} THEN NaN ELSE Sum(f, S) \div Cardinality(S)
Known(f, S) == {k \in S : f[k] # NaN}
Sqrt(n) == CHOOSE r \in 0..n : r * r <= n /\ n < (r + 1) * (r + 1)
Sign(a) == IF a = NaN \/ a = 0 THEN 0 ELSE IF a > 0 THEN 1 ELSE -1
Magnitude(a) == IF a = NaN THEN NaN ELSE Sign(a) * a
Rate(n, of) == IF of = 0 THEN 0 ELSE (100 * n) \div of
Lower(a, b) == IF a < b THEN a ELSE b
Upper(a, b) == IF a < b THEN b ELSE a

-----------------------------------------------------------------------------
(* The days that are read and their segments.                              *)

Splits == <<"train", "valid", "test">>
Year(d) == (d - 1) \div DaysPerYear
Month(d) == (d - 1) \div DaysPerMonth

\* Both dates of the command line or neither; then the period's.
PeriodDates(time, period, from, to) ==
  IF from # None \/ to # None
  THEN IF from # None /\ to # None THEN <<from, to>> ELSE None
  ELSE IF period = "all"
  THEN <<Min({time[s][1] : s \in DOMAIN time}), Max({time[s][2] : s \in DOMAIN time})>>
  ELSE time[period]

Clipped(name, range, main) ==
  [name |-> name, from |-> Upper(range[1], main[1]), to |-> Lower(range[2], main[2])]

\* A bug: only the last that stayed is looked at.
SurvivingTheLast(list, standsFor) ==
  LET stayed[n \in 0..Len(list)] ==
        IF n = 0 THEN <<>>
        ELSE IF stayed[n - 1] # <<>> /\ <<stayed[n - 1][Len(stayed[n - 1])], list[n]>> \in standsFor
        THEN stayed[n - 1] ELSE Append(stayed[n - 1], list[n])
  IN  stayed[Len(list)]

\* In order, those stay that none before them that stayed stands for.
Surviving(list, standsFor) ==
  LET stayed[n \in 0..Len(list)] ==
        IF n = 0 THEN <<>>
        ELSE IF \E q \in Range(stayed[n - 1]) : <<q, list[n]>> \in standsFor
        THEN stayed[n - 1] ELSE Append(stayed[n - 1], list[n])
  IN  stayed[Len(list)]

\* The segments of the scheme, then the user's own; the first of a name counts.
Segments(time, scheme, custom, main) ==
  LET ofYear(y) ==
        Clipped(<<"y", y>>, <<y * DaysPerYear + 1, (y + 1) * DaysPerYear>>, main)
      clipped ==
        CASE scheme = "yearly" ->
               [n \in 1..(Year(main[2]) - Year(main[1]) + 1) |-> ofYear(Year(main[1]) + n - 1)]
          [] scheme = "config_split" ->
               [n \in DOMAIN Splits |-> Clipped(<<Splits[n]>>, time[Splits[n]], main)]
          [] OTHER -> <<>>
      listed == Kept(clipped, {x \in Range(clipped) : x.from <= x.to}) \o custom
  IN  Surviving(listed, {p \in Range(listed) \X Range(listed) : p[1].name = p[2].name})

-----------------------------------------------------------------------------
(* Rows.                                                                   *)

\* An interval may be open at either end.
Admits(universe, s, d) ==
  \/ universe = None
  \/ /\ s \in DOMAIN universe
     /\ \E i \in universe[s] : (i[1] = None \/ i[1] <= d) /\ (i[2] = None \/ d <= i[2])

Loaded(store, run) ==
  Restrict(store, {k \in DOMAIN store :
                     k[1] \in run.from..run.to /\ Admits(run.universe, k[2], k[1])})

Column(rows, name) == [k \in DOMAIN rows |-> rows[k][name]]
OfDay(rows, d) == {k \in DOMAIN rows : k[1] = d}
DaysOf(rows) == {k[1] : k \in DOMAIN rows}
PeersIn(rows, k) ==
  {j \in DOMAIN rows : j[1] = k[1] /\ rows[j].industry = rows[k].industry}

\* A bug: the mean of an industry is taken over all days.
PeerMeanOfAllDays(rows, name, k) ==
  LET column == Column(rows, name)
  IN  Average(column, Known(column, {j \in DOMAIN rows : rows[j].industry = rows[k].industry}))

PeerMean(rows, name, k) == LET column == Column(rows, name)
                           IN  Average(column, Known(column, PeersIn(rows, k)))

\* The benchmark's return over the horizon after a day, of whole windows only;
\* the file is a sequence of [day, value], returns are taken to add up.
Forward(benchmark, d, horizon) ==
  LET at == {n \in DOMAIN benchmark : benchmark[n].day = d /\ n + horizon <= Len(benchmark)}
      window(n) == [i \in (n + 1)..(n + horizon) |-> benchmark[i].value]
      whole == {n \in at : NaN \notin Range(window(n))}
  IN  IF whole = {} THEN NaN
      ELSE LET n == Max(whole) IN Sum(window(n), DOMAIN window(n))

Benchmark(rows, run, d) ==
  LET labels == Column(rows, "label")
  IN  IF run.benchmark = None THEN Average(labels, Known(labels, OfDay(rows, d)))
      ELSE Forward(run.benchmark, d, run.horizon)

InSpace(rows, run, k) ==
  LET label == rows[k].label
      reference == CASE run.space = "raw_return" -> 0
                     [] run.space = "industry_excess" ->
                          IF rows[k].industry = None THEN NaN ELSE PeerMean(rows, "label", k)
                     [] run.space = "benchmark_excess" -> Benchmark(rows, run, k[1])
  IN  IF NaN \in {label, reference} THEN NaN
      ELSE IF run.space = "raw_return" THEN label
      ELSE label - reference - run.threshold

\* The label space needs one group, or one day, that has labels at all.
SpaceAvailable(rows, run) ==
  CASE run.space = "raw_return" -> TRUE
    [] run.space = "industry_excess" ->
         \E k \in DOMAIN rows : rows[k].industry # None /\ rows[k].label # NaN
    [] run.space = "benchmark_excess" ->
         IF run.benchmark = None THEN \E k \in DOMAIN rows : rows[k].label # NaN
         ELSE run.benchmark # <<>>

\* Rows of no industry keep their value among those of the others.
Neutral(rows) ==
  [k \in DOMAIN rows |->
     IF rows[k].industry = None \/ rows[k].x = NaN THEN rows[k]
     ELSE [rows[k] EXCEPT !.x = @ - PeerMean(rows, "x", k)]]

\* The rows a run looks at, none where it fails.
Examined(store, run) ==
  LET rows == Loaded(store, run)
      labelled == [k \in DOMAIN rows |-> [rows[k] EXCEPT !.label = InSpace(rows, run, k)]]
      kept == Restrict(labelled, {k \in DOMAIN rows : labelled[k].label # NaN})
  IN  IF DOMAIN rows = {} THEN rows
      ELSE IF ~SpaceAvailable(rows, run) THEN <<>>
      ELSE IF DOMAIN kept = {} \/ ~run.neutral THEN kept
      ELSE IF \A k \in DOMAIN kept : kept[k].industry = None THEN <<>>
      ELSE Neutral(kept)

-----------------------------------------------------------------------------
(* Statistics.                                                             *)

Correlation(f, g, S) ==
  LET n == Cardinality(S)
      product(a, b) == n * Sum([k \in S |-> a[k] * b[k]], S) - Sum(a, S) * Sum(b, S)
      both == product(f, g)
      spread == product(f, f) * product(g, g)
  IN  IF n < 2 \/ spread <= 0 THEN NaN ELSE Sign(both) * Sqrt((100 * both * both) \div spread)

\* Twice the average rank.
Ranks(f, S) ==
  [k \in S |-> 2 * Cardinality({j \in S : f[j] < f[k]})
                 + Cardinality({j \in S : f[j] = f[k]}) + 1]

RankCorrelation(f, g, S) == Correlation(Ranks(f, S), Ranks(g, S), S)

Bucket(f, S, bins) ==
  LET rank == Ranks(f, S)
  IN  [k \in S |-> Lower(Upper((rank[k] * bins - 1) \div (2 * Cardinality(S)), 0), bins - 1)]

\* Means of the labels of each bucket that has any.
BucketMeans(f, g, S, bins) ==
  LET bucket == Bucket(f, S, bins)
  IN  [b \in Range(bucket) |-> Average(g, {k \in S : bucket[k] = b})]

StdDev(f, S) ==
  IF Cardinality(S) < 2 THEN NaN
  ELSE LET mean == Average(f, S)
       IN  Sqrt(Sum([k \in S |-> (f[k] - mean) * (f[k] - mean)], S) \div (Cardinality(S) - 1))
InfoRatio(f, S) ==
  LET std == StdDev(f, S) IN IF std \in {NaN, 0} THEN NaN ELSE (10 * Average(f, S)) \div std
PositiveRate(f, S) ==
  IF S = {} THEN NaN ELSE Rate(Cardinality({k \in S : f[k] > 0}), Cardinality(S))
HitRate(f, S, direction) ==
  IF direction = 0 \/ S = {} THEN NaN
  ELSE Rate(Cardinality({k \in S : f[k] * direction > 0}), Cardinality(S))

\* What one day says: the rows with a value of the factor, their correlations
\* and the labels of its buckets.
Daily(rows, d, bins) ==
  LET x == Column(rows, "x")
      y == Column(rows, "label")
      valid == Known(x, OfDay(rows, d))
      means == BucketMeans(x, y, valid, bins)
      buckets == DOMAIN means
  IN  [day |-> d, observed |-> Cardinality(OfDay(rows, d)), paired |-> Cardinality(valid),
       ic |-> Correlation(x, y, valid), rank |-> RankCorrelation(x, y, valid),
       monotonicity |-> IF Cardinality(valid) < bins THEN NaN
                        ELSE RankCorrelation([b \in buckets |-> b], means, buckets),
       spread |-> IF valid = {} THEN NaN ELSE means[Max(buckets)] - means[Min(buckets)]]

\* One row of the summary, of what the days say.
Summary(daily) ==
  LET effective == {r \in daily : r.rank # NaN}
      binned == {r \in effective : r.monotonicity # NaN}
      mean(name, S) == Average([r \in S |-> r[name]], S)
      total(name) == Sum([r \in daily |-> r[name]], daily)
      ranks == [r \in effective |-> r.rank]
      monthly == {<<m, mean("rank", {r \in effective : Month(r.day) = m})>> :
                    m \in {Month(r.day) : r \in effective}}
      months == [m \in monthly |-> m[2]]
      direction == Sign(mean("rank", effective))
  IN  [coverage |-> Rate(total("paired"), total("observed")),
       icMean |-> mean("ic", effective),
       rankIc |-> mean("rank", effective),
       rankIr |-> InfoRatio(ranks, effective),
       monthlyMean |-> Average(months, monthly),
       monthlyPositive |-> PositiveRate(months, monthly),
       hit |-> HitRate(months, monthly, direction),
       monotonicity |-> mean("monotonicity", binned),
       spread |-> mean("spread", binned),
       direction |-> direction]

\* A row of each day of a factor and its months, the detail beside the summary.
Monthly(rows, days) ==
  LET x == Column(rows, "x")
      y == Column(rows, "label")
      valid(d) == Known(x, OfDay(rows, d))
      listed == {d \in days : Cardinality(valid(d)) >= 2}
      rank == [d \in listed |-> RankCorrelation(x, y, valid(d))]
  IN  [m \in {Month(d) : d \in listed} |->
         Average(rank, Known(rank, {d \in listed : Month(d) = m}))]

\* The summary of a segment; None of a segment without rows.
SegmentSummary(rows, segment, bins) ==
  LET days == {d \in DaysOf(rows) : d \in segment.from..segment.to}
  IN  IF days = {} THEN None ELSE Summary({Daily(rows, d, bins) : d \in days})

\* What the segments of a factor have in common.
Comparison(summaries) ==
  LET listed == {n \in DOMAIN summaries : summaries[n] # None}
      rank == [n \in listed |-> summaries[n].rankIc]
      hit == [n \in listed |-> summaries[n].hit]
      ranked == {rank[n] : n \in Known(rank, listed)}
      sizes == {Magnitude(a) : a \in ranked}
  IN  [flip |-> {-1, 1} \subseteq {summaries[n].direction : n \in listed},
       range |-> IF ranked = {} THEN NaN ELSE Max(ranked) - Min(ranked),
       absMax |-> IF ranked = {} THEN NaN ELSE Max(sizes),
       absMin |-> IF ranked = {} THEN NaN ELSE Min(sizes),
       hitMean |-> Average(hit, Known(hit, listed))]

\* The files of a run over these rows: the summary, the months beside it, the
\* summaries of the segments and their comparison. None if there is no row.
Files(rows, run) ==
  LET bins == Upper(run.bins, 2)
      segments == [n \in DOMAIN run.segments |-> SegmentSummary(rows, run.segments[n], bins)]
  IN  IF DOMAIN rows = {} THEN None
      ELSE [summary |-> Summary({Daily(rows, d, bins) : d \in DaysOf(rows)}),
            months |-> Monthly(rows, DaysOf(rows)),
            segments |-> segments,
            comparison |-> Comparison(segments)]

\* One run.
Evidence(store, run) == IF run.from > run.to THEN None ELSE Files(Examined(store, run), run)

-----------------------------------------------------------------------------
(* Selection. A row of a summary read back from its file has the factor's  *)
(* evidence; comparisons with NaN are false, so that what is not known     *)
(* fails no threshold.                                                     *)

\* The row of a factor, with the columns of the segments if they are given.
SummaryRow(name, prefix, evidence, withSegments) ==
  LET s == evidence.summary
      c == evidence.comparison
      given(a) == IF withSegments THEN a ELSE NaN
  IN  [name |-> name, prefix |-> prefix, coverage |-> s.coverage, rankIc |-> s.rankIc,
       rankIr |-> s.rankIr, hit |-> s.hit, monthlyPositive |-> s.monthlyPositive,
       monotonicity |-> s.monotonicity, flip |-> withSegments /\ c.flip,
       segHit |-> given(c.hitMean), segRange |-> given(c.range), segAbsMax |-> given(c.absMax)]

Below(a, b) == NaN \notin {a, b} /\ a < b

MinKnown(a, b) == IF a = NaN THEN b ELSE IF b = NaN THEN a ELSE Lower(a, b)
MaxKnown(a, b) == IF a = NaN THEN b ELSE IF b = NaN THEN a ELSE Upper(a, b)
Signed(direction, a) == IF a = NaN THEN NaN ELSE direction * a

RateOfBoth(raw, neutral) ==
  [f \in {"coverage", "hit", "monthlyPositive", "segHit", "segAbsMax"} |->
     MinKnown(raw[f], neutral[f])]

\* One row from the evidence with and without industries: the worse of both,
\* in the direction they agree on.
RobustRow(raw, neutral) ==
  LET consistent == Sign(raw.rankIc) = Sign(neutral.rankIc) /\ Sign(raw.rankIc) # 0
      direction == IF consistent THEN Sign(raw.rankIc) ELSE 0
      size(f) == MinKnown(Magnitude(raw[f]), Magnitude(neutral[f]))
      rates == RateOfBoth(raw, neutral)
  IN  [name |-> raw.name, prefix |-> raw.prefix,
       flip |-> raw.flip \/ neutral.flip \/ ~consistent,
       coverage |-> rates.coverage, hit |-> rates.hit,
       monthlyPositive |-> rates.monthlyPositive, segHit |-> rates.segHit,
       segAbsMax |-> rates.segAbsMax,
       segRange |-> MaxKnown(raw.segRange, neutral.segRange),
       rankIc |-> Signed(direction, size("rankIc")),
       rankIr |-> Signed(direction, size("rankIr")),
       monotonicity |-> Signed(direction, size("monotonicity"))]

\* Factors of both summaries; None if there is none.
RobustSummary(raw, neutral) ==
  LET both == {r \in raw : \E n \in neutral : n.name = r.name}
  IN  IF both = {} THEN None
      ELSE {RobustRow(r, CHOOSE n \in neutral : n.name = r.name) : r \in both}

\* The thresholds on segments are None unless they are asked for.
Passes(row, limits) ==
  /\ ~Below(row.coverage, limits.coverage)
  /\ ~(Below(Magnitude(row.rankIc), limits.rankIc) /\ Below(Magnitude(row.rankIr), limits.rankIr))
  /\ ~Below(row.hit, limits.hit)
  /\ limits.segHit # None => ~Below(row.segHit, limits.segHit)
  /\ limits.segRange # None => ~Below(limits.segRange, row.segRange)
  /\ ~(limits.noFlip /\ row.flip)

Prefiltered(rows, limits) == {r \in rows : Passes(r, limits)}

\* What factors are ranked by: smaller is better, unknown is worst.
Keys(row) ==
  LET up(a) == IF a = NaN THEN <<1, 0>> ELSE <<0, a>>
      down(a) == IF a = NaN THEN <<1, 0>> ELSE <<0, -a>>
  IN  <<<<0, IF row.flip THEN 1 ELSE 0>>, down(row.segHit), up(row.segRange), down(row.segAbsMax),
        down(Magnitude(row.rankIr)), down(Magnitude(row.rankIc)),
        down(Magnitude(row.monotonicity)), down(row.monthlyPositive), down(row.coverage),
        <<0, row.prefix>>, <<0, row.name>>>>

Better(r, q) ==
  LET a == Keys(r)
      b == Keys(q)
      less(m, n) == m[1] < n[1] \/ (m[1] = n[1] /\ m[2] < n[2])
  IN  \E n \in DOMAIN a : less(a[n], b[n]) /\ \A m \in 1..(n - 1) : a[m] = b[m]

Ranked(rows) ==
  [n \in 1..Cardinality(rows) |->
     CHOOSE r \in rows : Cardinality({q \in rows : Better(q, r)}) = n - 1]

\* Of a group of duplicates the best ranked factor stays.
WithoutDuplicates(ranking, groups) ==
  Surviving(ranking, {p \in Range(ranking) \X Range(ranking) :
                        \E g \in groups : {p[1].name, p[2].name} \subseteq g})

\* Ranks within a day, as shares of the factors known on it.
Percentile(f) ==
  [k \in DOMAIN f |->
     IF f[k] = NaN THEN NaN
     ELSE LET day == Known(f, {j \in DOMAIN f : j[1] = k[1]})
          IN  (Scale * Ranks(f, day)[k]) \div Cardinality(day)]

Likeness(columns, inRanks, r, q) ==
  LET column(n) == IF inRanks THEN Percentile(columns[n]) ELSE columns[n]
      f == column(r.name)
      g == column(q.name)
  IN  Magnitude(Correlation(f, g, Known(f, DOMAIN f) \cap Known(g, DOMAIN g)))

Alike(columns, inRanks, q, r, limit) ==
  LET c == Likeness(columns, inRanks, r, q) IN c # NaN /\ ~Below(c, limit)

\* In the order of the ranking a factor goes if it is like one that stayed.
Pruned(ranking, columns, inRanks, limit) ==
  Surviving(ranking, {p \in Range(ranking) \X Range(ranking) :
                        Alike(columns, inRanks, p[1], p[2], limit)})

\* The factors of the days and symbols the selection is made on.
Columns(stores, run) == [n \in DOMAIN stores |-> Column(Loaded(stores[n], run), "x")]

\* What a profile may hold; None where no factor is left.
Limited(selected, maxFeatures) ==
  LET taken == SubSeq(selected, 1, IF maxFeatures = None THEN Len(selected)
                                   ELSE Lower(maxFeatures, Len(selected)))
  IN  IF taken = <<>> THEN None ELSE taken

\* The columns of the profile.
Profile(rows, stores, run, choice) ==
  LET kept == WithoutDuplicates(Ranked(Prefiltered(rows, choice.limits)), choice.groups)
  IN  IF rows = None THEN None
      ELSE Limited(Pruned(kept, Columns(stores, run), choice.inRanks, choice.maxCorr),
                   choice.maxFeatures)

-----------------------------------------------------------------------------
(* Where the evidence comes from. An output directory is [summary,         *)
(* comparison, manifest]: the days each is about, None for a file that is  *)
(* not there; a manifest also names the period.                            *)

NoDirectory == [summary |-> None, comparison |-> None, manifest |-> None]

\* A run writes the summary, the comparison if it has segments, and the
\* manifest last; what an earlier run left is overwritten or stays. It may be
\* killed after `written` of the three.
Written(dir, run, written) ==
  LET days == <<run.from, run.to>>
  IN  [summary |-> IF written >= 1 THEN days ELSE dir.summary,
       comparison |-> IF written >= 2 /\ run.segmented THEN days ELSE dir.comparison,
       manifest |-> IF written >= 3 THEN [period |-> run.period, days |-> days]
                    ELSE dir.manifest]

InTraining(time, days) == days[1] >= time["train"][1] /\ days[2] <= time["train"][2]

\* A bug: the period that a manifest names is enough.
TrustsPeriod(time, dir) == dir.manifest # None /\ dir.manifest.period = "train"

ProvenTraining(time, dir) ==
  /\ dir.manifest # None
  /\ dir.manifest.period = "train"
  /\ InTraining(time, dir.manifest.days)

\* Whether a profile may be written to the configuration.
MayWrite(time, days, dirs, allowUnsafe) ==
  \/ allowUnsafe
  \/ /\ InTraining(time, days)
     /\ \A n \in DOMAIN dirs : ProvenTraining(time, dirs[n])
=============================================================================
