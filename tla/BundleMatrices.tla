--------------------------- MODULE BundleMatrices ---------------------------
(***************************************************************************)
(* From the files of a prediction bundle to what a backtest runs on        *)
(* (prediction_bundle.rs and run_bundle.rs): reading long rows into a      *)
(* matrix, fusing the scores of two bundles, bringing scores, labels and   *)
(* baselines to common axes, and leaving out the days nothing happened on. *)
(*                                                                         *)
(* A matrix is [days, names, at]: at[d][i] is the value of day d and       *)
(* instrument i, NaN where there is none. A mask says which cells of a     *)
(* fused matrix exist.                                                     *)
(***************************************************************************)
EXTENDS Integers, Sequences, FiniteSets

CONSTANTS NaN, None

Matrix(days, names, F(_, _)) ==
  [days |-> days, names |-> names, at |-> [d \in days |-> [i \in names |-> F(d, i)]]]

\* The error value: an Err of the code.
Error == [days |-> {}, names |-> {}, at |-> <<>>]

-----------------------------------------------------------------------------
(* Reading a bundle.                                                       *)

\* Rows are [day, name, value]; a cell given twice is an error.
FromRows(rows) ==
  LET keys == {<<rows[k].day, rows[k].name>> : k \in DOMAIN rows}
      days == {key[1] : key \in keys}
      names == {key[2] : key \in keys}
      value(d, i) ==
        IF <<d, i>> \in keys
        THEN rows[CHOOSE k \in DOMAIN rows : rows[k].day = d /\ rows[k].name = i].value
        ELSE NaN
  IN  IF Cardinality(keys) < Len(rows) THEN Error ELSE Matrix(days, names, value)

\* A bug: the native trainer's bundles need no proof.
LabelMetadataTrusting(meta) ==
  LET horizon == IF meta.horizon # None THEN meta.horizon ELSE meta.backtestColumn
  IN  horizon # None => horizon = 1

\* What the metadata must say of the labels: their horizon is a day, they
\* are not the column a longer signal was trained on, and a bundle of the
\* native trainer with a longer signal proves that they are daily.
LabelMetadataOk(meta) ==
  LET horizon == IF meta.horizon # None THEN meta.horizon ELSE meta.backtestColumn
      signal == IF meta.signalHorizon = None THEN 1 ELSE meta.signalHorizon
  IN  /\ horizon # None => horizon = 1
      /\ ~(/\ signal > 1
           /\ meta.labelColumn # None
           /\ meta.labelColumn = meta.backtestColumn)
      /\ ~(meta.native /\ signal > 1 /\ horizon = None /\ ~meta.saysDaily)

-----------------------------------------------------------------------------
(* Fusion with a secondary bundle.                                         *)

Pairs(primary, secondary) ==
  {p \in (primary.days \cap secondary.days) \X (primary.names \cap secondary.names) :
     primary.at[p[1]][p[2]] # NaN /\ secondary.at[p[1]][p[2]] # NaN}

\* A bug: scores are ranked over all days together.
RankOverAll(m, pairs, d, i) ==
  LET below == {p \in pairs : m.at[p[1]][p[2]] < m.at[d][i]}
      upTo == {p \in pairs : m.at[p[1]][p[2]] <= m.at[d][i]}
  IN  ((Cardinality(below) + 1 + Cardinality(upTo)) * 6) \div (2 * Cardinality(pairs))

\* The average rank of a score among the pairs of its day, in sixths.
RankOfDay(m, pairs, d, i) ==
  LET day == {p \in pairs : p[1] = d}
      below == {p \in day : m.at[d][p[2]] < m.at[d][i]}
      upTo == {p \in day : m.at[d][p[2]] <= m.at[d][i]}
  IN  ((Cardinality(below) + 1 + Cardinality(upTo)) * 6) \div (2 * Cardinality(day))

FusionValue(m, pairs, transform, d, i) ==
  IF transform = "rank_pct" THEN RankOfDay(m, pairs, d, i) ELSE m.at[d][i]

\* Powers are 1; a blend weighs both sides alike, in halves.
Fused(primary, secondary, cfg) ==
  LET pairs == Pairs(primary, secondary)
      days == {p[1] : p \in pairs}
      names == {p[2] : p \in pairs}
      value(d, i) ==
        LET a == FusionValue(primary, pairs, cfg.primaryTransform, d, i)
            b == FusionValue(secondary, pairs, cfg.secondaryTransform, d, i)
        IN  CASE <<d, i>> \notin pairs -> NaN
              [] cfg.mode = "multiply" -> a * b
              [] cfg.mode = "blend" -> (a + b) \div 2
              [] cfg.mode = "filter" -> IF b < cfg.threshold THEN cfg.filterValue ELSE a
  IN  IF pairs = {} THEN Error ELSE Matrix(days, names, value)

-----------------------------------------------------------------------------
(* Alignment.                                                              *)

CommonAxes(matrices) ==
  [days |-> {d \in UNION {m.days : m \in matrices} : \A m \in matrices : d \in m.days},
   names |-> {i \in UNION {m.names : m \in matrices} : \A m \in matrices : i \in m.names}]

Project(m, axes, mask) ==
  LET value(d, i) ==
        IF <<d, i>> \in mask /\ d \in m.days /\ i \in m.names THEN m.at[d][i] ELSE NaN
  IN  Matrix(axes.days, axes.names, value)

Whole(axes) == axes.days \X axes.names

\* Scores, labels and baselines of a run on the axes all of them share; what
\* the fused scores do not cover is masked out of the labels as well.
Prepared(bundle, secondary, fusion) ==
  LET scores == IF fusion = None THEN bundle.predictions
                ELSE Fused(bundle.predictions, secondary, fusion)
      axes == CommonAxes({scores, bundle.labels} \cup bundle.baselines)
      mask == IF fusion = None THEN Whole(axes)
              ELSE Pairs(bundle.predictions, secondary) \cap Whole(axes)
  IN  [scores |-> Project(scores, axes, mask),
       labels |-> Project(bundle.labels, axes, mask),
       baselines |-> {Project(b, axes, mask) : b \in bundle.baselines}]

Usable(prepared) ==
  prepared.scores.days # {} /\ prepared.scores.names # {}

\* A bug: labels without a baseline score are masked out, as fusion does.
FixedWhereScored(bundle) ==
  LET axes == CommonAxes({bundle.labels} \cup bundle.baselines)
      scored == {p \in Whole(axes) : \A b \in bundle.baselines : b.at[p[1]][p[2]] # NaN}
  IN  [labels |-> Project(bundle.labels, axes, scored),
       baselines |-> {Project(b, axes, scored) : b \in bundle.baselines}]

\* The baselines at fixed risk do not depend on the strategy's scores: their
\* axes are those of the labels and the baselines.
FixedBaselines(bundle) ==
  LET axes == CommonAxes({bundle.labels} \cup bundle.baselines)
  IN  [labels |-> Project(bundle.labels, axes, Whole(axes)),
       baselines |-> {Project(b, axes, Whole(axes)) : b \in bundle.baselines}]

\* A backtest runs over the days with at least one return.
CoreDays(scores, labels) ==
  {d \in scores.days : \E i \in labels.names : labels.at[d][i] # NaN}
=============================================================================
