---------------------------- MODULE FactorKernels ----------------------------
(***************************************************************************)
(* The built-in factors of one symbol (factor_kernels.rs,                  *)
(* feature_kernels.rs, build_builtin_feature_columns).                     *)
(*                                                                         *)
(* A value is NaN or the set of source cells <<column, row>> it is         *)
(* computed from: what the properties ask of a factor is which rows it     *)
(* reads and when it is missing. Columns of one origin stand for one; x is *)
(* a record of series, and of the cells that hold a zero.                  *)
(***************************************************************************)
EXTENDS Integers, Sequences, FiniteSets, Functions

CONSTANT NaN

-----------------------------------------------------------------------------
(* Operations on series.                                                   *)

\* Arithmetic is missing when an operand is; comparisons, maxima and filled
\* values take what there is.
Strict(V) == IF NaN \in V THEN NaN ELSE UNION V
Lenient(V) == UNION (V \ {NaN})
SkipMissing(V) == IF V \subseteq {NaN} THEN NaN ELSE Lenient(V)

Rows(S) == DOMAIN (CHOOSE s \in S : TRUE)
Each(S) == [t \in Rows(S) |-> Strict({s[t] : s \in S})]
Flag(S) == [t \in Rows(S) |-> Lenient({s[t] : s \in S})]

Filled(s) == Flag({s})

\* A zero is not an observation; a minimum is zero if any cell is, a
\* maximum if all are.
NonZero(s, zero) ==
  [t \in DOMAIN s |-> IF s[t] # NaN /\ s[t] \cap zero # {} THEN NaN ELSE s[t]]
NotAllZero(s, zero) ==
  [t \in DOMAIN s |-> IF s[t] # NaN /\ s[t] \subseteq zero THEN NaN ELSE s[t]]

\* A bug: the row ahead.
ShiftAhead(s, w) == [t \in DOMAIN s |-> IF t + w \in DOMAIN s THEN s[t + w] ELSE NaN]
Shift(s, w) == [t \in DOMAIN s |-> IF t <= w THEN NaN ELSE s[t - w]]

Change(s, w) == Each({s, Shift(s, w)})
ShiftedRatio(s, d, w) == Each({Shift(s, w), d})

\* The last w rows that are observed, at least min of them: sums, means,
\* standard deviations, extremes, quantiles and regressions.
Rolling(s, w, min) ==
  [t \in DOMAIN s |->
    LET seen == {e \in DOMAIN s : t - w < e /\ e <= t /\ s[e] # NaN}
    IN  IF Cardinality(seen) < min THEN NaN ELSE UNION {s[e] : e \in seen}]

Mean(s, w) == Rolling(s, w, 1)
Std(s, w) == Rolling(s, w, 2)
Whole(s, w) == Rolling(s, w, w)

\* Of the rows where both are observed.
Corr(r, s, w) == Rolling(Each({r, s}), w, 2)
Rank(s, w) == Each({s, Mean(s, w)})

\* The position of a missing row is the extreme's, as numpy has it.
ArgExtreme(s, w) ==
  [t \in DOMAIN s |->
    LET window == {s[e] : e \in {e \in DOMAIN s : t - w < e /\ e <= t}}
    IN  IF window = {NaN} THEN NaN ELSE IF NaN \in window THEN {} ELSE UNION window]

Ewm(s, min) ==
  [t \in DOMAIN s |->
    LET seen == {e \in DOMAIN s : e <= t /\ s[e] # NaN}
    IN  IF s[t] = NaN \/ Cardinality(seen) < min THEN NaN ELSE UNION {s[e] : e \in seen}]

\* Rows since the last event, and rows of events up to now.
EventAge(s) == [t \in DOMAIN s |-> SkipMissing({s[e] : e \in {e \in DOMAIN s : e <= t}})]
EventStreak(s) == Filled(EventAge(s))

\* Components <<weight, series>>: missing when less than the given percentage
\* of the weight is observed.
Weighted(components, percent) ==
  LET weights == [n \in DOMAIN components |-> components[n][1]]
      Observed(t) == {n \in DOMAIN components : components[n][2][t] # NaN}
  IN  [t \in DOMAIN components[1][2] |->
        IF 100 * SumFunctionOnSet(weights, Observed(t)) < percent * SumFunction(weights) THEN NaN
        ELSE Lenient({components[n][2][t] : n \in DOMAIN components})]

TypicalPrice(x) == Each({x.high, x.low, NonZero(x.close, x.zero)})
TrueRange(x, close) ==
  [t \in DOMAIN close |->
    SkipMissing({Strict({x.high[t], x.low[t]}), Strict({x.high[t], Shift(close, 1)[t]}),
                 Strict({x.low[t], Shift(close, 1)[t]})})]

-----------------------------------------------------------------------------
(* Alpha158.                                                               *)

KbarPrice(x) ==
  [KMID |-> Each({x.close, x.open}), KLEN |-> Each({x.high, x.low, x.open}),
   KMID2 |-> Each({x.close, x.open, x.high, x.low}),
   KUP |-> Each({x.high, x.open, x.close}), KLOW |-> Each({x.low, x.open, x.close}),
   KUP2 |-> Each({x.close, x.open, x.high, x.low}),
   KSFT2 |-> Each({x.close, x.high, x.low}),
   OPEN0 |-> ShiftedRatio(x.open, x.close, 0), VWAP0 |-> ShiftedRatio(x.vwap, x.close, 0)]

AlphaLevels(x, w) ==
  LET low == Mean(x.low, w)
      high == Mean(x.high, w)
  IN  [ROC |-> ShiftedRatio(x.close, x.close, w), MA |-> Each({Mean(x.close, w), x.close}),
       STD |-> Each({Std(x.close, w), x.close}), BETA |-> Each({Std(x.close, w), x.close}),
       RSQR |-> Std(x.close, w), MAX |-> Each({high, x.close}), MIN |-> Each({low, x.close}),
       QTLU |-> Each({Mean(x.close, w), x.close}), RANK |-> Rank(x.close, w),
       RSV |-> Each({x.close, low, high})]

\* CORR also leaves out windows that hardly vary.
AlphaPositions(x, w) ==
  [IMAX |-> ArgExtreme(x.high, w), IMIN |-> ArgExtreme(x.low, w),
   IMXD |-> Each({ArgExtreme(x.high, w), ArgExtreme(x.low, w)}),
   CORR |-> Corr(x.close, x.volume, w),
   CORD |-> Corr(Change(x.close, 1), Change(x.volume, 1), w)]

AlphaFlows(x, w) ==
  LET value == Each({Change(x.close, 1), x.volume})
      sum == Mean(Change(x.volume, 1), w)
  IN  [CNTP |-> Mean(Flag({x.close, Shift(x.close, 1)}), w),
       SUMP |-> Mean(Change(x.close, 1), w), VSUMP |-> sum,
       VMA |-> Each({Mean(x.volume, w), x.volume}), VSTD |-> Each({Std(x.volume, w), x.volume}),
       WVMA |-> Each({Std(value, w), Mean(value, w)})]

-----------------------------------------------------------------------------
(* Purified, temporal and technical factors.                               *)

Amihud(x, close, w) == Mean(Each({Change(close, 1), x.amount}), w)

Purified(x, w) ==
  LET close == NonZero(x.close, x.zero)
      volume == NonZero(x.volume, x.zero)
  IN  [LGBM_ret |-> Change(close, w), LGBM_dist_ma |-> Each({close, Mean(close, w)}),
       LGBM_std |-> Std(Change(close, 1), w),
       LGBM_atr |-> Each({Mean(TrueRange(x, x.close), w), close}),
       LGBM_amihud |-> Amihud(x, close, w), LGBM_vol_ratio |-> Each({volume, Mean(volume, w)}),
       LGBM_corr_cv |-> Corr(close, x.volume, w),
       LGBM_vwap_ratio |-> Each({close, NonZero(x.vwap, x.zero)}),
       LGBM_ep_ttm |-> Filled(NonZero(x.valuation, x.zero)),
       LGBM_ep_ttm_clean |-> NonZero(x.valuation, x.zero),
       LGBM_turnover |-> Mean(x.turnover, w),
       LGBM_dist_high |-> Each({close, NotAllZero(Mean(x.high, w), x.zero)}),
       LGBM_dist_low |-> Each({close, NonZero(Mean(x.low, w), x.zero)})]

Temporal(x, w) ==
  LET close == NonZero(x.close, x.zero)
      volume == NonZero(x.volume, x.zero)
      high == Mean(NonZero(x.high, x.zero), w)
      low == Mean(NonZero(x.low, x.zero), w)
  IN  [TEMP_ret |-> Change(close, w), TEMP_ma_gap |-> Each({close, Mean(close, w)}),
       TEMP_std |-> Std(Change(close, 1), w), TEMP_rsv |-> Each({close, low, high}),
       TEMP_price_rank |-> Rank(close, w), TEMP_volume_ratio |-> Each({volume, Mean(volume, w)}),
       TEMP_turnover_mean |-> Mean(x.turnover, w), TEMP_amihud |-> Amihud(x, close, w),
       TEMP_high_gap |-> Each({close, high}), TEMP_low_gap |-> Each({close, low}),
       TEMP_corr_cv |-> Corr(close, volume, w)]

\* The averages keep the whole history: of these only when they begin.
Trends(x, w) ==
  LET close == NonZero(x.close, x.zero)
      line == Each({Ewm(close, w), Ewm(close, w + 1)})
      moves == Flag({x.high, Shift(x.high, 1), x.low, Shift(x.low, 1)})
      di == Each({Ewm(moves, w), Ewm(TrueRange(x, close), w)})
      trix == Change(Ewm(Ewm(Ewm(close, w), w), w), 1)
  IN  [macd_line |-> line, macd_signal |-> Ewm(line, w), macd_hist |-> Each({line, Ewm(line, w)}),
       rsi |-> Filled(Ewm(Change(close, 1), w)), plus_di |-> di, adx |-> Ewm(di, w),
       trix |-> trix, trix_signal |-> Ewm(trix, w), trix_hist |-> Each({trix, Ewm(trix, w)})]

Oscillators(x, w) ==
  LET close == NonZero(x.close, x.zero)
      price == TypicalPrice(x)
      flow == Flag({Change(price, 1), price, x.volume})
      signed == Flag({Change(close, 1), x.volume})
  IN  [boll_pos |-> Each({close, Whole(close, w)}), boll_width |-> Whole(close, w),
       mfi |-> Whole(flow, w), cci |-> Each({price, Whole(price, w)}),
       willr |-> Each({Whole(x.high, w), Whole(x.low, w), close}),
       aroon_osc |-> Each({Whole(x.high, w), Whole(x.low, w)}),
       obv_flow |-> Each({Whole(signed, w), Whole(Filled(x.volume), w)})]

-----------------------------------------------------------------------------
(* Tushare factors: limits, share structure, valuation, reports, industry. *)

Hit(x) == Each({NonZero(x.close, x.zero), x.limit})
Returns(x) == Change(NonZero(x.close, x.zero), 1)
Payout(x) == Each({x.div, NonZero(x.fi, x.zero)})

TsLevels(x, w) ==
  LET turnover == Each({x.turnover_free, NonZero(x.turnover, x.zero)})
      clean == NonZero(x.valuation, x.zero)
  IN  [gap_up_limit |-> Hit(x), limit_band_pct |-> x.limit, free_turnover_ratio |-> turnover,
       turnover_accel |-> Each({Mean(x.turnover, w), Mean(x.turnover, w + 1)}),
       ep |-> Filled(clean), ep_clean |-> clean, dividend_cash_to_eps |-> Payout(x)]

TsChanges(x, w) ==
  LET clean == NonZero(x.valuation, x.zero)
  IN  [limit_band_pos_mean |-> Mean(Hit(x), w), hit_up_limit_count |-> Mean(Hit(x), w),
       pct_chg_mean |-> Mean(x.turnover, w), ep_ttm_change |-> Change(Filled(clean), w),
       ep_ttm_clean_change |-> Change(clean, w),
       industry_rel_ret |-> Each({Change(NonZero(x.close, x.zero), w), x.ind}),
       stock_vs_industry_std_ratio |-> Each({Std(Returns(x), w), x.ind})]

TsSurprises(x, w) ==
  LET ratio == Each({x.turnover_free, NonZero(x.turnover, x.zero)})
      amihud == Each({Returns(x), x.amount})
      yield == Each({x.div, NonZero(x.close, x.zero)})
  IN  [free_turnover_ratio_zscore |-> Each({ratio, Mean(ratio, w), Std(ratio, w)}),
       amihud_term |-> Each({Mean(amihud, w), Mean(amihud, w + 1)}),
       dividend_cash_yield_proxy_surprise |-> Each({yield, Shift(Mean(yield, w), 1)})]

TsReports(x) ==
  [fi_profitability_combo |-> x.fi, fc_p_change_mid |-> x.fc,
   fc_surprise_fresh |-> Each({x.fc, x.age}), exp_growth_fresh |-> Each({x.exp, x.age})]

\* Age and streak of limit days keep the whole history.
TsPressure(x, w) ==
  LET masked == Each({x.turnover, Returns(x)})
  IN  [up_down_turnover_ratio |-> Mean(masked, w),
       return_turnover_corr |-> Corr(Returns(x), x.turnover, w),
       downside_turnover_pressure |-> Each({Mean(masked, w), Mean(x.turnover, w)}),
       near_up_limit_count |-> Mean(Flag({Hit(x)}), w)]
TsLimitAges(x) == [days_since_last_up_limit |-> EventAge(Hit(x)), up_limit_streak |-> EventStreak(Hit(x))]

TsIndustry(x, w) ==
  LET own == Change(NonZero(x.close, x.zero), w)
      gap == Each({own, x.ind})
  IN  [industry_breadth_accel |-> x.ind, stock_industry_ret_gap |-> gap,
       stock_relative_strength_quality |-> Each({gap, x.ind})]

Relative(s, x, w) == Each({Mean(s, w), x.ind})

TsRelative(x, w) ==
  LET turnover == Relative(x.turnover, x, w)
      free == Relative(x.turnover_free, x, w)
      amihud == Relative(Each({Returns(x), x.amount}), x, w)
      hits == Relative(Hit(x), x, w)
      std == Each({Std(Returns(x), w), x.ind})
  IN  [turnover_ratio |-> turnover, amihud_ratio |-> amihud, hit_up_limit_gap |-> hits,
       crowding |-> Weighted(<<<<25, turnover>>, <<25, free>>, <<20, turnover>>,
                               <<20, turnover>>, <<10, hits>>>>, 50),
       liquidity_stress |-> Weighted(<<<<45, amihud>>, <<25, amihud>>, <<20, turnover>>,
                                       <<10, hits>>>>, 50),
       low_vol_liquidity |-> Weighted(<<<<45, std>>, <<25, amihud>>, <<15, amihud>>,
                                        <<15, free>>>>, 50)]

\* What the symbol has over the mean of its industry.
TsSpreads(x, w) ==
  LET yield == Each({x.div, x.ind})
      clean == Each({NonZero(x.valuation, x.zero), x.ind})
  IN  [ep_minus_industry_ep |-> Each({Filled(NonZero(x.valuation, x.zero)), x.ind}),
       bp_clean_minus_industry |-> clean, dividend_yield_minus_industry |-> yield,
       dividend_yield_industry_spread_zscore |-> Each({yield, Mean(yield, w), Std(yield, w)}),
       fi_ocf_to_eps_minus_industry |-> Each({x.fi, x.ind})]

\* The grades composites are made of.
Quality(x) == LET rel == Each({x.fi, x.ind})
              IN  Weighted(<<<<35, x.fi>>, <<25, rel>>, <<20, x.fi>>, <<10, rel>>, <<20, x.fi>>>>, 50)
Value(x) == LET rel == Each({NonZero(x.valuation, x.zero), x.ind})
            IN  Weighted(<<<<100, rel>>, <<100, rel>>, <<25, Each({x.div, x.ind})>>>>, 50)
Growth(x) == Weighted(<<<<30, x.fi>>, <<25, x.fi>>, <<30, x.fi>>, <<15, x.fi>>, <<25, x.fi>>>>, 50)
Forecast(x) == Each({x.fc, x.age})
TrendQuality(x) == Weighted(<<<<35, x.ind>>, <<25, x.ind>>, <<25, x.ind>>, <<15, x.ind>>>>, 50)

\* How the turnover of falling days weighs on the stock.
Absorption(x, w) ==
  LET p == TsPressure(x, w)
  IN  Weighted(<<<<100, p.up_down_turnover_ratio>>, <<100, p.return_turnover_corr>>,
                 <<100, p.downside_turnover_pressure>>>>, 50)
Relief(x, w) ==
  LET p == TsPressure(x, w)
  IN  Weighted(<<<<100, Relative(Each({Returns(x), x.amount}), x, w)>>,
                 <<100, p.downside_turnover_pressure>>, <<100, p.near_up_limit_count>>>>, 50)

TsComposites(x, w) ==
  LET std == Each({Std(Returns(x), w), x.ind})
      payout == Weighted(<<<<50, Payout(x)>>, <<50, Payout(x)>>>>, 25)
      yield == Each({x.div, x.ind})
      counts == Mean(Hit(x), w)
  IN  [sem_value_quality_low_vol |-> Each({Value(x), Quality(x), std}),
       sem_dividend_cash_quality |-> Weighted(<<<<35, yield>>, <<30, yield>>, <<25, Quality(x)>>,
                                                <<10, payout>>>>, 50),
       sem_growth_cash_quality_accel |-> Each({Growth(x), Shift(Mean(Growth(x), w), 1)}),
       sem_forecast_unpriced |-> Each({Forecast(x), Change(NonZero(x.close, x.zero), w)}),
       sem_industry_strength_low_vol |-> Each({TrendQuality(x), std}),
       sem_liquidity_absorption |-> Absorption(x, w),
       sem_downside_liquidity_relief |-> Relief(x, w),
       sem_limit_breakout_quality |-> Weighted(<<<<100, counts>>, <<100, counts>>,
         <<100, TrendQuality(x)>>, <<100, TsPressure(x, w).near_up_limit_count>>>>, 50)]

\* Announced figures as they stand; ratios of them to the price.
TsLatest(x) ==
  [latest_eps |-> x.fi, latest_fc_net_profit |-> x.fc, latest_exp_revenue |-> x.exp,
   latest_div_cash_yield_proxy |-> Each({x.div, x.close}), has_stock_dividend |-> x.div]

-----------------------------------------------------------------------------
(* The columns of a store, and the ones left out as duplicates.            *)

\* Each column of one of the records.
Merged(records) ==
  [f \in UNION {DOMAIN r : r \in records} |-> (CHOOSE r \in records : f \in DOMAIN r)[f]]

Windowed(x, w) ==
  Merged({AlphaLevels(x, w), AlphaPositions(x, w), AlphaFlows(x, w), Purified(x, w),
          Temporal(x, w), Oscillators(x, w), TsLevels(x, w), TsChanges(x, w),
          TsSurprises(x, w), TsPressure(x, w), TsIndustry(x, w), TsRelative(x, w),
          TsSpreads(x, w), TsComposites(x, w), KbarPrice(x), TsReports(x), TsLatest(x)})

Unbounded(x, w) == Merged({Trends(x, w), TsLimitAges(x)})

\* A bug: standard deviations of price and of return are taken for one.
DuplicateGroupsLoose ==
  {<<"RSV", "TEMP_rsv">>, <<"STD", "TEMP_std">>}

\* <<canonical, duplicate>>: of a group the store keeps the first.
DuplicateGroups ==
  {<<"RSV", "TEMP_rsv">>, <<"CORR", "TEMP_corr_cv">>, <<"LGBM_ret", "TEMP_ret">>,
   <<"LGBM_dist_ma", "TEMP_ma_gap">>, <<"LGBM_std", "TEMP_std">>,
   <<"LGBM_amihud", "TEMP_amihud">>, <<"LGBM_turnover", "TEMP_turnover_mean">>,
   <<"LGBM_dist_high", "TEMP_high_gap">>, <<"LGBM_dist_low", "TEMP_low_gap">>}

Stored(names) == names \ {g[2] : g \in DuplicateGroups}

\* What training reads for a selected name (canonical_feature_source).
SourceOf(name) ==
  IF \E g \in DuplicateGroups : g[2] = name
  THEN (CHOOSE g \in DuplicateGroups : g[2] = name)[1] ELSE name
=============================================================================
