---------------------------- MODULE SourceTables ----------------------------
(***************************************************************************)
(* The rows of the processed tables and of the packed source               *)
(* (build_processed_rows, build_akshare_processed_rows, the symbol         *)
(* augmentation and the industry context of ai4stock_collect.rs).          *)
(*                                                                         *)
(* Prices are small numbers; a statistic is the tuple of what it is taken  *)
(* of, since the properties ask only which values go into which row. All   *)
(* columns of one origin stand for one.                                    *)
(***************************************************************************)
EXTENDS Integers, Sequences, FiniteSets

CONSTANTS
  NaN, None,
  Window       \* days of the one rolling window (20 and 60 in the code)

Latest(S) == CHOOSE d \in S : \A e \in S : e <= d
Earliest(S) == CHOOSE d \in S : \A e \in S : d <= e

Times(x, factor) == IF x = NaN THEN NaN ELSE x * factor
Known(x) == x # NaN

\* The rows of a raw table, one per date; a missing file but the daily one
\* is an empty table.
Row(table, d) == IF d \in DOMAIN table THEN table[d] ELSE None

-----------------------------------------------------------------------------
(* Processed rows. raw: the tables of a symbol, each by date.              *)

\* A day without an adjustment factor has factor 1.
Factor(raw, d) ==
  IF Row(raw.factor, d) \in {None, NaN} THEN 1 ELSE raw.factor[d]

AdjustedClose(raw, d) == Times(raw.daily[d].close, Factor(raw, d))

\* The close of the row before is taken for the previous close, adjusted as
\* that row was; that of the exchange only where there is none.
PreClose(raw, d) ==
  LET earlier == {e \in DOMAIN raw.daily : e < d}
      fallback == Times(raw.daily[d].preClose, Factor(raw, d))
  IN  IF earlier = {} THEN fallback
      ELSE LET before == AdjustedClose(raw, Latest(earlier))
           IN  IF Known(before) THEN before ELSE fallback

\* A day without a limit or valuation row has zeros, not missing values.
OrDefault(table, d) == IF Row(table, d) = None THEN 0 ELSE table[d]

ProcessedRow(raw, d) ==
  [close |-> AdjustedClose(raw, d),
   preClose |-> PreClose(raw, d),
   upLimit |-> Times(OrDefault(raw.limit, d), Factor(raw, d)),
   basic |-> OrDefault(raw.basic, d)]

\* AkShare: the close of the valuation table stands in for a missing one.
AkshareRow(raw, d) ==
  LET val == Row(raw.basic, d)
  IN  [close |-> IF Known(raw.daily[d].close) \/ val = None THEN raw.daily[d].close ELSE val,
       valuation |-> IF val = None THEN NaN ELSE val]

-----------------------------------------------------------------------------
(* Announced events. An event counts from the first day the symbol trades  *)
(* after the announcement; of those that have come into effect the last in *)
(* the order of these days, then of the file, is shown.                    *)

\* A bug: the event counts on the day of its announcement.
AvailableAtOnce(days, event) ==
  LET later == {d \in days : d >= event.ann}
  IN  IF later = {} THEN None ELSE Earliest(later)

Available(days, event) ==
  LET later == {d \in days : d > event.ann}
  IN  IF later = {} THEN None ELSE Earliest(later)

InEffect(days, events, d) ==
  {n \in DOMAIN events : Available(days, events[n]) # None /\ Available(days, events[n]) <= d}

Current(days, events, d) ==
  CHOOSE n \in InEffect(days, events, d) : \A k \in InEffect(days, events, d) :
    \/ Available(days, events[k]) < Available(days, events[n])
    \/ Available(days, events[k]) = Available(days, events[n]) /\ k <= n

\* What the columns of the stage say on day d: the event and its age, which
\* the forecast and express stages have a column for.
Sidecar(days, events, d) ==
  IF InEffect(days, events, d) = {} THEN None
  ELSE LET event == events[Current(days, events, d)]
       IN  <<event.value, d - event.ann>>

-----------------------------------------------------------------------------
(* The industry context. market: symbol |-> its tables; industry: symbol   *)
(* |-> its industry.                                                       *)

\* The return of a day, NaN on the first and after a missing close.
Return(raw, d) ==
  LET earlier == {e \in DOMAIN raw.daily : e < d}
  IN  IF earlier = {} THEN NaN
      ELSE LET before == AdjustedClose(raw, Latest(earlier))
               close == AdjustedClose(raw, d)
           IN  IF ~Known(before) \/ before = 0 \/ ~Known(close) THEN NaN
               ELSE <<before, close>>

\* What a member's row adds to the sums of its industry: return, limit and
\* valuation metrics, and ratios to the events in effect.
Contribution(raw, d) ==
  <<Return(raw, d), ProcessedRow(raw, d), Sidecar(DOMAIN raw.daily, raw.events, d)>>

Returning(market, d) ==
  {s \in DOMAIN market : d \in DOMAIN market[s].daily /\ Known(Return(market[s], d))}

MembersOn(market, industry, i, d) == {s \in Returning(market, d) : industry[s] = i}

IndustryDays(market, industry, i, until) ==
  {d \in 0..until : MembersOn(market, industry, i, d) # {}}

\* The last Window of some days.
LastDays(days) == {d \in days : Cardinality({e \in days : e > d}) < Window}

DailyMean(market, members, d) == {<<s, Contribution(market[s], d)>> : s \in members}

\* Rolling means are over the days the industry has, the return of the
\* market over the days the market has.
RollingContext(market, industry, i, d) ==
  <<{<<e, DailyMean(market, MembersOn(market, industry, i, e), e)>> :
       e \in LastDays(IndustryDays(market, industry, i, d))},
    {<<e, DailyMean(market, Returning(market, e), e)>> :
       e \in LastDays({e \in 0..d : Returning(market, e) # {}})}>>

\* The row joined to a day of the symbol is the last the industry has by then.
IndustryContext(market, industry, i, d) ==
  LET days == IndustryDays(market, industry, i, d)
  IN  IF days = {} THEN None
      ELSE <<Latest(days), RollingContext(market, industry, i, Latest(days))>>

\* A row of the packed source.
SourceRow(market, industry, s, d) ==
  [processed |-> ProcessedRow(market[s], d),
   events |-> Sidecar(DOMAIN market[s].daily, market[s].events, d),
   context |-> IndustryContext(market, industry, industry[s], d)]
=============================================================================
