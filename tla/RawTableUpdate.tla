---------------------------- MODULE RawTableUpdate ----------------------------
(***************************************************************************)
(* update_raw_table: one symbol's raw parquet file of one stage, brought   *)
(* up to a target date by successive collector runs against a provider     *)
(* that publishes rows in date order and may fail.                         *)
(*                                                                         *)
(* A row is [date, period]: the date column (trade_date or ann_date) and,  *)
(* for event stages, the reporting period (end_date) that tells two events *)
(* announced on one day apart; the rows of market stages have period 0.  The file   *)
(* is a set of rows, {} when it does not exist; `schemaOk` says that it    *)
(* has all required columns.                                               *)
(***************************************************************************)
EXTENDS Integers, FiniteSets, FiniteSetsExt

CONSTANTS
    NDates,            \* dates are 1..NDates; 1 is DEFAULT_START_DATE
    Kinds,             \* kinds of stage: "market", "stk_limit", "event"
    Periods,           \* reporting periods of events
    ExpectedStarts     \* expected_start_date values of the callers; 0 is None

ASSUME TableAssumption ==
    /\ NDates \in Nat \ {0}
    /\ Kinds # {} /\ Kinds \subseteq {"market", "stk_limit", "event"}
    /\ Periods # {} /\ Periods \subseteq Nat /\ IsFiniteSet(Periods)
    /\ ExpectedStarts # {} /\ ExpectedStarts \subseteq 0..NDates

Dates == 1..NDates

VARIABLES
    kind,       \* the stage the file belongs to
    provider,   \* all the rows the provider will ever have
    published,  \* the last date whose rows it has published
    file, schemaOk,
    expected,   \* expected_start_date of this caller
    target,     \* target_end_date of the last run
    answer      \* what the last run returned

vars == <<kind, provider, published, file, schemaOk, expected, target, answer>>

\* what the stages pass to update_raw_table
RefetchOnMismatch == kind = "stk_limit"
AllowEmpty == kind = "event"
Rows == [date : Dates, period : IF kind = "event" THEN Periods ELSE {0}]

Smaller(a, b) == IF a < b THEN a ELSE b
DatesOf(rows) == {r.date : r \in rows}
\* earliest and latest date of the file; of no file, past both ends
Earliest == Min(DatesOf(file) \cup {NDates + 1})
Latest == Max(DatesOf(file) \cup {0})
Available(rows, from, to) == {r \in rows : r.date \in from..to}

\* a fetched frame is sorted by date, then period
LastOfEachDate(rows) ==
    {r \in rows : \A q \in rows : q.date = r.date => q.period <= r.period}

\* _normalize_symbol_date_frame: existing rows first, of each date the last row
Normalize(existing, fetched) ==
    {r \in existing : r.date \notin DatesOf(fetched)} \cup LastOfEachDate(fetched)

\* A file left by earlier runs: some run of the provider's dates, complete.
Init ==
    /\ kind \in Kinds
    /\ provider \in SUBSET Rows
    /\ published \in 0..NDates
    /\ \E from, to \in Dates :
          file = LastOfEachDate(Available(provider, from, Smaller(to, published)))
    /\ schemaOk \in BOOLEAN
    /\ expected \in ExpectedStarts
    /\ target = 0
    /\ answer = "none"
-----------------------------------------------------------------------------
\* the provider publishes another date
Publish ==
    /\ published < NDates
    /\ published' = published + 1
    /\ UNCHANGED <<kind, provider, file, schemaOk, expected, target, answer>>

\* the required columns grow between two versions of the collector
RequireColumns ==
    /\ file # {} /\ schemaOk
    /\ schemaOk' = FALSE
    /\ UNCHANGED <<kind, provider, published, file, expected, target, answer>>

NeedsFuture(t) == Latest < t
NeedsBackfill == expected # 0 /\ Earliest > expected
SchemaMissing == file # {} /\ ~schemaOk
Refetching == SchemaMissing /\ RefetchOnMismatch

Return(t, result) ==
    /\ target' = t
    /\ answer' = result
    /\ UNCHANGED <<kind, provider, published, expected>>

UpToDate(t) ==
    /\ ~NeedsFuture(t) /\ ~NeedsBackfill /\ ~SchemaMissing
    /\ Return(t, "up-to-date")
    /\ UNCHANGED <<file, schemaOk>>

\* only columns are missing: rewrite the file with them, without a fetch
NormalizeSchema(t) ==
    /\ SchemaMissing /\ ~RefetchOnMismatch
    /\ ~NeedsFuture(t) /\ ~NeedsBackfill
    /\ schemaOk' = TRUE
    /\ Return(t, "normalized")
    /\ UNCHANGED file

\* Bugs: a refetch starts like a first fetch, a backfill is skipped while new
\* dates are missing too.
FetchStartAnew(t) ==
    IF file # {} /\ NeedsFuture(t) /\ ~NeedsBackfill THEN Latest + 1
    ELSE IF expected # 0 THEN expected ELSE 1
FetchStartForward(t) ==
    IF Refetching THEN Earliest
    ELSE IF file # {} /\ NeedsFuture(t) THEN Latest + 1
    ELSE IF expected # 0 THEN expected ELSE 1

FetchStart(t) ==
    IF Refetching THEN Earliest
    ELSE IF file # {} /\ NeedsFuture(t) /\ ~NeedsBackfill THEN Latest + 1
    ELSE IF expected # 0 THEN expected ELSE 1

FetchEnd(t) ==
    IF file # {} /\ ~Refetching /\ NeedsBackfill /\ ~NeedsFuture(t)
      THEN Earliest - 1 ELSE t

Fetch(t) == Available({r \in provider : r.date <= published}, FetchStart(t), FetchEnd(t))

FetchNeeded(t) ==
    \/ NeedsFuture(t)
    \/ NeedsBackfill
    \/ Refetching

NothingToAsk(t) ==
    /\ FetchNeeded(t)
    /\ FetchStart(t) > FetchEnd(t)
    /\ Return(t, "unchanged")
    /\ UNCHANGED <<file, schemaOk>>

FetchedEmpty(t) ==
    /\ FetchNeeded(t)
    /\ FetchStart(t) <= FetchEnd(t)
    /\ Fetch(t) = {}
    /\ LET existing == IF Refetching THEN {} ELSE file
       IN  Return(t, IF AllowEmpty THEN "unchanged"
                     ELSE IF existing = {} THEN "error"
                     ELSE IF NeedsBackfill /\ ~NeedsFuture(t) THEN "exhausted"
                     ELSE "unchanged")
    /\ UNCHANGED <<file, schemaOk>>

FetchedRows(t) ==
    /\ FetchNeeded(t)
    /\ FetchStart(t) <= FetchEnd(t)
    /\ Fetch(t) # {}
    /\ file' = Normalize(IF Refetching THEN {} ELSE file, Fetch(t))
    /\ schemaOk' = TRUE
    /\ Return(t, "saved")

\* the fetcher raises; the file is replaced atomically or not at all
FetchFails(t) ==
    /\ FetchNeeded(t)
    /\ FetchStart(t) <= FetchEnd(t)
    /\ Return(t, "error")
    /\ UNCHANGED <<file, schemaOk>>

Update(t) ==
    \/ UpToDate(t)
    \/ NormalizeSchema(t)
    \/ NothingToAsk(t)
    \/ FetchedEmpty(t)
    \/ FetchedRows(t)
    \/ FetchFails(t)

Next ==
    \/ Publish
    \/ RequireColumns
    \/ \E t \in Dates : Update(t)

Spec == Init /\ [][Next]_vars
-----------------------------------------------------------------------------
NoGap == DatesOf(Available(provider, Earliest, Latest)) = DatesOf(file)
OneRowADate == \A r, q \in file : r.date = q.date => r = q
DatesKept == DatesOf(file) \subseteq DatesOf(file')

\* However backfills, forward fetches, failures and new columns follow each
\* other, they meet: between its first and its last date the file has one row
\* for every date the provider has one for. And no run loses a date the file
\* had, unless it refetches a file of an older schema for a target before the
\* file's end.
FileStaysWhole ==
    /\ [](NoGap /\ OneRowADate)
    /\ [][DatesKept \/ (Refetching /\ target' < Latest)]_vars

\* A run that reports success leaves nothing to fetch up to its target, from
\* the expected start (or, after a schema refetch, from the file's start).
SuccessIsComplete ==
    [][\A t \in Dates :
          Update(t) /\ answer' \in {"up-to-date", "unchanged", "saved", "exhausted"} =>
            LET from == IF Refetching \/ (expected = 0 /\ file # {}) THEN Earliest
                        ELSE IF expected = 0 THEN 1 ELSE expected
            IN  DatesOf(Available(provider, from, Smaller(t, published)))
                  \subseteq DatesOf(file')]_vars

\* tests/test_collector_tushare.py:350: the event frame keeps distinct end
\* dates under the same announcement date.  Here: an event the fetcher
\* returned is in the file that the run saves.
EventsKept ==
    [][\A t \in Dates : FetchedRows(t) => Fetch(t) \subseteq file']_vars
=============================================================================
