-------------------------- MODULE MCDataStores_proofs --------------------------
(***************************************************************************)
(* What update_raw_table keeps true of a raw file for every calendar,      *)
(* provider, order of targets and expected starts; and what the packed     *)
(* source and the factor store derived from it keep true for every set of  *)
(* symbols and buckets, every number of workers and any number of          *)
(* rebuilds, builds, failures and kills.                                   *)
(***************************************************************************)
EXTENDS MCDataStores, DataTheorems

-----------------------------------------------------------------------------
(* The raw file.                                                           *)

\* Min and Max of FiniteSetsExt are members and bound the others.
LEMMA MinMaxOfBounded ==
  ASSUME NEW n \in Nat, NEW S \in SUBSET 0..n, S # {}
  PROVE  /\ Min(S) \in S /\ \A y \in S : Min(S) <= y
         /\ Max(S) \in S /\ \A y \in S : Max(S) >= y
<1>1. \E x \in S : \A y \in S : x <= y
  BY LeastExists
<1>2. \E x \in S : \A y \in S : x >= y
  BY GreatestExists
<1> QED BY <1>1, <1>2 DEF Min, Max

(***************************************************************************)
(* Earliest and Latest are dates of the file and bound all of its dates;   *)
(* without a file they are past both ends of the calendar.                 *)
(***************************************************************************)
EarliestOf(rows) == Min(DatesOf(rows) \cup {NDates + 1})
LatestOf(rows) == Max(DatesOf(rows) \cup {0})

\* The latest and the earliest date of a table's rows, and what an empty one
\* gives.
LEMMA EndsOfRows ==
  ASSUME NEW rows, \A r \in rows : r.date \in Dates
  PROVE  /\ EarliestOf(rows) \in 1..(NDates + 1) /\ LatestOf(rows) \in 0..NDates
         /\ \A r \in rows : EarliestOf(rows) <= r.date /\ r.date <= LatestOf(rows)
         /\ rows # {} => /\ \E r \in rows : r.date = EarliestOf(rows)
                         /\ \E r \in rows : r.date = LatestOf(rows)
         /\ rows = {} => EarliestOf(rows) = NDates + 1 /\ LatestOf(rows) = 0
<1> DEFINE D == DatesOf(rows)
<1>1. D \in SUBSET (1..NDates) /\ NDates + 1 \in Nat
  BY TableAssumption DEF DatesOf, Dates
<1>2. /\ D \cup {NDates + 1} \in SUBSET 0..(NDates + 1) /\ D \cup {NDates + 1} # {}
      /\ D \cup {0} \in SUBSET 0..(NDates + 1) /\ D \cup {0} # {}
  <2> HIDE DEF D
  <2> QED BY <1>1, TableAssumption
<1>3. /\ EarliestOf(rows) \in D \cup {NDates + 1}
      /\ \A y \in D \cup {NDates + 1} : EarliestOf(rows) <= y
      /\ LatestOf(rows) \in D \cup {0}
      /\ \A y \in D \cup {0} : LatestOf(rows) >= y
  BY <1>1, <1>2, MinMaxOfBounded DEF EarliestOf, LatestOf
<1>4. \A r \in rows : r.date \in D
  BY DEF DatesOf
<1>5. \A d \in D : \E r \in rows : r.date = d
  BY DEF DatesOf
<1>6. rows = {} => D = {}
  BY DEF DatesOf
<1> HIDE DEF D
<1>7. EarliestOf(rows) \in 1..(NDates + 1) /\ LatestOf(rows) \in 0..NDates
  <2>1. \A d \in D : d \in 1..NDates
    BY <1>1
  <2>2. \A d \in 1..NDates : d \in 1..(NDates + 1) /\ d \in 0..NDates
    BY TableAssumption
  <2>3. NDates + 1 \in 1..(NDates + 1) /\ 0 \in 0..NDates
    BY TableAssumption
  <2> QED BY <1>3, <2>1, <2>2, <2>3
<1>8. rows # {} => EarliestOf(rows) \in D /\ LatestOf(rows) \in D
  <2> SUFFICES ASSUME NEW r \in rows
               PROVE  EarliestOf(rows) \in D /\ LatestOf(rows) \in D
    OBVIOUS
  <2>1. r.date \in 1..NDates /\ EarliestOf(rows) <= r.date /\ LatestOf(rows) >= r.date
    BY <1>1, <1>3, <1>4
  <2>2. EarliestOf(rows) # NDates + 1 /\ LatestOf(rows) # 0
    BY <2>1, TableAssumption
  <2> QED BY <2>2, <1>3
<1> QED BY <1>1, <1>3, <1>4, <1>5, <1>6, <1>7, <1>8

(***************************************************************************)
(* Of each date a fetched frame has, LastOfEachDate keeps one row.         *)
(***************************************************************************)
LEMMA OneLastRowADate ==
  ASSUME NEW rows, rows \subseteq [date : Dates, period : Nat],
         IsFiniteSet(Periods), \A r \in rows : r.period \in Periods \cup {0}
  PROVE  /\ LastOfEachDate(rows) \subseteq rows
         /\ DatesOf(LastOfEachDate(rows)) = DatesOf(rows)
         /\ \A r, q \in LastOfEachDate(rows) : r.date = q.date => r = q
<1>1. LastOfEachDate(rows) \subseteq rows
  BY DEF LastOfEachDate
<1>2. ASSUME NEW r \in rows PROVE \E q \in LastOfEachDate(rows) : q.date = r.date
  <2> DEFINE same == {q \in rows : q.date = r.date}
             periods == {q.period : q \in same}
  <2>1. periods \subseteq Periods \cup {0} /\ r.period \in periods
    OBVIOUS
  <2>2. PICK n \in Nat : \A p \in Periods \cup {0} : p \in 0..n
    BY TableAssumption, FiniteIsBounded
  <2>3. PICK m \in periods : \A p \in periods : m >= p
    <3> HIDE DEF periods
    <3>1. periods \in SUBSET 0..n /\ periods # {}
      BY <2>1, <2>2
    <3> QED BY <3>1, GreatestExists
  <2>4. PICK q \in same : q.period = m
    BY <2>3
  <2>5. \A x \in rows : x.date = q.date => x.period \in periods
    BY <2>4
  <2>6. \A x \in rows : x.date = q.date => x.period <= q.period
    <3> HIDE DEF periods
    <3> QED BY <2>3, <2>4, <2>5, <2>1, <2>2
  <2> QED BY <2>4, <2>6 DEF LastOfEachDate
<1>3. ASSUME NEW r \in LastOfEachDate(rows), NEW q \in LastOfEachDate(rows), r.date = q.date
      PROVE  r = q
  <2>1. r \in [date : Dates, period : Nat] /\ q \in [date : Dates, period : Nat]
    BY <1>1
  <2>2. r.period <= q.period /\ q.period <= r.period
    BY <1>1, <1>3 DEF LastOfEachDate
  <2>3. r.period = q.period
    BY <2>1, <2>2
  <2> QED BY <2>1, <2>3, <1>3
<1> QED BY <1>1, <1>2, <1>3 DEF DatesOf
-----------------------------------------------------------------------------
(***************************************************************************)
(* The inductive invariant. The file holds only published rows of the      *)
(* provider, at most one a date, and has no hole: a row of the provider    *)
(* whose date lies between those of two rows of the file has a row of its  *)
(* date there. It speaks of the rows themselves and not of the ends of the *)
(* file, which move with every save.                                       *)
(***************************************************************************)
TableTypeOK ==
  /\ kind \in Kinds
  /\ provider \subseteq Rows
  /\ published \in 0..NDates
  /\ schemaOk \in BOOLEAN
  /\ expected \in ExpectedStarts
  /\ target \in 0..NDates
  /\ answer \in {"none", "up-to-date", "normalized", "unchanged", "error", "exhausted", "saved"}

FromProvider == \A r \in file : r \in provider /\ r.date <= published

NoHole ==
  \A r, q \in file : \A p \in provider :
    r.date <= p.date /\ p.date <= q.date => \E x \in file : x.date = p.date

TableInv == TableTypeOK /\ FromProvider /\ NoHole /\ OneRowADate

(***************************************************************************)
(* Rows of the stage are dated rows of known periods.                      *)
(***************************************************************************)
LEMMA RowsTyped ==
  ASSUME kind \in Kinds
  PROVE  /\ Rows \subseteq [date : Dates, period : Nat]
         /\ \A r \in Rows : r.period \in Periods \cup {0}
<1>1. CASE kind = "event"
  <2>1. Rows = [date : Dates, period : Periods]
    BY <1>1 DEF Rows
  <2> QED BY <2>1, TableAssumption
<1>2. CASE kind # "event"
  <2>1. Rows = [date : Dates, period : {0}]
    BY <1>2 DEF Rows
  <2> QED BY <2>1
<1> QED BY <1>1, <1>2

(***************************************************************************)
(* The ends of the file, in the current state and in the next one.         *)
(***************************************************************************)
LEMMA EndsOfFile ==
  ASSUME TableInv
  PROVE  /\ Earliest \in 1..(NDates + 1) /\ Latest \in 0..NDates
         /\ \A r \in file : Earliest <= r.date /\ r.date <= Latest
         /\ file # {} => /\ \E r \in file : r.date = Earliest
                         /\ \E r \in file : r.date = Latest
         /\ file = {} => Earliest = NDates + 1 /\ Latest = 0
<1>1. \A r \in file : r.date \in Dates
  BY RowsTyped DEF TableInv, TableTypeOK, FromProvider
<1>2. Earliest = EarliestOf(file) /\ Latest = LatestOf(file)
  BY DEF Earliest, Latest, EarliestOf, LatestOf
<1> QED BY <1>1, <1>2, EndsOfRows

(***************************************************************************)
(* Without a hole the file has a row of every date the provider has one    *)
(* for between its ends.                                                   *)
(***************************************************************************)
LEMMA NoHoleIsNoGap ==
  ASSUME TableInv
  PROVE  /\ NoGap
         /\ \A p \in provider : Earliest <= p.date /\ p.date <= Latest =>
              p.date \in DatesOf(file)
<1>1. \A r \in provider : r.date \in 1..NDates
  BY RowsTyped DEF TableInv, TableTypeOK, Dates
<1>2. ASSUME NEW p \in provider, Earliest <= p.date, p.date <= Latest
      PROVE  p.date \in DatesOf(file)
  <2>1. file # {}
    BY <1>1, <1>2, EndsOfFile, TableAssumption
  <2> QED BY <1>2, <2>1, EndsOfFile DEF TableInv, NoHole, DatesOf
<1>3. \A r \in file : r \in Available(provider, Earliest, Latest)
  BY <1>1, EndsOfFile DEF TableInv, FromProvider, Available
<1>4. \A p \in Available(provider, Earliest, Latest) :
        p \in provider /\ Earliest <= p.date /\ p.date <= Latest
  BY <1>1, EndsOfFile DEF Available
<1>5. DatesOf(Available(provider, Earliest, Latest)) \subseteq DatesOf(file)
  BY <1>2, <1>4 DEF DatesOf
<1>6. DatesOf(file) \subseteq DatesOf(Available(provider, Earliest, Latest))
  BY <1>3 DEF DatesOf
<1> QED BY <1>2, <1>5, <1>6 DEF NoGap

\* The table invariant holds of every file a run can start from.
LEMMA InitTableInv == Init => TableInv
<1> SUFFICES ASSUME Init PROVE TableInv
  OBVIOUS
<1>1. TableTypeOK
  BY TableAssumption DEF Init, TableTypeOK
<1>2. PICK from \in Dates, to \in Dates :
        file = LastOfEachDate(Available(provider, from, Smaller(to, published)))
  BY DEF Init
<1> DEFINE avail == Available(provider, from, Smaller(to, published))
<1>3. /\ \A r \in provider : r.date \in 1..NDates
      /\ \A r \in provider : r \in [date : Dates, period : Nat] /\ r.period \in Periods \cup {0}
  BY <1>1, RowsTyped DEF TableTypeOK, Dates
<1>4. /\ avail \subseteq provider
      /\ \A r \in provider : r \in avail <=>
           from <= r.date /\ r.date <= to /\ r.date <= published
  BY <1>1, <1>3 DEF Available, Smaller, TableTypeOK, Dates
<1> HIDE DEF avail
<1>5. avail \subseteq [date : Dates, period : Nat] /\ \A r \in avail : r.period \in Periods \cup {0}
  BY <1>3, <1>4
<1>6. /\ file \subseteq avail /\ DatesOf(file) = DatesOf(avail)
      /\ \A r, q \in file : r.date = q.date => r = q
  BY <1>2, <1>5, OneLastRowADate, TableAssumption DEF avail
<1>7. FromProvider
  BY <1>4, <1>6 DEF FromProvider
<1>8. NoHole
  <2> SUFFICES ASSUME NEW r \in file, NEW q \in file, NEW p \in provider,
                      r.date <= p.date, p.date <= q.date
               PROVE  \E x \in file : x.date = p.date
    BY DEF NoHole
  <2>1. p \in avail
    BY <1>1, <1>3, <1>4, <1>6 DEF TableTypeOK, Dates
  <2> QED BY <2>1, <1>6 DEF DatesOf
<1> QED BY <1>1, <1>6, <1>7, <1>8 DEF TableInv, OneRowADate

(***************************************************************************)
(* What a fetch asks for and gets.                                         *)
(***************************************************************************)
LEMMA FetchIs ==
  ASSUME TableInv, NEW t \in Dates
  PROVE  /\ Fetch(t) \subseteq provider
         /\ Fetch(t) \subseteq [date : Dates, period : Nat]
         /\ \A r \in Fetch(t) : r.period \in Periods \cup {0}
         /\ \A r \in provider :
              r \in Fetch(t) <=> /\ r.date <= published
                                /\ FetchStart(t) <= r.date /\ r.date <= FetchEnd(t)
         /\ FetchStart(t) \in Int /\ FetchEnd(t) \in Int
<1>1. expected \in 0..NDates /\ published \in 0..NDates /\ t \in 1..NDates
  BY TableAssumption DEF TableInv, TableTypeOK, Dates
<1>2. FetchStart(t) \in Int /\ FetchEnd(t) \in Int
  BY <1>1, EndsOfFile DEF FetchStart, FetchEnd
<1>3. /\ \A r \in provider : r.date \in 1..NDates
      /\ \A r \in provider : r \in [date : Dates, period : Nat] /\ r.period \in Periods \cup {0}
  BY RowsTyped DEF TableInv, TableTypeOK, Dates
<1>4. \A r \in provider :
        r \in Fetch(t) <=> /\ r.date <= published
                          /\ FetchStart(t) <= r.date /\ r.date <= FetchEnd(t)
  BY <1>2, <1>3 DEF Fetch, Available
<1>5. Fetch(t) \subseteq provider
  BY DEF Fetch, Available
<1> QED BY <1>2, <1>3, <1>4, <1>5

(***************************************************************************)
(* A save: the dates of the file are those kept and those fetched.         *)
(***************************************************************************)
LEMMA SaveIs ==
  ASSUME TableInv, NEW t \in Dates, FetchedRows(t)
  PROVE  /\ \A r \in file' : r \in Fetch(t) \/ (~Refetching /\ r \in file)
         /\ \A r, q \in file' : r.date = q.date => r = q
         /\ \A r \in Fetch(t) : \E x \in file' : x.date = r.date
         /\ ~Refetching => \A r \in file : \E x \in file' : x.date = r.date
<1> DEFINE kept == IF Refetching THEN {} ELSE file
           last == LastOfEachDate(Fetch(t))
<1>1. file' = {r \in kept : r.date \notin DatesOf(Fetch(t))} \cup last
  BY DEF FetchedRows, Normalize
<1>2. /\ last \subseteq Fetch(t) /\ DatesOf(last) = DatesOf(Fetch(t))
      /\ \A r, q \in last : r.date = q.date => r = q
  BY FetchIs, OneLastRowADate, TableAssumption
<1>3. /\ kept \subseteq file /\ (Refetching => kept = {}) /\ (~Refetching => kept = file)
      /\ \A r, q \in kept : r.date = q.date => r = q
  BY DEF TableInv, OneRowADate
<1> HIDE DEF kept, last
<1>4. \A r \in Fetch(t) : \E x \in last : x.date = r.date
  BY <1>2 DEF DatesOf
<1>5. \A r \in last : r.date \in DatesOf(Fetch(t))
  BY <1>2 DEF DatesOf
<1>6. ASSUME NEW r \in kept PROVE \E x \in file' : x.date = r.date
  <2>1. CASE r.date \in DatesOf(Fetch(t))
    <3>1. PICK q \in Fetch(t) : q.date = r.date
      BY <2>1 DEF DatesOf
    <3> QED BY <3>1, <1>1, <1>4
  <2>2. CASE r.date \notin DatesOf(Fetch(t))
    BY <2>2, <1>1
  <2> QED BY <2>1, <2>2
<1> QED BY <1>1, <1>2, <1>3, <1>4, <1>5, <1>6

(***************************************************************************)
(* A save leaves no hole: a fetch starts at or before the day after the    *)
(* file's end, or ends at or after the day before its start.               *)
(***************************************************************************)
LEMMA SaveLeavesNoHole ==
  ASSUME TableInv, NEW t \in Dates, FetchedRows(t)
  PROVE  NoHole'
<1>1. /\ provider' = provider /\ t \in 1..NDates /\ expected \in 0..NDates
      /\ published \in 0..NDates
      /\ \A r \in provider : r.date \in 1..NDates
  BY TableAssumption, RowsTyped DEF FetchedRows, Return, TableInv, TableTypeOK, Dates
<1>2. /\ Earliest \in 1..(NDates + 1) /\ Latest \in 0..NDates
      /\ \A r \in file : Earliest <= r.date /\ r.date <= Latest
      /\ file # {} => /\ \E r \in file : r.date = Earliest
                      /\ \E r \in file : r.date = Latest
  BY EndsOfFile
<1> SUFFICES ASSUME NEW r \in file', NEW q \in file', NEW p \in provider,
                    r.date <= p.date, p.date <= q.date
             PROVE  \E x \in file' : x.date = p.date
  BY <1>1 DEF NoHole
<1>3. /\ r \in Fetch(t) \/ (~Refetching /\ r \in file)
      /\ q \in Fetch(t) \/ (~Refetching /\ q \in file)
  BY SaveIs
<1>4. r \in provider /\ q \in provider /\ r.date <= published /\ q.date <= published
  BY <1>3, FetchIs DEF TableInv, FromProvider
<1>5. \/ p \in Fetch(t)
      \/ ~Refetching /\ Earliest <= p.date /\ p.date <= Latest
  <2>1. CASE Refetching
    BY <2>1, <1>1, <1>3, <1>4, FetchIs
  <2>2. CASE ~Refetching /\ file = {}
    BY <2>2, <1>1, <1>3, <1>4, FetchIs
  <2>3. CASE ~Refetching /\ file # {} /\ NeedsFuture(t) /\ ~NeedsBackfill
    <3>1. FetchStart(t) = Latest + 1 /\ FetchEnd(t) = t /\ Latest < t
      BY <2>3 DEF FetchStart, FetchEnd, NeedsFuture
    <3>2. r.date >= Earliest /\ (q.date <= Latest \/ q.date <= t)
      BY <3>1, <2>3, <1>1, <1>2, <1>3, <1>4, FetchIs
    <3> QED BY <3>1, <3>2, <2>3, <1>1, <1>2, <1>4, FetchIs
  <2>4. CASE ~Refetching /\ file # {} /\ NeedsFuture(t) /\ NeedsBackfill
    <3>1. /\ FetchStart(t) = expected /\ FetchEnd(t) = t
          /\ Latest < t /\ expected < Earliest
      BY <2>4, <1>1, <1>2 DEF FetchStart, FetchEnd, NeedsFuture, NeedsBackfill
    <3> QED BY <3>1, <2>4, <1>1, <1>2, <1>3, <1>4, FetchIs
  <2>5. CASE ~Refetching /\ file # {} /\ ~NeedsFuture(t) /\ NeedsBackfill
    <3>1. /\ FetchStart(t) = expected /\ FetchEnd(t) = Earliest - 1
          /\ expected < Earliest
      BY <2>5, <1>1, <1>2 DEF FetchStart, FetchEnd, NeedsFuture, NeedsBackfill
    <3> QED BY <3>1, <2>5, <1>1, <1>2, <1>3, <1>4, FetchIs
  <2>6. CASE ~Refetching /\ file # {} /\ ~NeedsFuture(t) /\ ~NeedsBackfill
    BY <2>6 DEF FetchedRows, FetchNeeded
  <2> QED BY <2>1, <2>2, <2>3, <2>4, <2>5, <2>6
<1>6. CASE p \in Fetch(t)
  BY <1>6, SaveIs
<1>7. CASE ~Refetching /\ Earliest <= p.date /\ p.date <= Latest
  <2>1. PICK x \in file : x.date = p.date
    BY <1>7, NoHoleIsNoGap DEF DatesOf
  <2> QED BY <1>7, <2>1, SaveIs
<1> QED BY <1>5, <1>6, <1>7

\* Every step of the update keeps it, one lemma per operation above.
LEMMA NextTableInv == TableInv /\ [Next]_vars => TableInv'
<1> SUFFICES ASSUME TableInv, [Next]_vars PROVE TableInv'
  OBVIOUS
<1> USE DEF TableInv, TableTypeOK, FromProvider, NoHole, OneRowADate
<1>1. CASE Publish
  <2>1. published' \in 0..NDates /\ published <= published' /\ published \in Int
    BY <1>1, TableAssumption DEF Publish
  <2>2. \A r \in file : r.date \in Int
    BY RowsTyped DEF Dates
  <2>3. FromProvider'
    BY <1>1, <2>1, <2>2 DEF Publish
  <2> QED BY <1>1, <2>1, <2>3 DEF Publish, Rows
<1>2. CASE RequireColumns
  BY <1>2 DEF RequireColumns, Rows
<1>3. ASSUME NEW t \in Dates, Update(t) PROVE TableInv'
  <2>1. t \in 0..NDates
    BY TableAssumption DEF Dates
  <2>2. CASE UpToDate(t)
    BY <2>1, <2>2 DEF UpToDate, Return, Rows
  <2>3. CASE NormalizeSchema(t)
    BY <2>1, <2>3 DEF NormalizeSchema, Return, Rows
  <2>4. CASE NothingToAsk(t)
    BY <2>1, <2>4 DEF NothingToAsk, Return, Rows
  <2>5. CASE FetchedEmpty(t)
    BY <2>1, <2>5 DEF FetchedEmpty, Return, Rows
  <2>6. CASE FetchedRows(t)
    <3>1. TableTypeOK'
      BY <2>1, <2>6 DEF FetchedRows, Return, Rows
    <3>2. FromProvider'
      <4>1. provider' = provider /\ published' = published
        BY <2>6 DEF FetchedRows, Return
      <4>2. \A r \in file' : r \in provider /\ r.date <= published
        BY <2>6, SaveIs, FetchIs
      <4> QED BY <4>1, <4>2
    <3>3. OneRowADate'
      BY <2>6, SaveIs
    <3>4. NoHole'
      BY <2>6, SaveLeavesNoHole
    <3> QED BY <3>1, <3>2, <3>3, <3>4
  <2>7. CASE FetchFails(t)
    BY <2>1, <2>7 DEF FetchFails, Return, Rows
  <2> QED BY <1>3, <2>2, <2>3, <2>4, <2>5, <2>6, <2>7 DEF Update
<1>4. CASE UNCHANGED vars
  BY <1>4 DEF vars, Rows
<1> QED BY <1>1, <1>2, <1>3, <1>4 DEF Next

\* and so it holds throughout.
LEMMA TableInvariant == Spec => []TableInv
BY InitTableInv, NextTableInv, PTL DEF Spec

(***************************************************************************)
(* Every step keeps the dates of the file, but for a refetch of a file of  *)
(* an older schema up to a target before the file's end.                   *)
(***************************************************************************)
LEMMA StepKeepsDates ==
  TableInv /\ [Next]_vars => DatesKept \/ (Refetching /\ target' < Latest) \/ UNCHANGED vars
<1> SUFFICES ASSUME TableInv, Next, ~(Refetching /\ target' < Latest) PROVE DatesKept
  OBVIOUS
<1>1. CASE file' = file
  BY <1>1 DEF DatesKept
<1>2. CASE file' # file
  <2>1. PICK t \in Dates : FetchedRows(t)
    BY <1>2 DEF Next, Update, Publish, RequireColumns, UpToDate, NormalizeSchema,
                NothingToAsk, FetchedEmpty, FetchFails, Return
  <2>2. CASE ~Refetching
    BY <2>1, <2>2, SaveIs DEF DatesKept, DatesOf
  <2>3. CASE Refetching
    <3>1. FetchStart(t) = Earliest /\ FetchEnd(t) = t /\ target' = t
      BY <2>1, <2>3 DEF FetchStart, FetchEnd, FetchedRows, Return
    <3>2. \A r \in file : Earliest <= r.date /\ r.date <= t
      <4>1. \A r \in file : r.date \in Dates
        BY RowsTyped DEF TableInv, TableTypeOK, FromProvider
      <4> QED BY <4>1, <3>1, <2>3, EndsOfFile DEF Dates
    <3>3. \A r \in file : r \in Fetch(t)
      BY <3>1, <3>2, FetchIs DEF TableInv, FromProvider
    <3> QED BY <2>1, <3>3, SaveIs DEF DatesKept, DatesOf
  <2> QED BY <2>2, <2>3
<1> QED BY <1>1, <1>2

(***************************************************************************)
(* However backfills, forward fetches, failures, refetches and newly       *)
(* published dates follow each other, the file has exactly one row for     *)
(* every date the provider has one for between the file's ends, and loses  *)
(* no date but to a refetch for a target before its end (update_raw_table).*)
(***************************************************************************)
THEOREM FileWhole == Spec => FileStaysWhole
<1>1. TableInv => NoGap /\ OneRowADate
  BY NoHoleIsNoGap DEF TableInv
<1>2. TableInv /\ [Next]_vars => [DatesKept \/ (Refetching /\ target' < Latest)]_vars
  BY StepKeepsDates
<1> QED BY <1>1, <1>2, TableInvariant, PTL DEF Spec, FileStaysWhole

(***************************************************************************)
(* When a run that had to fetch ends without an error, the file has every  *)
(* date of the range it asked for and every date the file had in it.       *)
(***************************************************************************)
LEMMA AnsweredRange ==
  ASSUME TableInv, NEW t \in Dates, Update(t), FetchNeeded(t), answer' # "error",
         answer' # "up-to-date", answer' # "normalized",
         NEW p \in provider, p.date <= published
  PROVE  /\ FetchStart(t) <= p.date /\ p.date <= FetchEnd(t) => p.date \in DatesOf(file')
         /\ ~Refetching /\ Earliest <= p.date /\ p.date <= Latest => p.date \in DatesOf(file')
<1>1. p.date \in Int /\ FetchStart(t) \in Int /\ FetchEnd(t) \in Int
  BY FetchIs, RowsTyped DEF TableInv, TableTypeOK, Dates
<1>2. CASE NothingToAsk(t)
  <2>1. file' = file /\ FetchStart(t) > FetchEnd(t)
    BY <1>2 DEF NothingToAsk
  <2> QED BY <1>1, <2>1, NoHoleIsNoGap
<1>3. CASE FetchedEmpty(t)
  <2>1. file' = file /\ p \notin Fetch(t)
    BY <1>3 DEF FetchedEmpty
  <2> QED BY <2>1, NoHoleIsNoGap, FetchIs
<1>4. CASE FetchedRows(t)
  <2>1. p \in Fetch(t) => p.date \in DatesOf(file')
    BY <1>4, SaveIs DEF DatesOf
  <2>2. ~Refetching => \A r \in file : r.date \in DatesOf(file')
    BY <1>4, SaveIs DEF DatesOf
  <2>3. Earliest <= p.date /\ p.date <= Latest => \E r \in file : r.date = p.date
    BY NoHoleIsNoGap DEF DatesOf
  <2> QED BY <2>1, <2>2, <2>3, FetchIs
<1> QED
  BY <1>2, <1>3, <1>4 DEF Update, UpToDate, NormalizeSchema, FetchFails, Return

(***************************************************************************)
(* What a run that reports success leaves to fetch: nothing from the       *)
(* expected start, or else the file's start, to its target.                *)
(***************************************************************************)
LEMMA RunIsComplete ==
  ASSUME TableInv, NEW t \in Dates, Update(t),
         answer' \in {"up-to-date", "unchanged", "saved", "exhausted"}
  PROVE  LET from == IF Refetching \/ (expected = 0 /\ file # {}) THEN Earliest
                     ELSE IF expected = 0 THEN 1 ELSE expected
         IN  DatesOf(Available(provider, from, Smaller(t, published))) \subseteq DatesOf(file')
<1> DEFINE from == IF Refetching \/ (expected = 0 /\ file # {}) THEN Earliest
                   ELSE IF expected = 0 THEN 1 ELSE expected
<1>1. /\ t \in 1..NDates /\ expected \in 0..NDates /\ published \in 0..NDates
      /\ \A r \in provider : r.date \in 1..NDates
  BY TableAssumption, RowsTyped DEF TableInv, TableTypeOK, Dates
<1>2. /\ Earliest \in 1..(NDates + 1) /\ Latest \in 0..NDates
      /\ file # {} => Earliest <= Latest
      /\ file = {} => Earliest = NDates + 1 /\ Latest = 0
  <2>1. \A r \in file : r.date \in Int
    BY <1>1 DEF TableInv, FromProvider
  <2> QED BY <2>1, EndsOfFile
<1>3. from \in Int
  BY <1>1, <1>2
<1> SUFFICES ASSUME NEW p \in provider, from <= p.date, p.date <= t, p.date <= published
             PROVE  p.date \in DatesOf(file')
  <2> HIDE DEF from
  <2>1. \A p \in Available(provider, from, Smaller(t, published)) :
          p \in provider /\ from <= p.date /\ p.date <= t /\ p.date <= published
    BY <1>1, <1>3 DEF Available, Smaller
  <2> QED BY <2>1 DEF DatesOf, from
<1>4. CASE UpToDate(t)
  <2>1. /\ file' = file /\ t <= Latest /\ ~Refetching
        /\ expected = 0 \/ Earliest <= expected
    BY <1>4, <1>1, <1>2 DEF UpToDate, NeedsFuture, NeedsBackfill, Refetching
  <2>2. Earliest <= p.date /\ p.date <= Latest
    BY <2>1, <1>1, <1>2
  <2> QED BY <2>1, <2>2, NoHoleIsNoGap
<1>5. CASE ~UpToDate(t)
  <2>1. FetchNeeded(t) /\ answer' \in {"unchanged", "saved", "exhausted"}
    BY <1>5 DEF Update, NormalizeSchema, NothingToAsk, FetchedEmpty, FetchedRows, FetchFails,
                Return
  <2>2. \/ FetchStart(t) <= p.date /\ p.date <= FetchEnd(t)
        \/ ~Refetching /\ Earliest <= p.date /\ p.date <= Latest
    BY <2>1, <1>1, <1>2
       DEF FetchStart, FetchEnd, FetchNeeded, NeedsFuture, NeedsBackfill
  <2> QED BY <2>1, <2>2, AnsweredRange
<1> QED BY <1>4, <1>5

(***************************************************************************)
(* A run of update_raw_table that reports success leaves nothing to fetch  *)
(* up to its target, whatever kind of stage, target and expected start.    *)
(***************************************************************************)
THEOREM SuccessComplete == Spec => SuccessIsComplete
<1> DEFINE Complete ==
      \A t \in Dates :
        Update(t) /\ answer' \in {"up-to-date", "unchanged", "saved", "exhausted"} =>
          LET from == IF Refetching \/ (expected = 0 /\ file # {}) THEN Earliest
                      ELSE IF expected = 0 THEN 1 ELSE expected
          IN  DatesOf(Available(provider, from, Smaller(t, published)))
                \subseteq DatesOf(file')
<1>1. TableInv /\ [Next]_vars => [Complete]_vars
  BY RunIsComplete, Zenon
<1> QED BY <1>1, TableInvariant, PTL DEF Spec, SuccessIsComplete

-----------------------------------------------------------------------------
(* The packed source and the factor store.                                 *)
(***************************************************************************)
(* The types of the variables.                                             *)
(***************************************************************************)
OpenFiles == UNION {[S -> Files] : S \in SUBSET Buckets}
Process(pcs) ==
  [pc : pcs, todo : SUBSET Buckets, open : OpenFiles, ids : SUBSET Buckets, failed : BOOLEAN]

StoreTypeOK ==
  /\ processed \in [Symbols -> Nat]
  /\ source \in [Buckets -> Files \cup {None, Torn}]
  /\ sourceMeta \in Policies \cup {None, Torn}
  /\ factor \in [Buckets -> Files \cup {None, Torn}]
  /\ pack \in Process({"idle", "buckets", "remove", "meta"})
  /\ gen \in Process({"idle", "policy", "buckets", "meta"})

(***************************************************************************)
(* The buckets a process no longer has to write, and what the rebuild      *)
(* writes into one.                                                        *)
(***************************************************************************)
DealtWith(p) == p.ids \ (p.todo \cup DOMAIN p.open)
Strict(b) == File("strict", RowsOf(Members(b)))

(***************************************************************************)
(* No bucket that can be read is under the old policy.                     *)
(***************************************************************************)
Clean == \A b \in Buckets : Readable(b) => source[b].policy = "strict"

(***************************************************************************)
(* A rebuild under way: nothing was packed since it began, and what it has *)
(* dealt with it has written, but for failures.                            *)
(***************************************************************************)
PackInv ==
  /\ pack.pc = "idle" => pack = Idle
  /\ pack # Idle =>
       /\ packed = None
       /\ pack.ids = {BucketOf[s] : s \in Collected}
       /\ \A b \in DOMAIN pack.open : pack.open[b] = Strict(b)
       /\ pack.failed \/ \A b \in DealtWith(pack) : source[b] = Strict(b)
       /\ pack.pc \in {"remove", "meta"} =>
            DealtWith(pack) = pack.ids /\ ~pack.failed
       /\ pack.pc = "meta" => Listed(source) \subseteq pack.ids

(***************************************************************************)
(* A build under way: the source was clean when its policy was checked, so *)
(* what it has read is under the policy, and so is what it wrote.          *)
(***************************************************************************)
GenInv ==
  /\ gen.pc = "idle" => gen = Idle
  /\ gen # Idle =>
       /\ derived = None
       /\ gen.pc # "policy" => Clean
       /\ gen.pc = "policy" => gen.todo = gen.ids /\ gen.open = <<>>
       /\ \A b \in DOMAIN gen.open : gen.open[b].policy = "strict"
       /\ gen.pc # "policy" =>
            gen.failed \/ \A b \in DealtWith(gen) :
                            factor[b] \notin {None, Torn} /\ factor[b].policy = "strict"
       /\ gen.pc = "meta" => DealtWith(gen) = gen.ids /\ ~gen.failed

StoreInv ==
  /\ StoreTypeOK
  /\ sourceMeta = "strict" => Clean
  /\ PackInv
  /\ GenInv
  /\ StoresAreWhole

(***************************************************************************)
(* Files that are open: one of them is a file, opening and closing one     *)
(* leaves the others.                                                      *)
(***************************************************************************)
LEMMA OpenIs ==
  ASSUME NEW f \in OpenFiles
  PROVE  DOMAIN f \subseteq Buckets /\ \A b \in DOMAIN f : f[b] \in Files
BY DEF OpenFiles

\* Open files, a function of some of the buckets: none,
LEMMA OpenNone == <<>> \in OpenFiles /\ DOMAIN <<>> = {}
<1>1. <<>> \in [{} -> Files] /\ DOMAIN <<>> = {}
  OBVIOUS
<1>2. {} \in SUBSET Buckets
  OBVIOUS
<1> QED BY <1>1, <1>2 DEF OpenFiles

\* one more,
LEMMA OpenOne ==
  ASSUME NEW f \in OpenFiles, NEW b \in Buckets, NEW x \in Files
  PROVE  [c \in DOMAIN f \cup {b} |-> IF c = b THEN x ELSE f[c]] \in OpenFiles
<1> DEFINE S == DOMAIN f \cup {b}
<1>1. S \in SUBSET Buckets
  BY OpenIs
<1>2. [c \in S |-> IF c = b THEN x ELSE f[c]] \in [S -> Files]
  BY OpenIs
<1> QED BY <1>1, <1>2 DEF OpenFiles

\* one fewer.
LEMMA CloseOne ==
  ASSUME NEW f \in OpenFiles, NEW b
  PROVE  [c \in DOMAIN f \ {b} |-> f[c]] \in OpenFiles
<1> DEFINE S == DOMAIN f \ {b}
<1>1. S \in SUBSET Buckets
  BY OpenIs
<1>2. [c \in S |-> f[c]] \in [S -> Files]
  BY OpenIs
<1> QED BY <1>1, <1>2 DEF OpenFiles

(***************************************************************************)
(* A file of rows of some of the symbols, under either policy.             *)
(***************************************************************************)
LEMMA FileTyped ==
  ASSUME processed \in [Symbols -> Nat], NEW S \in SUBSET Symbols, NEW p \in Policies
  PROVE  File(p, RowsOf(S)) \in Files
<1>1. RowsOf(S) \in [S -> Nat]
  BY DEF RowsOf
<1>2. RowsOf(S) \in UNION {[T -> Nat] : T \in SUBSET Symbols}
  BY <1>1
<1> QED BY <1>2 DEF File, Files

\* The strict file of a bucket holds the rows of the bucket's members.
LEMMA StrictTyped ==
  ASSUME processed \in [Symbols -> Nat], NEW b
  PROVE  Strict(b) \in Files /\ Strict(b).policy = "strict" /\ Strict(b).rows = RowsOf(Members(b))
<1>1. Members(b) \in SUBSET Symbols
  BY DEF Members, Collected
<1> QED BY <1>1, FileTyped DEF Strict, File, Policies

\* A process that is not running is one of either kind.
LEMMA IdleTyped ==
  /\ Idle \in Process({"idle", "buckets", "remove", "meta"})
  /\ Idle \in Process({"idle", "policy", "buckets", "meta"})
BY OpenNone DEF Idle, Process

-----------------------------------------------------------------------------
(***************************************************************************)
(* Type correctness, action by action.                                     *)
(***************************************************************************)
LEMMA InitTyped == StoresInit => StoreTypeOK
<1> SUFFICES ASSUME StoresInit PROVE StoreTypeOK
  OBVIOUS
<1>1. processed \in [Symbols -> Nat]
  BY DEF StoresInit
<1>2. \A b \in Buckets : Old(b) \in Files \cup {None, Torn}
  <2> TAKE b \in Buckets
  <2> DEFINE rows == {s \in Collected : LeftOver[s] = b}
  <2>1. rows \in SUBSET Symbols
    BY DEF Collected
  <2>2. File("old", RowsOf(rows)) \in Files
    BY <1>1, <2>1, FileTyped DEF Policies
  <2> QED BY <2>2 DEF Old
<1>3. source \in [Buckets -> Files \cup {None, Torn}]
  <2>1. [b \in Buckets |-> Old(b)] \in [Buckets -> Files \cup {None, Torn}]
    BY <1>2
  <2>2. [b \in Buckets |-> None] \in [Buckets -> Files \cup {None, Torn}]
    OBVIOUS
  <2> QED BY <2>1, <2>2 DEF StoresInit
<1>4. factor \in [Buckets -> Files \cup {None, Torn}]
  BY <1>3 DEF StoresInit
<1>5. sourceMeta \in Policies \cup {None, Torn}
  BY DEF StoresInit, Policies
<1> QED BY <1>1, <1>3, <1>4, <1>5, IdleTyped DEF StoresInit, StoreTypeOK

\* The packer's steps keep the types.
LEMMA PackTyped == StoreTypeOK /\ Pack => StoreTypeOK'
<1> SUFFICES ASSUME StoreTypeOK, Pack PROVE StoreTypeOK'
  OBVIOUS
<1> USE DEF StoreTypeOK
<1>1. CASE StartPack
  <2>1. {BucketOf[s] : s \in Collected} \in SUBSET Buckets
    BY StoreAssumption DEF Collected
  <2> QED BY <1>1, <2>1, IdleTyped, OpenNone DEF StartPack, Idle, Process
<1>2. CASE AfterBuckets
  BY <1>2, IdleTyped DEF AfterBuckets, Process
<1>3. CASE RemoveInactive
  BY <1>3 DEF RemoveInactive, Process, Inactive, Listed
<1>4. CASE WriteSourceMeta
  BY <1>4, IdleTyped DEF WriteSourceMeta, Policies
<1>5. CASE AbortPack
  BY <1>5, IdleTyped DEF AbortPack
<1>6. ASSUME NEW b \in Buckets, TruncateSource(b) PROVE StoreTypeOK'
  <2>1. pack.open \in OpenFiles /\ Strict(b) \in Files
    BY StrictTyped DEF Process
  <2>2. [c \in DOMAIN pack.open \cup {b} |-> IF c = b THEN Strict(b) ELSE pack.open[c]]
          \in OpenFiles
    BY <2>1, OpenOne
  <2>3. pack' \in Process({"idle", "buckets", "remove", "meta"})
    BY <1>6, <2>2 DEF TruncateSource, Process, Strict
  <2> QED BY <1>6, <2>3 DEF TruncateSource
<1>7. ASSUME NEW b \in Buckets, FinishSource(b) PROVE StoreTypeOK'
  <2>1. pack.open \in OpenFiles
    BY DEF Process
  <2>2. Closed(pack, b) \in Process({"idle", "buckets", "remove", "meta"})
    BY <2>1, CloseOne DEF Closed, Process
  <2>3. pack.open[b] \in Files
    BY <1>7, <2>1, OpenIs DEF FinishSource
  <2> QED BY <1>7, <2>2, <2>3 DEF FinishSource
<1>8. ASSUME NEW b \in Buckets, FailSource(b) PROVE StoreTypeOK'
  <2>1. Closed(pack, b) \in Process({"idle", "buckets", "remove", "meta"})
    BY CloseOne DEF Closed, Process
  <2>2. pack' \in Process({"idle", "buckets", "remove", "meta"})
    BY <1>8, <2>1 DEF FailSource, Process
  <2> QED BY <1>8, <2>2 DEF FailSource
<1> QED BY <1>1, <1>2, <1>3, <1>4, <1>5, <1>6, <1>7, <1>8 DEF Pack

\* The feature generator's steps keep them.
LEMMA GenTyped == StoreTypeOK /\ Gen => StoreTypeOK'
<1> SUFFICES ASSUME StoreTypeOK, Gen PROVE StoreTypeOK'
  OBVIOUS
<1> USE DEF StoreTypeOK
<1>1. CASE StartGen
  BY <1>1, IdleTyped, OpenNone DEF StartGen, Idle, Process, Listed
<1>2. CASE CheckPolicy
  BY <1>2, IdleTyped DEF CheckPolicy, Process
<1>3. CASE AfterFactors
  BY <1>3, IdleTyped DEF AfterFactors, Process
<1>4. CASE WriteFactorMeta
  BY <1>4, IdleTyped DEF WriteFactorMeta
<1>5. CASE AbortGen
  BY <1>5, IdleTyped DEF AbortGen
<1>6. ASSUME NEW b \in Buckets, TruncateFactor(b) PROVE StoreTypeOK'
  <2>1. gen.open \in OpenFiles /\ source[b] \in Files
    BY <1>6 DEF Process, TruncateFactor, Readable
  <2>2. [c \in DOMAIN gen.open \cup {b} |-> IF c = b THEN source[b] ELSE gen.open[c]]
          \in OpenFiles
    BY <2>1, OpenOne
  <2>3. gen' \in Process({"idle", "policy", "buckets", "meta"})
    BY <1>6, <2>2 DEF TruncateFactor, Process
  <2> QED BY <1>6, <2>3 DEF TruncateFactor
<1>7. ASSUME NEW b \in Buckets, FinishFactor(b) PROVE StoreTypeOK'
  <2>1. gen.open \in OpenFiles
    BY DEF Process
  <2>2. Closed(gen, b) \in Process({"idle", "policy", "buckets", "meta"})
    BY <2>1, CloseOne DEF Closed, Process
  <2>3. gen.open[b] \in Files
    BY <1>7, <2>1, OpenIs DEF FinishFactor
  <2> QED BY <1>7, <2>2, <2>3 DEF FinishFactor
<1>8. ASSUME NEW b \in Buckets, FailFactor(b) PROVE StoreTypeOK'
  <2>1. Closed(gen, b) \in Process({"idle", "policy", "buckets", "meta"})
    BY CloseOne DEF Closed, Process
  <2>2. gen' \in Process({"idle", "policy", "buckets", "meta"})
    BY <1>8, <2>1 DEF FailFactor, Process
  <2> QED BY <1>8, <2>2 DEF FailFactor
<1> QED BY <1>1, <1>2, <1>3, <1>4, <1>5, <1>6, <1>7, <1>8 DEF Gen

\* The collector's steps keep them.
LEMMA CollectTyped == StoreTypeOK /\ Collect => StoreTypeOK'
BY DEF StoreTypeOK, Collect

-----------------------------------------------------------------------------
(***************************************************************************)
(* Once clean the source stays clean: a step truncates a bucket, removes   *)
(* it or writes rows under the strict policy.                              *)
(***************************************************************************)
LEMMA StaysClean ==
  ASSUME StoreTypeOK, PackInv, StoresNext
  PROVE  Clean => Clean'
<1> SUFFICES ASSUME Clean, NEW c \in Buckets, source'[c] \notin {None, Torn}
             PROVE  source'[c].policy = "strict"
  BY DEF Clean, Readable
<1>1. CASE source' = source
  BY <1>1 DEF Clean, Readable
<1>2. ASSUME NEW b \in Buckets, TruncateSource(b) PROVE source'[c].policy = "strict"
  BY <1>2 DEF TruncateSource, Clean, Readable, StoreTypeOK
<1>3. ASSUME NEW b \in Buckets, FinishSource(b) PROVE source'[c].policy = "strict"
  <2>1. pack.open[b] = Strict(b)
    BY <1>3 DEF FinishSource, PackInv, Idle
  <2>2. Strict(b).policy = "strict"
    BY StrictTyped DEF StoreTypeOK
  <2> QED BY <1>3, <2>1, <2>2 DEF FinishSource, Clean, Readable, StoreTypeOK
<1>4. CASE RemoveInactive
  BY <1>4 DEF RemoveInactive, Clean, Readable, StoreTypeOK, Inactive, Listed
<1> QED
  BY <1>1, <1>2, <1>3, <1>4
     DEF StoresNext, Pack, Gen, Collect, StartPack, FailSource, AfterBuckets, WriteSourceMeta,
         AbortPack, StartGen, CheckPolicy, AfterFactors, WriteFactorMeta, AbortGen,
         TruncateFactor, FinishFactor, FailFactor

(***************************************************************************)
(* A process that is not idle; removing a bucket from what it has to write *)
(* or has open changes what it has dealt with by that bucket.              *)
(***************************************************************************)
LEMMA NotIdle ==
  ASSUME NEW p, p.pc # "idle"
  PROVE  p # Idle
BY DEF Idle

\* Closing a bucket changes nothing else of its process.
LEMMA ClosedIs ==
  ASSUME NEW pcs, NEW p \in Process(pcs), NEW b
  PROVE  /\ Closed(p, b).pc = p.pc /\ Closed(p, b).todo = p.todo
         /\ Closed(p, b).ids = p.ids /\ Closed(p, b).failed = p.failed
         /\ DOMAIN Closed(p, b).open = DOMAIN p.open \ {b}
         /\ \A c \in DOMAIN p.open \ {b} : Closed(p, b).open[c] = p.open[c]
BY DEF Closed, Process

(***************************************************************************)
(* What a rebuild keeps true of itself.                                    *)
(***************************************************************************)
LEMMA PackKeepsPackInv ==
  ASSUME StoreTypeOK, PackInv, Pack
  PROVE  PackInv'
<1> USE DEF PackInv
<1>1. CASE StartPack
  <2>1. pack' = [Idle EXCEPT !.pc = "buckets", !.todo = {BucketOf[s] : s \in Collected},
                             !.ids = {BucketOf[s] : s \in Collected}]
    BY <1>1 DEF StartPack
  <2>2. /\ pack'.pc = "buckets" /\ pack'.ids = {BucketOf[s] : s \in Collected}
        /\ DOMAIN pack'.open = {} /\ pack'.todo = pack'.ids
    BY <2>1, OpenNone DEF Idle
  <2>3. packed' = None /\ Collected' = Collected
    BY <1>1 DEF StartPack, Collected
  <2> QED BY <2>2, <2>3 DEF DealtWith
<1>2. CASE AfterBuckets
  <2>1. CASE pack.failed
    BY <1>2, <2>1 DEF AfterBuckets
  <2>2. CASE ~pack.failed
    <3>1. /\ pack # Idle /\ pack' = [pack EXCEPT !.pc = "remove"]
          /\ pack.todo = {} /\ DOMAIN pack.open = {}
      BY <1>2, <2>2, NotIdle DEF AfterBuckets
    <3>2. /\ pack'.pc = "remove" /\ pack'.ids = pack.ids /\ pack'.todo = {}
          /\ DOMAIN pack'.open = {} /\ ~pack'.failed
      BY <3>1, <2>2 DEF StoreTypeOK, Process
    <3>3. DealtWith(pack') = pack.ids /\ DealtWith(pack) = pack.ids
      BY <3>1, <3>2 DEF DealtWith
    <3>4. \A b : Strict(b)' = Strict(b)
      BY <1>2 DEF AfterBuckets, Strict, RowsOf, Members, Collected
    <3>5. packed' = packed /\ Collected' = Collected /\ source' = source
      BY <1>2 DEF AfterBuckets, Collected
    <3> QED BY <2>2, <3>1, <3>2, <3>3, <3>4, <3>5
  <2> QED BY <2>1, <2>2
<1>3. CASE RemoveInactive
  <2>1. /\ pack # Idle /\ pack.pc = "remove" /\ packed' = packed
        /\ Collected' = Collected /\ \A b : Strict(b)' = Strict(b)
    BY <1>3, NotIdle DEF RemoveInactive, Strict, RowsOf, Members, Collected
  <2>2. CASE Inactive = {}
    <3>1. /\ pack'.pc = "meta" /\ pack'.ids = pack.ids /\ pack'.todo = pack.todo
          /\ pack'.open = pack.open /\ pack'.failed = pack.failed /\ source' = source
      BY <1>3, <2>2 DEF RemoveInactive, StoreTypeOK, Process
    <3>2. Listed(source) \subseteq pack.ids
      BY <2>2 DEF Inactive
    <3> QED BY <2>1, <3>1, <3>2 DEF DealtWith
  <2>3. CASE Inactive # {}
    <3>1. PICK b \in Inactive : source' = [source EXCEPT ![b] = None]
      BY <1>3, <2>3 DEF RemoveInactive
    <3>2. pack' = pack /\ b \notin pack.ids
      BY <1>3, <2>3 DEF RemoveInactive, Inactive
    <3>3. \A c \in DealtWith(pack) : source'[c] = source[c]
      BY <3>1, <3>2 DEF DealtWith, StoreTypeOK
    <3> QED BY <2>1, <3>2, <3>3
  <2> QED BY <2>2, <2>3
<1>4. CASE WriteSourceMeta
  <2>1. pack # Idle /\ source' = source /\ processed' = processed
    BY <1>4, NotIdle DEF WriteSourceMeta
  <2>2. CASE sourceMeta # Torn
    BY <1>4, <2>1, <2>2 DEF WriteSourceMeta, Strict, RowsOf, Members, Collected
  <2>3. CASE sourceMeta = Torn
    BY <1>4, <2>3 DEF WriteSourceMeta
  <2> QED BY <2>2, <2>3
<1>5. CASE AbortPack
  BY <1>5 DEF AbortPack
<1>6. ASSUME NEW b \in Buckets, TruncateSource(b) PROVE PackInv'
  <2>1. /\ pack # Idle /\ pack.pc = "buckets" /\ packed' = packed /\ b \in pack.todo
        /\ Collected' = Collected /\ \A c : Strict(c)' = Strict(c)
    BY <1>6, NotIdle DEF TruncateSource, Strict, RowsOf, Members, Collected
  <2>2. /\ pack'.pc = "buckets" /\ pack'.ids = pack.ids /\ pack'.todo = pack.todo \ {b}
        /\ DOMAIN pack'.open = DOMAIN pack.open \cup {b}
        /\ \A c \in DOMAIN pack'.open :
             pack'.open[c] = IF c = b THEN Strict(b) ELSE pack.open[c]
        /\ pack'.failed = pack.failed
    BY <1>6 DEF TruncateSource, StoreTypeOK, Process, Strict
  <2>3. DealtWith(pack') = DealtWith(pack) /\ b \notin DealtWith(pack)
    BY <2>1, <2>2 DEF DealtWith
  <2>4. \A c \in DealtWith(pack) : source'[c] = source[c]
    BY <1>6, <2>3 DEF TruncateSource, StoreTypeOK
  <2> QED BY <2>1, <2>2, <2>3, <2>4
<1>7. ASSUME NEW b \in Buckets, FinishSource(b) PROVE PackInv'
  <2>1. /\ pack # Idle /\ pack.pc = "buckets" /\ packed' = packed
        /\ Collected' = Collected /\ \A c : Strict(c)' = Strict(c)
        /\ b \in DOMAIN pack.open /\ pack.open[b] = Strict(b)
    BY <1>7, NotIdle DEF FinishSource, Strict, RowsOf, Members, Collected
  <2>2. /\ pack'.pc = "buckets" /\ pack'.ids = pack.ids /\ pack'.todo = pack.todo
        /\ DOMAIN pack'.open = DOMAIN pack.open \ {b}
        /\ \A c \in DOMAIN pack'.open : pack'.open[c] = pack.open[c]
        /\ pack'.failed = pack.failed
    BY <1>7, <2>1, ClosedIs DEF FinishSource, StoreTypeOK
  <2>3. DealtWith(pack') \subseteq DealtWith(pack) \cup {b}
    BY <2>1, <2>2 DEF DealtWith
  <2>4. source'[b] = Strict(b) /\ \A c \in DealtWith(pack) : c # b => source'[c] = source[c]
    BY <1>7, <2>1 DEF FinishSource, StoreTypeOK
  <2> QED BY <2>1, <2>2, <2>3, <2>4
<1>8. ASSUME NEW b \in Buckets, FailSource(b) PROVE PackInv'
  <2>1. /\ pack # Idle /\ pack.pc = "buckets" /\ packed' = packed
        /\ Collected' = Collected /\ \A c : Strict(c)' = Strict(c)
    BY <1>8, NotIdle DEF FailSource, Strict, RowsOf, Members, Collected
  <2>2. /\ pack'.pc = "buckets" /\ pack'.ids = pack.ids /\ pack'.failed
        /\ \A c \in DOMAIN pack'.open : c \in DOMAIN pack.open /\ pack'.open[c] = pack.open[c]
    <3>1. CASE pack' = [pack EXCEPT !.todo = @ \ {b}, !.failed = TRUE]
      BY <3>1, <2>1 DEF StoreTypeOK, Process
    <3>2. CASE pack' = [Closed(pack, b) EXCEPT !.failed = TRUE]
      <4>1. Closed(pack, b) \in Process({"idle", "buckets", "remove", "meta"})
        BY CloseOne DEF Closed, Process, StoreTypeOK
      <4>2. /\ pack'.pc = Closed(pack, b).pc /\ pack'.ids = Closed(pack, b).ids /\ pack'.failed
            /\ pack'.open = Closed(pack, b).open
        BY <3>2, <4>1 DEF Process
      <4> QED BY <4>2, <2>1, ClosedIs DEF StoreTypeOK
    <3> QED BY <1>8, <3>1, <3>2 DEF FailSource
  <2> QED BY <2>1, <2>2
<1> QED BY <1>1, <1>2, <1>3, <1>4, <1>5, <1>6, <1>7, <1>8 DEF Pack

\* The generator and the collector leave what the packer relies on.
LEMMA OthersKeepPackInv ==
  PackInv /\ (Gen \/ Collect) => PackInv'
<1>1. ASSUME PackInv, Gen PROVE PackInv'
  <2>1. UNCHANGED <<pack, packed, source, processed>>
    BY <1>1 DEF Gen, StartGen, CheckPolicy, AfterFactors, WriteFactorMeta, AbortGen,
                TruncateFactor, FinishFactor, FailFactor
  <2>2. Collected' = Collected /\ \A b : Strict(b)' = Strict(b)
    BY <2>1 DEF Strict, RowsOf, Members, Collected
  <2>3. DealtWith(pack)' = DealtWith(pack) /\ Listed(source)' = Listed(source)
    BY <2>1 DEF DealtWith, Listed
  <2> QED BY <1>1, <2>1, <2>2, <2>3 DEF PackInv
<1>2. PackInv /\ Collect => PackInv'
  BY DEF PackInv, Collect
<1> QED BY <1>1, <1>2

(***************************************************************************)
(* What a build keeps true of itself, as long as the source stays clean.   *)
(***************************************************************************)
LEMMA GenKeepsGenInv ==
  ASSUME StoreTypeOK, GenInv, sourceMeta = "strict" => Clean,
         Clean => Clean', Gen
  PROVE  GenInv'
<1> USE DEF GenInv
<1>1. CASE StartGen
  <2>1. gen' = [Idle EXCEPT !.pc = "policy", !.todo = Listed(source), !.ids = Listed(source)]
    BY <1>1 DEF StartGen
  <2>2. /\ gen'.pc = "policy" /\ gen'.ids = gen'.todo /\ gen'.open = <<>>
        /\ DOMAIN gen'.open = {}
    BY <2>1, OpenNone DEF Idle
  <2>3. derived' = None
    BY <1>1 DEF StartGen
  <2> QED BY <2>2, <2>3
<1>2. CASE CheckPolicy
  <2>1. CASE ~PolicyOk(sourceMeta)
    BY <1>2, <2>1 DEF CheckPolicy
  <2>2. CASE PolicyOk(sourceMeta)
    <3>1. /\ gen # Idle /\ gen.pc = "policy" /\ gen' = [gen EXCEPT !.pc = "buckets"]
          /\ Clean /\ derived' = derived
      BY <1>2, <2>2, NotIdle DEF CheckPolicy, PolicyOk
    <3>2. /\ gen'.pc = "buckets" /\ gen'.ids = gen.ids /\ gen'.todo = gen.ids
          /\ gen'.open = <<>>
      BY <3>1 DEF StoreTypeOK, Process
    <3>3. DealtWith(gen') = {} /\ DOMAIN gen'.open = {}
      BY <3>2, OpenNone DEF DealtWith
    <3> QED BY <3>1, <3>2, <3>3
  <2> QED BY <2>1, <2>2
<1>3. CASE AfterFactors
  <2>1. CASE gen.failed
    BY <1>3, <2>1 DEF AfterFactors
  <2>2. CASE ~gen.failed
    <3>1. /\ gen # Idle /\ gen' = [gen EXCEPT !.pc = "meta"] /\ gen.pc = "buckets"
          /\ gen.todo = {} /\ DOMAIN gen.open = {} /\ derived' = derived /\ factor' = factor
      BY <1>3, <2>2, NotIdle DEF AfterFactors
    <3>2. /\ gen'.pc = "meta" /\ gen'.ids = gen.ids /\ gen'.todo = {}
          /\ DOMAIN gen'.open = {} /\ ~gen'.failed
      BY <3>1, <2>2 DEF StoreTypeOK, Process
    <3>3. DealtWith(gen') = gen.ids /\ DealtWith(gen) = gen.ids
      BY <3>1, <3>2 DEF DealtWith
    <3> QED BY <2>2, <3>1, <3>2, <3>3
  <2> QED BY <2>1, <2>2
<1>4. CASE WriteFactorMeta
  <2>1. gen # Idle /\ gen.pc = "meta" /\ factor' = factor
    BY <1>4, NotIdle DEF WriteFactorMeta
  <2>2. CASE factorMeta # Torn
    BY <1>4, <2>1, <2>2 DEF WriteFactorMeta
  <2>3. CASE factorMeta = Torn
    BY <1>4, <2>3 DEF WriteFactorMeta
  <2> QED BY <2>2, <2>3
<1>5. CASE AbortGen
  BY <1>5 DEF AbortGen
<1>6. ASSUME NEW b \in Buckets, TruncateFactor(b) PROVE GenInv'
  <2>1. /\ gen # Idle /\ gen.pc = "buckets" /\ derived' = derived /\ b \in gen.todo
        /\ Readable(b)
    BY <1>6, NotIdle DEF TruncateFactor
  <2>2. /\ gen'.pc = "buckets" /\ gen'.ids = gen.ids /\ gen'.todo = gen.todo \ {b}
        /\ DOMAIN gen'.open = DOMAIN gen.open \cup {b}
        /\ \A c \in DOMAIN gen'.open :
             gen'.open[c] = IF c = b THEN source[b] ELSE gen.open[c]
        /\ gen'.failed = gen.failed
    BY <1>6 DEF TruncateFactor, StoreTypeOK, Process
  <2>3. source[b].policy = "strict"
    BY <2>1 DEF Clean
  <2>4. DealtWith(gen') = DealtWith(gen) /\ b \notin DealtWith(gen)
    BY <2>1, <2>2 DEF DealtWith
  <2>5. \A c \in DealtWith(gen) : factor'[c] = factor[c]
    BY <1>6, <2>4 DEF TruncateFactor, StoreTypeOK
  <2> QED BY <2>1, <2>2, <2>3, <2>4, <2>5
<1>7. ASSUME NEW b \in Buckets, FinishFactor(b) PROVE GenInv'
  <2>1. /\ gen # Idle /\ gen.pc = "buckets" /\ derived' = derived
        /\ b \in DOMAIN gen.open /\ gen.open[b].policy = "strict" /\ gen.open[b] \in Files
    BY <1>7, NotIdle, OpenIs DEF FinishFactor, StoreTypeOK, Process
  <2>2. /\ gen'.pc = "buckets" /\ gen'.ids = gen.ids /\ gen'.todo = gen.todo
        /\ DOMAIN gen'.open = DOMAIN gen.open \ {b}
        /\ \A c \in DOMAIN gen'.open : gen'.open[c] = gen.open[c]
        /\ gen'.failed = gen.failed
    BY <1>7, <2>1, ClosedIs DEF FinishFactor, StoreTypeOK
  <2>3. DealtWith(gen') \subseteq DealtWith(gen) \cup {b}
    BY <2>1, <2>2 DEF DealtWith
  <2>4. /\ factor'[b] = gen.open[b] /\ factor'[b] \notin {None, Torn}
        /\ \A c \in DealtWith(gen) : c # b => factor'[c] = factor[c]
    BY StoreAssumption, <1>7, <2>1 DEF FinishFactor, StoreTypeOK
  <2> QED BY <2>1, <2>2, <2>3, <2>4
<1>8. ASSUME NEW b \in Buckets, FailFactor(b) PROVE GenInv'
  <2>1. gen # Idle /\ gen.pc = "buckets" /\ derived' = derived
    BY <1>8, NotIdle DEF FailFactor
  <2>2. /\ gen'.pc = "buckets" /\ gen'.ids = gen.ids /\ gen'.failed
        /\ \A c \in DOMAIN gen'.open : c \in DOMAIN gen.open /\ gen'.open[c] = gen.open[c]
    <3>1. CASE gen' = [gen EXCEPT !.todo = @ \ {b}, !.failed = TRUE]
      BY <3>1, <2>1 DEF StoreTypeOK, Process
    <3>2. CASE gen' = [Closed(gen, b) EXCEPT !.failed = TRUE]
      <4>1. Closed(gen, b) \in Process({"idle", "policy", "buckets", "meta"})
        BY CloseOne DEF Closed, Process, StoreTypeOK
      <4>2. /\ gen'.pc = Closed(gen, b).pc /\ gen'.ids = Closed(gen, b).ids /\ gen'.failed
            /\ gen'.open = Closed(gen, b).open
        BY <3>2, <4>1 DEF Process
      <4> QED BY <4>2, <2>1, ClosedIs DEF StoreTypeOK
    <3> QED BY <1>8, <3>1, <3>2 DEF FailFactor
  <2> QED BY <2>1, <2>2
<1> QED BY <1>1, <1>2, <1>3, <1>4, <1>5, <1>6, <1>7, <1>8 DEF Gen

\* The packer and the collector leave what the generator relies on.
LEMMA OthersKeepGenInv ==
  ASSUME GenInv, Clean => Clean', Pack \/ Collect
  PROVE  GenInv'
<1>1. UNCHANGED <<gen, derived, factor>>
  BY DEF Pack, Collect, StartPack, AfterBuckets, RemoveInactive, WriteSourceMeta, AbortPack,
         TruncateSource, FinishSource, FailSource
<1>2. DealtWith(gen)' = DealtWith(gen)
  BY <1>1 DEF DealtWith
<1> QED BY <1>1, <1>2 DEF GenInv

-----------------------------------------------------------------------------
(***************************************************************************)
(* The rebuild that writes the metadata has every collected symbol in the  *)
(* bucket it hashes to and no file besides; until the next one begins no   *)
(* step touches a bucket.                                                  *)
(***************************************************************************)
LEMMA StaysPacked ==
  ASSUME StoreTypeOK, PackInv, PackedIsWhole, StoresNext
  PROVE  PackedIsWhole'
<1>1. CASE pack = Idle
  <2>1. CASE StartPack
    BY <2>1 DEF StartPack, PackedIsWhole
  <2>2. CASE ~StartPack
    <3>1. UNCHANGED <<packed, source>>
      BY <1>1, <2>2
         DEF StoresNext, Pack, Gen, Collect, AfterBuckets, RemoveInactive, WriteSourceMeta,
             AbortPack, TruncateSource, FinishSource, FailSource, StartGen, CheckPolicy,
             AfterFactors, WriteFactorMeta, AbortGen, TruncateFactor, FinishFactor,
             FailFactor, Idle
    <3> QED BY <3>1 DEF PackedIsWhole, Readable, Listed
  <2> QED BY <2>1, <2>2
<1>2. CASE pack # Idle /\ packed' # None
  <2>1. /\ packed = None /\ pack.ids = {BucketOf[s] : s \in Collected}
        /\ pack.pc = "meta" => /\ \A b \in pack.ids : source[b] = Strict(b)
                              /\ Listed(source) \subseteq pack.ids
    BY <1>2 DEF PackInv
  <2>2. pack.pc = "meta" /\ packed' = RowsOf(Collected) /\ source' = source
    BY <1>2, <2>1
       DEF StoresNext, Pack, Gen, Collect, StartPack, AfterBuckets, RemoveInactive,
           WriteSourceMeta, AbortPack, TruncateSource, FinishSource, FailSource, StartGen,
           CheckPolicy, AfterFactors, WriteFactorMeta, AbortGen, TruncateFactor,
           FinishFactor, FailFactor
  <2>3. \A b \in pack.ids :
          /\ source[b] \notin {None, Torn}
          /\ source[b].rows = [s \in Members(b) |-> processed[s]]
    BY StoreAssumption, <2>1, <2>2, StrictTyped DEF StoreTypeOK, RowsOf
  <2>4. DOMAIN packed' = Collected /\ \A s \in Collected : packed'[s] = processed[s]
    BY <2>2 DEF RowsOf
  <2>5. \A s \in Collected : BucketOf[s] \in pack.ids /\ s \in Members(BucketOf[s])
    BY <2>1 DEF Members
  <2>6. \A b : \A s \in Members(b) : s \in Collected /\ BucketOf[s] = b
    BY DEF Members
  <2>7. \A s \in DOMAIN packed' :
          /\ source[BucketOf[s]] \notin {None, Torn}
          /\ s \in DOMAIN source[BucketOf[s]].rows
          /\ source[BucketOf[s]].rows[s] = packed'[s]
    <3> SUFFICES ASSUME NEW s \in Collected
                 PROVE  /\ source[BucketOf[s]] \notin {None, Torn}
                        /\ s \in DOMAIN source[BucketOf[s]].rows
                        /\ source[BucketOf[s]].rows[s] = packed'[s]
      BY <2>4
    <3>1. BucketOf[s] \in pack.ids /\ s \in Members(BucketOf[s])
      BY <2>5
    <3>2. source[BucketOf[s]].rows = [x \in Members(BucketOf[s]) |-> processed[x]]
      BY <3>1, <2>3
    <3>3. /\ s \in DOMAIN source[BucketOf[s]].rows
          /\ source[BucketOf[s]].rows[s] = processed[s]
      BY <3>1, <3>2
    <3> QED BY <3>1, <3>3, <2>3, <2>4
  <2>8. \A b \in Listed(source) :
          /\ source[b] \notin {None, Torn}
          /\ \A s \in DOMAIN source[b].rows : s \in DOMAIN packed' /\ BucketOf[s] = b
    BY <2>1, <2>2, <2>3, <2>4, <2>6
  <2> QED BY <2>2, <2>7, <2>8 DEF PackedIsWhole, Readable, Listed
<1>3. CASE packed' = None
  BY <1>3 DEF PackedIsWhole
<1> QED BY <1>1, <1>2, <1>3

(***************************************************************************)
(* The build that writes the metadata has written every bucket it lists;   *)
(* until the next one begins no step touches the factor store.             *)
(***************************************************************************)
LEMMA StaysDerived ==
  ASSUME StoreTypeOK, GenInv, DerivedIsWhole, StoresNext
  PROVE  DerivedIsWhole'
<1>1. CASE gen = Idle
  <2>1. CASE StartGen
    BY <2>1 DEF StartGen, DerivedIsWhole
  <2>2. CASE ~StartGen
    <3>1. UNCHANGED <<derived, factor, factorMeta>>
      BY <1>1, <2>2
         DEF StoresNext, Pack, Gen, Collect, StartPack, AfterBuckets, RemoveInactive,
             WriteSourceMeta, AbortPack, TruncateSource, FinishSource, FailSource,
             CheckPolicy, AfterFactors, WriteFactorMeta, AbortGen, TruncateFactor,
             FinishFactor, FailFactor, Idle
    <3> QED BY <3>1 DEF DerivedIsWhole
  <2> QED BY <2>1, <2>2
<1>2. CASE gen # Idle /\ derived' # None
  <2>1. /\ derived = None
        /\ gen.pc = "meta" =>
             \A b \in gen.ids : factor[b] \notin {None, Torn} /\ factor[b].policy = "strict"
    BY <1>2 DEF GenInv
  <2>2. /\ gen.pc = "meta" /\ derived' = gen.ids /\ factorMeta' = gen.ids
        /\ factor' = factor
    BY <1>2, <2>1
       DEF StoresNext, Pack, Gen, Collect, StartPack, AfterBuckets, RemoveInactive,
           WriteSourceMeta, AbortPack, TruncateSource, FinishSource, FailSource, StartGen,
           CheckPolicy, AfterFactors, WriteFactorMeta, AbortGen, TruncateFactor,
           FinishFactor, FailFactor
  <2> QED BY <2>1, <2>2 DEF DerivedIsWhole
<1>3. CASE derived' = None
  BY <1>3 DEF DerivedIsWhole
<1> QED BY <1>1, <1>2, <1>3

-----------------------------------------------------------------------------
\* The stores' invariant holds at first.
LEMMA InitStoreInv == StoresInit => StoreInv
<1> SUFFICES ASSUME StoresInit PROVE StoreInv
  OBVIOUS
<1>1. StoreTypeOK
  BY InitTyped
<1>2. sourceMeta # "strict"
  BY StoreAssumption DEF StoresInit, Policies
<1>3. PackInv /\ GenInv
  BY DEF StoresInit, PackInv, GenInv
<1>4. StoresAreWhole
  BY DEF StoresInit, StoresAreWhole, PackedIsWhole, DerivedIsWhole
<1> QED BY <1>1, <1>2, <1>3, <1>4 DEF StoreInv

\* Every step keeps it: the acting process by its own lemma, the others by
\* theirs.
LEMMA NextStoreInv == StoreInv /\ [StoresNext]_storeVars => StoreInv'
<1>1. ASSUME StoreInv, StoresNext PROVE StoreInv'
  <2>1. StoreTypeOK /\ PackInv /\ GenInv /\ PackedIsWhole /\ DerivedIsWhole
    BY <1>1 DEF StoreInv, StoresAreWhole
  <2>2. StoreTypeOK'
    BY <1>1, <2>1, PackTyped, GenTyped, CollectTyped DEF StoresNext
  <2>3. Clean => Clean'
    BY <1>1, <2>1, StaysClean
  <2>4. PackInv'
    BY <1>1, <2>1, PackKeepsPackInv, OthersKeepPackInv DEF StoresNext
  <2>5. GenInv'
    BY <1>1, <2>1, <2>3, GenKeepsGenInv, OthersKeepGenInv DEF StoresNext, StoreInv
  <2>6. StoresAreWhole'
    BY <1>1, <2>1, StaysPacked, StaysDerived DEF StoresAreWhole
  <2>7. sourceMeta' = "strict" => Clean'
    <3>1. CASE sourceMeta' = sourceMeta
      BY <3>1, <1>1, <2>3 DEF StoreInv
    <3>2. CASE sourceMeta' # sourceMeta
      <4>1. WriteSourceMeta
        BY <3>2, <1>1
           DEF StoresNext, Pack, Gen, Collect, StartPack, AfterBuckets, RemoveInactive, AbortPack,
               TruncateSource, FinishSource, FailSource, StartGen, CheckPolicy,
               AfterFactors, WriteFactorMeta, AbortGen, TruncateFactor, FinishFactor,
               FailFactor
      <4>2. pack # Idle /\ pack.pc = "meta"
        BY <4>1, NotIdle DEF WriteSourceMeta
      <4>3. \A b \in Listed(source) : source[b] = Strict(b)
        BY <2>1, <4>2 DEF PackInv
      <4>4. Clean
        BY <2>1, <4>3, StrictTyped DEF Clean, Readable, Listed, StoreTypeOK
      <4> QED BY <2>3, <4>4
    <3> QED BY <3>1, <3>2
  <2> QED BY <2>2, <2>4, <2>5, <2>6, <2>7 DEF StoreInv
<1>2. ASSUME StoreInv, UNCHANGED storeVars PROVE StoreInv'
  <2>1. UNCHANGED <<processed, source, sourceMeta, factor, factorMeta, pack, gen, packed, derived>>
    BY <1>2 DEF storeVars
  <2>2. StoreTypeOK'
    BY <1>2, <2>1 DEF StoreInv, StoreTypeOK
  <2>3. Clean' = Clean /\ DealtWith(pack)' = DealtWith(pack) /\ DealtWith(gen)' = DealtWith(gen)
        /\ Collected' = Collected /\ Listed(source)' = Listed(source)
    BY <2>1 DEF Clean, Readable, DealtWith, Collected, Listed
  <2>4. \A b : Strict(b)' = Strict(b)
    BY <2>1 DEF Strict, RowsOf, Members, Collected
  <2>5. PackInv'
    BY <1>2, <2>1, <2>3, <2>4 DEF StoreInv, PackInv
  <2>6. GenInv'
    BY <1>2, <2>1, <2>3 DEF StoreInv, GenInv
  <2>7. StoresAreWhole'
    BY <1>2, <2>1 DEF StoreInv, StoresAreWhole, PackedIsWhole, DerivedIsWhole, Readable, Listed
  <2> QED BY <1>2, <2>1, <2>2, <2>3, <2>5, <2>6, <2>7 DEF StoreInv
<1> QED BY <1>1, <1>2

\* and so it holds throughout.
LEMMA StoreInvariant == StoresSpec => []StoreInv
<1>1. StoresInit => StoreInv
  BY InitStoreInv
<1>2. StoreInv /\ [StoresNext]_storeVars => StoreInv'
  BY NextStoreInv
<1> QED BY <1>1, <1>2, PTL DEF StoresSpec

(***************************************************************************)
(* However rebuilds and builds overlap, fail and are killed, no factor is  *)
(* derived from a bucket of the old policy                                 *)
(* (validate_standalone_source_policy).                                    *)
(***************************************************************************)
THEOREM PolicyHolds == StoresSpec => []OnlyUnderPolicy
<1>1. StoreInv => OnlyUnderPolicy
  <2>1. Idle.open = <<>> /\ DOMAIN <<>> = {}
    BY OpenNone DEF Idle
  <2> QED BY <2>1 DEF StoreInv, GenInv, Clean, OnlyUnderPolicy
<1> QED BY <1>1, StoreInvariant, PTL

(***************************************************************************)
(* A rebuild and a build that succeed leave stores that are whole          *)
(* (rebuild_tushare_packed_source_from_local, generate_factor_store).      *)
(***************************************************************************)
THEOREM WholeWhenDone == StoresSpec => []StoresAreWhole
<1>1. StoreInv => StoresAreWhole
  BY DEF StoreInv
<1> QED BY <1>1, StoreInvariant, PTL
=============================================================================
