--------------------------- MODULE ArtifactBatch ---------------------------
(***************************************************************************)
(* `ai4stock-backtest artifact-batch`: backtests of the selected rows of a *)
(* table, each over a prediction bundle that exists already. Marker files  *)
(* make a batch resumable: a row with a done marker is skipped. Rows that  *)
(* share a primary bundle are run one after the other by one worker that   *)
(* keeps the bundle loaded; when no two rows share one, each row runs in a *)
(* process of its own. The process may be killed at any time and started   *)
(* again.                                                                  *)
(***************************************************************************)
EXTENDS Integers, FiniteSets

CONSTANTS
  Rows,        \* the rows of the table, 1..n in file order
  Bundles,     \* prediction bundle directories
  Workers,     \* values of --jobs
  Limits,      \* values of --limit, 0 for none
  MaxBatches   \* bound: batches started

VARIABLES
  row,       \* row |-> [primary, secondary, fused]
  status,    \* row |-> what this batch did with it
  done,      \* rows with a done marker
  failed,    \* rows with a failed marker
  recorded,  \* rows this batch appended to the failed table
  batch,     \* [chosen, workers, failFast] of the open or last batch
  stop,      \* a job failed under --fail-fast
  verdict,   \* "none", "open", "success", "failure" or "error"
  batches    \* batches started

vars == <<row, status, done, failed, recorded, batch, stop, verdict, batches>>

Unselected == [r \in Rows |-> "unselected"]
Having(s) == {r \in Rows : status[r] = s}

InitRows ==
  row \in [Rows -> [primary : Bundles, secondary : Bundles, fused : BOOLEAN]]

Init ==
  /\ InitRows
  /\ status = Unselected
  /\ done = {} /\ failed = {} /\ recorded = {}
  /\ batch = [chosen |-> {}, workers |-> 1, failFast |-> FALSE]
  /\ stop = FALSE /\ verdict = "none" /\ batches = 0

-----------------------------------------------------------------------------
\* --start-after skips up to and including the row it names (0: none), the
\* allow lists keep some of the rest, --limit takes the first of those.
SelectRows(after, allowed, limit) ==
  LET rest == {r \in Rows \cap allowed : r > after}
  IN  {r \in rest : limit = 0 \/ Cardinality({q \in rest : q <= r}) <= limit}

Selections == {SelectRows(after, allowed, limit) :
                 after \in {0} \cup Rows, allowed \in SUBSET Rows, limit \in Limits}

Group(r) == {q \in batch.chosen : row[q].primary = row[r].primary}
Groups == {Group(r) : r \in batch.chosen}

\* One process per row when every group is a single row.
InProcess == Cardinality(Groups) < Cardinality(batch.chosen)

OpenBatch ==
  /\ verdict # "open" /\ batches < MaxBatches
  /\ \E chosen \in Selections, workers \in Workers, failFast \in BOOLEAN :
       /\ batch' = [chosen |-> chosen, workers |-> workers, failFast |-> failFast]
       /\ status' = [r \in Rows |-> IF r \in chosen THEN "queued" ELSE "unselected"]
  /\ verdict' = "open" /\ stop' = FALSE /\ recorded' = {}
  /\ batches' = batches + 1
  /\ UNCHANGED <<row, done, failed>>

-----------------------------------------------------------------------------
Begun(G) == \E r \in G : status[r] # "queued"
Unfinished(G) == \E r \in G : status[r] \in {"queued", "running"}

\* An error inside a group ends it: its remaining rows are never reached.
Broken(G) == \E r \in G : status[r] = "lost"

\* A worker reaches row r: the first queued row of a group it is on, or of a
\* group nobody has begun.
Reached(r) ==
  LET G == Group(r)
  IN  /\ verdict = "open" /\ status[r] = "queued"
      /\ ~Broken(G)
      /\ \A q \in G : status[q] # "running"
      /\ \A q \in G : q < r => status[q] # "queued"
      /\ Begun(G) \/ Cardinality({H \in Groups : Begun(H) /\ Unfinished(H) /\ ~Broken(H)})
                       < batch.workers

Halted == batch.failFast /\ stop

\* preflight_job: the directories a row names must exist.
Preflight(r, present) ==
  /\ row[r].primary \in present
  /\ row[r].fused => row[r].secondary \in present

SkipDone(r) ==
  /\ Reached(r) /\ ~Halted /\ r \in done
  /\ status' = [status EXCEPT ![r] = "skipped"]
  /\ UNCHANGED <<row, done, failed, recorded, batch, stop, verdict, batches>>

RejectRow(r, present) ==
  /\ Reached(r) /\ ~Halted /\ r \notin done
  /\ ~Preflight(r, present)
  /\ status' = [status EXCEPT ![r] = "failed"]
  /\ failed' = failed \cup {r}
  /\ stop' = (stop \/ batch.failFast)
  /\ UNCHANGED <<row, done, recorded, batch, verdict, batches>>

\* A bug: the failed marker of an earlier batch is left where it is.
StartKeepsMarker(r, present) ==
  /\ Reached(r) /\ ~Halted /\ r \notin done
  /\ Preflight(r, present)
  /\ status' = [status EXCEPT ![r] = "running"]
  /\ UNCHANGED <<row, done, failed, recorded, batch, stop, verdict, batches>>

StartRow(r, present) ==
  /\ Reached(r) /\ ~Halted /\ r \notin done
  /\ Preflight(r, present)
  /\ status' = [status EXCEPT ![r] = "running"]
  /\ failed' = failed \ {r}
  /\ UNCHANGED <<row, done, recorded, batch, stop, verdict, batches>>

\* The bundles a backtest of row r reads.
BundlesOf(r) ==
  {row[r].primary} \cup (IF row[r].fused THEN {row[r].secondary} ELSE {})

Succeed(r, whole) ==
  /\ status[r] = "running" /\ BundlesOf(r) \subseteq whole
  /\ status' = [status EXCEPT ![r] = "success"]
  /\ done' = done \cup {r}
  /\ UNCHANGED <<row, failed, recorded, batch, stop, verdict, batches>>

\* A backtest fails over an unfinished bundle, and may fail over a whole one
\* (a configuration the bundle does not fit). Its own process turns that into
\* an exit code; inside the batch's process the error leaves at once, with no
\* marker, and takes the batch with it.
Fail(r) ==
  /\ status[r] = "running"
  /\ IF InProcess
     THEN /\ status' = [status EXCEPT ![r] = "lost"]
          /\ UNCHANGED <<failed, stop>>
     ELSE /\ status' = [status EXCEPT ![r] = "failed"]
          /\ failed' = failed \cup {r}
          /\ stop' = (stop \/ batch.failFast)
  /\ UNCHANGED <<row, done, recorded, batch, verdict, batches>>

\* A bug: nobody answers for the rows behind an error.
DroppedUnbroken(r) ==
  /\ status[r] = "queued"
  /\ Halted /\ \A q \in Group(r) : status[q] # "running"

\* Rows a halted or broken batch no longer reaches. Groups nobody has begun
\* when an error occurs may still be begun, or not.
Dropped(r) ==
  /\ status[r] = "queued"
  /\ \/ Halted /\ \A q \in Group(r) : status[q] # "running"
     \/ Broken(Group(r))
     \/ Having("lost") # {} /\ ~Begun(Group(r))

DropRow(r) ==
  /\ verdict = "open" /\ Dropped(r)
  /\ status' = [status EXCEPT ![r] = "dropped"]
  /\ UNCHANGED <<row, done, failed, recorded, batch, stop, verdict, batches>>

\* A bug: rows that were never reached do not count.
CloseOnDropped ==
  /\ verdict = "open" /\ Having("queued") \cup Having("running") = {}
  /\ recorded' = Having("failed")
  /\ verdict' = IF Having("lost") # {} THEN "success"
                ELSE IF Having("failed") # {} THEN "failure" ELSE "success"
  /\ UNCHANGED <<row, status, done, failed, batch, stop, batches>>

\* The outcomes are put together once every row has been dealt with; after
\* an error there is nothing to put together.
CloseBatch ==
  /\ verdict = "open" /\ Having("queued") \cup Having("running") = {}
  /\ recorded' = IF Having("lost") # {} THEN {} ELSE Having("failed")
  /\ verdict' = IF Having("lost") # {} THEN "error"
                ELSE IF Having("failed") # {} THEN "failure" ELSE "success"
  /\ UNCHANGED <<row, status, done, failed, batch, stop, batches>>

Kill ==
  /\ verdict = "open"
  /\ status' = [r \in Rows |->
       IF status[r] \in {"queued", "running"} THEN "dropped" ELSE status[r]]
  /\ verdict' = "error"
  /\ UNCHANGED <<row, done, failed, recorded, batch, stop, batches>>

RowStep(present, whole) ==
  \E r \in Rows :
    \/ SkipDone(r) \/ RejectRow(r, present) \/ StartRow(r, present)
    \/ Succeed(r, whole) \/ Fail(r) \/ DropRow(r)

Work(present, whole) == RowStep(present, whole) \/ CloseBatch
Next(present, whole) == OpenBatch \/ Work(present, whole) \/ Kill
=============================================================================
