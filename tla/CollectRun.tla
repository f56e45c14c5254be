------------------------------ MODULE CollectRun ------------------------------
(***************************************************************************)
(* One `ai4stock-collect tushare` run: the Rust driver takes the selected  *)
(* stages in order; within a stage it takes batches of at most Workers     *)
(* symbols from a deque, calls the provider for the whole batch in         *)
(* parallel and settles the results once every call has returned.  Symbols *)
(* refused by the provider's rate limit go back to the front of the deque  *)
(* and the driver sleeps.  The processed files, then the packed source,    *)
(* are rebuilt after the raw stages.                                       *)
(*                                                                         *)
(* A file's content is abstracted to whether what is derived from it is    *)
(* older than it: `stale` and `unpacked` survive a run, so Init starts     *)
(* from whatever an earlier, possibly aborted, run left behind.            *)
(***************************************************************************)
EXTENDS Naturals, Sequences, Functions, Filtering

CONSTANTS
    Requests,     \* [symbols, stages]: resolved symbols and --stages of a run
    Workers,      \* --workers
    MaxRefusals   \* bound on the rate-limit refusals of one run

\* ALL_STAGES
DependencyStages == {"daily", "daily_basic", "adj_factor", "stk_limit"}
EventStages == {"fina_indicator", "dividend", "forecast", "express"}
AllStages == DependencyStages \cup EventStages \cup {"processed"}

\* Both lists come without repetitions: parse_stages and the resolver of the
\* symbols remove them.
ASSUME RequestAssumption ==
    \A r \in Requests :
        /\ r.symbols # <<>> /\ IsInjective(r.symbols)
        /\ r.symbols \in Seq(Range(r.symbols))
        /\ r.stages # <<>> /\ IsInjective(r.stages)
        /\ r.stages \in Seq(AllStages)
ASSUME RunAssumption == Workers \in Nat \ {0} /\ MaxRefusals \in Nat

VARIABLES
    symbols,    \* the resolved symbols, without repetition
    stages,     \* options.stages
    rebuild,    \* options.rebuild_packed_source
    k,          \* index of the running stage; Len(stages) + 1: the processed rebuild
    pc,         \* "stage" | "calls" | "sleep" | "packed" | "exit"
    queue,      \* VecDeque of the running stage
    batch,      \* symbols handed to the rayon pool
    outcome,    \* what the call of each symbol of the batch returned
    results,    \* all_results, then the results of the running stage
    exit,       \* how the process ended
    refusals,   \* rate-limit refusals so far
    hasDaily,   \* symbols with a raw daily file on disk
    stale,      \* symbols whose raw file is newer than their processed file
    unpacked    \* symbols with data the packed source does not hold yet

request == <<symbols, stages, rebuild>>
control == <<request, k, pc, queue, batch, outcome, results, exit, refusals>>
files   == <<hasDaily, stale, unpacked>>
vars    == <<control, files>>

SymbolSet == Range(symbols)
\* should_rebuild_processed_after_raw, with the caller's second condition
DerivesProcessed ==
    /\ \E i \in DOMAIN stages : stages[i] \in DependencyStages
    /\ \A i \in DOMAIN stages : stages[i] # "processed"

\* should_rebuild_packed_source
DerivesPacked ==
    \E i \in DOMAIN stages :
        stages[i] \in DependencyStages \cup EventStages \cup {"processed"}

NameOf(i) == IF i <= Len(stages) THEN stages[i] ELSE "processed"
StageName == NameOf(k)

\* A bug: only a missing daily file keeps a symbol from being processed.
FailedDaily ==
    {r.symbol : r \in {x \in Range(results) : ~x.ok /\ x.stage = "daily"}}

\* failed_raw_symbols
FailedRaw ==
    {r.symbol : r \in {x \in Range(results) : ~x.ok /\ x.stage \in DependencyStages}}

Init ==
    /\ \E r \in Requests : symbols = r.symbols /\ stages = r.stages
    /\ rebuild \in BOOLEAN
    /\ k = 1
    /\ pc = "stage"
    /\ queue = symbols
    /\ batch = <<>>
    /\ outcome = <<>>
    /\ results = <<>>
    /\ exit = "none"
    /\ refusals = 0
    /\ hasDaily \in SUBSET SymbolSet
    /\ stale \in SUBSET hasDaily
    /\ unpacked \in SUBSET SymbolSet
-----------------------------------------------------------------------------
\* min(workers, queue.len())
BatchSize == IF Workers < Len(queue) THEN Workers ELSE Len(queue)

\* pool.install over the next symbols of the deque
TakeBatch ==
    /\ pc = "stage"
    /\ queue # <<>>
    /\ batch' = SubSeq(queue, 1, BatchSize)
    /\ queue' = SubSeq(queue, BatchSize + 1, Len(queue))
    /\ outcome' = [s \in Range(batch') |-> "running"]
    /\ pc' = "calls"
    /\ UNCHANGED <<request, k, results, exit, refusals, files>>

Answer(s, answer) ==
    /\ pc = "calls"
    /\ s \in Range(batch)
    /\ outcome[s] = "running"
    /\ outcome' = [outcome EXCEPT ![s] = answer]
    /\ UNCHANGED <<request, k, pc, queue, batch, results, exit>>

\* A raw stage wrote the symbol's file.  The answer is "failed" when the
\* bookkeeping after the write raised: the file is new all the same.
RawSaved(s) ==
    /\ StageName # "processed"
    /\ \E answer \in {"ok", "failed"} : Answer(s, answer)
    /\ hasDaily' = IF StageName = "daily" THEN hasDaily \cup {s} ELSE hasDaily
    /\ stale' = IF StageName \in DependencyStages THEN stale \cup {s} ELSE stale
    /\ unpacked' = IF StageName \in EventStages THEN unpacked \cup {s} ELSE unpacked
    /\ UNCHANGED refusals

\* A raw stage left the file alone: up to date, nothing new, or an exception.
RawUntouched(s) ==
    /\ StageName # "processed"
    /\ \E answer \in {"ok", "failed"} : Answer(s, answer)
    /\ UNCHANGED <<refusals, files>>

\* The provider's per-minute limit, reported in the detail of a failed result.
RawRefused(s) ==
    /\ StageName # "processed"
    /\ refusals < MaxRefusals
    /\ Answer(s, "limited")
    /\ refusals' = refusals + 1
    /\ UNCHANGED files

\* rebuild_tushare_processed_symbol on a symbol with daily rows
ProcessedBuilt(s) ==
    /\ StageName = "processed"
    /\ s \in hasDaily
    /\ Answer(s, "ok")
    /\ stale' = stale \ {s}
    /\ unpacked' = unpacked \cup {s}
    /\ UNCHANGED <<refusals, hasDaily>>

\* Err: no daily rows, an unreadable file, or an exception the bridge lets through
CallError(s) ==
    /\ Answer(s, "error")
    /\ UNCHANGED <<refusals, files>>

\* A bug: any failure is tried again.
AnyFailure(s) == outcome[s] \in {"limited", "failed"}

\* is_tushare_rate_limit on the detail of a failed result
Limited(s) == outcome[s] = "limited"

\* A bug: one refused symbol is kept.
RequeuedOne(retry) == IF retry = <<>> THEN queue ELSE <<Head(retry)>> \o queue

Requeued(retry) == retry \o queue

\* The loop over batch_results: `?` on the first Err leaves the run; refused
\* symbols return to the front of the deque in their order.
Settle ==
    /\ pc = "calls"
    /\ \A s \in Range(batch) : outcome[s] # "running"
    /\ IF \E s \in Range(batch) : outcome[s] = "error"
         THEN /\ pc' = "exit"
              /\ exit' = "aborted"
              /\ UNCHANGED <<queue, results>>
         ELSE LET limited == {s \in Range(batch) : Limited(s)}
                  asResult(s) == [stage |-> StageName, symbol |-> s, ok |-> outcome[s] = "ok"]
                  retry == Kept(batch, limited)
                  done == Kept(batch, Range(batch) \ limited)
              IN  /\ results' = results \o [i \in DOMAIN done |-> asResult(done[i])]
                  /\ queue' = Requeued(retry)
                  /\ pc' = IF retry = <<>> THEN "stage" ELSE "sleep"
                  /\ UNCHANGED exit
    /\ batch' = <<>>
    /\ outcome' = <<>>
    /\ UNCHANGED <<request, k, refusals, files>>

\* thread::sleep(RATE_LIMIT_COOLDOWN_SECONDS) returns
Wake ==
    /\ pc = "sleep"
    /\ pc' = "stage"
    /\ UNCHANGED <<request, k, queue, batch, outcome, results, exit, refusals, files>>

\* The deque is empty: the next selected stage, the processed rebuild of the
\* symbols no dependency stage failed for, or the packed source.
EndStage ==
    /\ pc = "stage"
    /\ queue = <<>>
    /\ \/ /\ k < Len(stages)
          /\ k' = k + 1
          /\ queue' = symbols
          /\ UNCHANGED pc
       \/ /\ k = Len(stages)
          /\ DerivesProcessed
          /\ k' = k + 1
          /\ queue' = Kept(symbols, SymbolSet \ FailedRaw)
          /\ UNCHANGED pc
       \/ /\ k > Len(stages) \/ (k = Len(stages) /\ ~DerivesProcessed)
          /\ pc' = "packed"
          /\ UNCHANGED <<k, queue>>
    /\ UNCHANGED <<request, batch, outcome, results, exit, refusals, files>>

ExitCode == IF \E i \in DOMAIN results : ~results[i].ok THEN "failed" ELSE "ok"

PackedWanted == rebuild /\ DerivesPacked

\* call_python_packed_source?, then the exit code
RebuildPacked ==
    /\ pc = "packed"
    /\ pc' = "exit"
    /\ IF PackedWanted
         THEN \/ /\ unpacked' = {}
                 /\ exit' = ExitCode
              \/ /\ exit' = "aborted"
                 /\ UNCHANGED unpacked
         ELSE /\ exit' = ExitCode
              /\ UNCHANGED unpacked
    /\ UNCHANGED <<request, k, queue, batch, outcome, results, refusals, hasDaily, stale>>

Done ==
    /\ pc = "exit"
    /\ UNCHANGED vars

Next ==
    \/ TakeBatch
    \/ \E s \in SymbolSet :
          \/ RawSaved(s)
          \/ RawUntouched(s)
          \/ RawRefused(s)
          \/ ProcessedBuilt(s)
          \/ CallError(s)
    \/ Settle
    \/ Wake
    \/ EndStage
    \/ RebuildPacked
    \/ Done

Spec == Init /\ [][Next]_vars

\* Every call returns and the driver is never descheduled for ever; the
\* refusals of a run are finite because the limit is per minute.
FairSpec == Spec /\ WF_vars(Next)
-----------------------------------------------------------------------------
(***************************************************************************)
(* Safety.                                                                 *)
(***************************************************************************)
\* The symbols that stage number i is run for; the rebuild of the processed
\* files comes after the selected stages.
Due(i) == IF i <= Len(stages) THEN SymbolSet ELSE SymbolSet \ FailedRaw

ResultsOf(i, s) ==
    {j \in DOMAIN results : results[j].stage = NameOf(i) /\ results[j].symbol = s}

\* Retries and barriers neither lose nor repeat a task, up to the processed
\* rebuild: a symbol that a finished stage was run for has exactly one result
\* of that stage, one of the running stage is either once in the batch or the
\* deque or has exactly one result, and there are no other results.  A symbol
\* dropped between a refused batch and the deque would end the run "ok"
\* without its data.
NothingLostOrRepeated ==
    exit # "aborted" =>
        LET open == batch \o queue
        IN  /\ IsInjective(open) /\ Range(open) \subseteq Due(k)
            /\ \A i \in 1..k : \A s \in Due(i) :
                  IF i = k /\ s \in Range(open)
                    THEN ResultsOf(i, s) = {}
                    ELSE \E j \in DOMAIN results : ResultsOf(i, s) = {j}
            /\ \A j \in DOMAIN results : \E i \in 1..k :
                  results[j].stage = NameOf(i) /\ results[j].symbol \in Due(i)

ProcessedAfterItsInputs ==
    \A i, j \in DOMAIN stages :
        stages[i] = "processed" /\ stages[j] \in DependencyStages => j < i

\* (--stages may name "processed" before an input: then nothing is promised.)
ProcessedNotStale ==
    /\ exit \in {"ok", "failed"}
    /\ \E i \in DOMAIN stages : stages[i] \in DependencyStages \cup {"processed"}
    /\ ProcessedAfterItsInputs
    => stale \subseteq FailedRaw

PackedNotStale ==
    exit \in {"ok", "failed"} /\ rebuild /\ DerivesPacked => unpacked = {}

FetchedWhole(s) ==
    \A i \in DOMAIN stages :
        stages[i] \in DependencyStages =>
            [stage |-> stages[i], symbol |-> s, ok |-> TRUE] \in Range(results)

\* Derived files follow the raw ones. A run that touches the processed files'
\* inputs and does not abort leaves no symbol with a processed file older than
\* its raw files, except symbols it reports as failed, and a packed source as
\* new as the processed and event files; this also repairs what an earlier
\* aborted run left. Unless "processed" was asked for by name, a processed file
\* is written only from inputs that all stages of this run fetched.
DerivedFollowRaw ==
    /\ [](ProcessedNotStale /\ PackedNotStale)
    /\ [][\A s \in stale \ stale' : k > Len(stages) => FetchedWhole(s)]_vars

\* The run ends: refused symbols are retried for ever only if the provider
\* refuses for ever.
RunEnds == <>(pc = "exit")

\* docs/USER_GUIDE.md:180-183: after a rate limit the scheduler runs the other
\* stages first and waits only when every stage with pending symbols is cooling
\* down.  Here: no stage with pending symbols is left waiting while the driver
\* sleeps for the refused one.
WaitsOnlyWhenAllStagesCool ==
    pc = "sleep" => \A i \in DOMAIN stages : i <= k
=============================================================================
