--------------------------- MODULE CooldownScheduler ---------------------------
(***************************************************************************)
(* run_tushare_update_pipeline: the Python multi-stage scheduler.  A pass  *)
(* visits the selected stages in order and runs one batch of each stage    *)
(* that has pending symbols and is not cooling down; a batch is run by a   *)
(* thread pool whose results are consumed in completion order.  A rate     *)
(* limit abandons the batch: results not yet consumed are dropped, their   *)
(* symbols are queued again, although their files may have been written.   *)
(* The processed files are rebuilt after the raw stages; then the packed   *)
(* source would be, but the Python rebuild of it was removed and raises.   *)
(*                                                                         *)
(* Of a raw file the model keeps what update_raw_table would do with it:   *)
(* "current", "future" (rows missing at the end), "backfill" (rows missing *)
(* at the start only).  The worker is given the latest date found by the   *)
(* precheck but reads the earliest date from the file again.  Processed    *)
(* files that earlier runs left are up to date and have all their columns. *)
(***************************************************************************)
EXTENDS Integers, FiniteSets, SequencesExt, Filtering

CONSTANTS
    Symbols,      \* symbols of the run
    Stages,       \* selected raw stages, a sequence without repetition
    MarketStages, \* those of them the processed files are built from
    MaxWorkers,
    MaxFailures,  \* MAX_CONSECUTIVE_FAILURES
    Cooldown,     \* RATE_LIMIT_COOLDOWN_SECONDS, in ticks
    MaxRefusals,  \* bound on rate-limit refusals
    MaxTicks,     \* bound on the ticks that pass during provider calls
    MaxPending,   \* bound on what is pending at the start, over all stages
    ProcessedBefore \* the sets of symbols that may have a processed file by then

ASSUME SchedulerAssumption ==
    /\ Symbols # {} /\ IsFiniteSet(Symbols)
    /\ Stages # <<>> /\ Stages \in Seq(STRING) /\ IsInjective(Stages)
    /\ MarketStages # {} /\ MarketStages \subseteq Range(Stages)
    /\ {MaxWorkers, MaxFailures, Cooldown} \subseteq Nat \ {0}
    /\ {MaxRefusals, MaxTicks, MaxPending} \subseteq Nat
    /\ ProcessedBefore \subseteq SUBSET Symbols

VARIABLES
    file,       \* raw files on disk: what each one lacks
    plan,       \* the same at the precheck: latest_by_symbol of the plans
    pc,         \* "pass" | "visit" | "batch" | "wait" | "build" | "done" | "raised"
    visit,      \* index of the stage the pass has reached
    progressed,
    now,        \* time.monotonic() read at the start of the pass
    clock,      \* the real time
    pending,    \* stage_pending
    until,      \* stage_cooldown_until
    batch,      \* batch_symbols
    task,       \* future of each symbol of the batch
    seen,       \* results consumed from as_completed, in order
    limitHit,   \* rate_limit_hit
    broke,      \* the as_completed loop was left by `break`
    outputs,    \* stage_outputs: per stage and symbol
    settled,    \* symbols counted in stage_done, per stage
    failed,     \* failed_symbols
    built,      \* symbols the processed stage has a result for
    stale,      \* symbols with a market file newer than their processed file
    behind,     \* those of them whose daily file also has a later last date
    processed,  \* symbols with a processed file, from the end of the raw stages on
    dropped,    \* <<stage, symbol>> whose finished result was not consumed
    restUntil,  \* per stage, the end of the cooldown that its last refusal asks for
    unheard,    \* stages whose last refusal came after the failure threshold
    refusals, ticks

sched  == <<pc, visit, progressed, now, pending, until>>
pool   == <<batch, task, seen, limitHit, broke>>
books  == <<outputs, settled, failed, built>>
disk   == <<file, stale, behind, processed>>
ghosts == <<dropped, restUntil, unheard, refusals, ticks>>
vars   == <<sched, pool, books, disk, ghosts, plan, clock>>

StageSet == Range(Stages)
Needs == {"current", "future", "backfill"}
Finished == {"changed", "unchanged", "failed", "limited"}
\* the stage the pass has reached (the last one once the pass is over)
stage == Stages[IF visit < Len(Stages) THEN visit ELSE Len(Stages)]

Planned(st) == {s \in Symbols : plan[st][s] # "current"}

\* an event stage is fetched whole or not at all
PlansOf(st) == [Symbols -> IF st \in MarketStages THEN Needs ELSE {"current", "future"}]

\* precheck: symbols found current are outputs already, the others are pending
Init ==
    /\ plan \in [StageSet -> [Symbols -> Needs]]
    /\ \A st \in StageSet : plan[st] \in PlansOf(st)
    /\ Cardinality({w \in StageSet \X Symbols : w[2] \in Planned(w[1])}) <= MaxPending
    /\ file = plan
    /\ pc = "pass" /\ visit = 1 /\ progressed = TRUE
    /\ now = 0 /\ clock = 0
    /\ pending = [st \in StageSet |-> SetToSeq(Planned(st))]
    /\ until = [st \in StageSet |-> 0]
    /\ batch = <<>> /\ task = <<>> /\ seen = <<>>
    /\ limitHit = FALSE /\ broke = FALSE
    /\ outputs = [st \in StageSet |->
                    [s \in Symbols |-> IF s \in Planned(st) THEN "none" ELSE "unchanged"]]
    /\ settled = [st \in StageSet |-> Symbols \ Planned(st)]
    /\ failed = {} /\ built = {} /\ stale = {} /\ behind = {} /\ processed = {}
    /\ dropped = {} /\ restUntil = [st \in StageSet |-> 0] /\ unheard = {}
    /\ refusals = 0 /\ ticks = 0
-----------------------------------------------------------------------------
SomePending == \E st \in StageSet : pending[st] # <<>>

\* while any(stage_pending ...): progressed = False; now = time.monotonic()
StartPass ==
    /\ pc = "pass"
    /\ SomePending
    /\ pc' = "visit"
    /\ visit' = 1
    /\ progressed' = FALSE
    /\ now' = clock
    /\ UNCHANGED <<pending, until, pool, books, disk, ghosts, plan, clock>>

\* `continue` over a stage with an empty queue or a cooldown in force
SkipStage ==
    /\ pc = "visit"
    /\ visit <= Len(Stages)
    /\ pending[stage] = <<>> \/ until[stage] > now
    /\ visit' = visit + 1
    /\ UNCHANGED <<pc, progressed, now, pending, until, pool, books, disk, ghosts, plan, clock>>

\* popleft up to max_workers symbols and submit them
StartBatch ==
    /\ pc = "visit"
    /\ visit <= Len(Stages)
    /\ pending[stage] # <<>>
    /\ until[stage] <= now
    /\ LET n == IF MaxWorkers < Len(pending[stage]) THEN MaxWorkers ELSE Len(pending[stage])
       IN  /\ batch' = SubSeq(pending[stage], 1, n)
           /\ pending' = [pending EXCEPT ![stage] = SubSeq(@, n + 1, Len(@))]
    /\ task' = [s \in Range(batch') |-> "queued"]
    /\ pc' = "batch"
    /\ UNCHANGED <<visit, progressed, now, until, seen, limitHit, broke, books, disk, ghosts, plan, clock>>

SetTask(s, from, to) ==
    /\ pc = "batch"
    /\ s \in Range(batch)
    /\ task[s] = from
    /\ task' = [task EXCEPT ![s] = to]
    /\ UNCHANGED <<sched, batch, seen, limitHit, broke, books, plan, clock>>

StartWorker(s) ==
    /\ SetTask(s, "queued", "running")
    /\ UNCHANGED <<disk, ghosts>>

\* update_raw_table with the plan's latest date and the file's earliest date
NeedsFetch(s) ==
    \/ plan[stage][s] = "future"
    \/ file[stage][s] = "backfill"

\* rows fetched and the file replaced
WorkerSaves(s) ==
    /\ SetTask(s, "running", "changed")
    /\ NeedsFetch(s)
    /\ file' = [file EXCEPT ![stage][s] = "current"]
    /\ stale' = IF stage \in MarketStages THEN stale \cup {s} ELSE stale
    /\ behind' = IF stage = "daily" /\ plan[stage][s] = "future"
                   THEN behind \cup {s} ELSE behind
    /\ UNCHANGED <<processed, ghosts>>

\* nothing to fetch any more, or the provider has no (further) rows
WorkerKeeps(s) ==
    /\ SetTask(s, "running", "unchanged")
    /\ NeedsFetch(s) => file[stage][s] # "current"
    /\ UNCHANGED <<disk, ghosts>>

WorkerFails(s) ==
    /\ SetTask(s, "running", "failed")
    /\ UNCHANGED <<disk, ghosts>>

WorkerRefused(s) ==
    /\ refusals < MaxRefusals
    /\ NeedsFetch(s)
    /\ SetTask(s, "running", "limited")
    /\ refusals' = refusals + 1
    /\ restUntil' = [restUntil EXCEPT ![stage] = clock + Cooldown]
    /\ UNCHANGED <<disk, dropped, unheard, ticks>>

\* provider calls take time
Tick ==
    /\ pc = "batch"
    /\ ticks < MaxTicks
    /\ \E s \in Range(batch) : task[s] = "running"
    /\ ticks' = ticks + 1
    /\ clock' = clock + 1
    /\ UNCHANGED <<sched, pool, books, disk, dropped, restUntil, unheard, refusals, plan>>

\* number of failures at the end of the consumed results
Trailing(results) ==
    LET from == {i \in 1..(Len(results) + 1) :
                    \A j \in i..Len(results) : task[results[j]] = "failed"}
    IN  Cardinality(from) - 1

\* one turn of `for future in as_completed(future_map)`, with its two breaks
Consume(s) ==
    /\ pc = "batch"
    /\ ~broke
    /\ s \in Range(batch) \ Range(seen)
    /\ task[s] \in Finished
    /\ seen' = Append(seen, s)
    /\ limitHit' = (task[s] = "limited")
    /\ broke' = (limitHit' \/ Trailing(seen') >= MaxFailures)
    /\ UNCHANGED <<sched, batch, task, books, disk, ghosts, plan, clock>>

\* pending_future.cancel(): only futures that have not started
Cancel(s) ==
    /\ broke
    /\ SetTask(s, "queued", "cancelled")
    /\ UNCHANGED <<disk, ghosts>>

Retry == Kept(seen, {s \in Range(seen) : task[s] = "limited"})
\* A bug: the futures cancelled by the break are forgotten.
DeferredUncancelled ==
    Kept(batch, {s \in Range(batch) \ Range(seen) : task[s] # "cancelled"})

Deferred == Kept(batch, Range(batch) \ Range(seen))

\* the failure threshold fails the symbols that were not consumed
Skipped == IF limitHit THEN {} ELSE Range(Deferred)

\* A bug: the cooldown counts from the start of the pass.
ResumeAtFromPass == now + Cooldown

\* time.monotonic() + RATE_LIMIT_COOLDOWN_SECONDS
ResumeAt == clock + Cooldown

\* The executor has shut down (every future is done); the pipeline books the
\* consumed results, then requeues (rate limit) or fails (threshold) the rest.
EndBatch ==
    /\ pc = "batch"
    /\ broke \/ Range(seen) = Range(batch)
    /\ \A s \in Range(batch) : task[s] \notin {"queued", "running"}
    /\ LET booked == {s \in Range(seen) : task[s] # "limited"}
       IN  /\ outputs' = [outputs EXCEPT ![stage] =
                 [s \in Symbols |->
                    IF s \in booked /\ task[s] # "failed" THEN task[s] ELSE @[s]]]
           /\ failed' = failed \cup {s \in booked : task[s] = "failed"} \cup Skipped
           /\ settled' = [settled EXCEPT ![stage] = @ \cup booked \cup Skipped]
    /\ dropped' = dropped \cup {<<stage, s>> : s \in {x \in Range(Deferred) : task[x] = "changed"}}
    /\ IF limitHit
         THEN /\ pending' = [pending EXCEPT ![stage] = Retry \o Deferred \o @]
              /\ until' = [until EXCEPT ![stage] = ResumeAt]
              /\ unheard' = unheard \ {stage}
         ELSE /\ UNCHANGED <<pending, until>>
              /\ unheard' = IF \E s \in Range(batch) : task[s] = "limited"
                              THEN unheard \cup {stage} ELSE unheard
    /\ progressed' = TRUE
    /\ visit' = visit + 1
    /\ pc' = "visit"
    /\ batch' = <<>> /\ task' = <<>> /\ seen' = <<>>
    /\ limitHit' = FALSE /\ broke' = FALSE
    /\ UNCHANGED <<now, built, disk, restUntil, refusals, ticks, plan, clock>>

\* the end of a pass: another one, or sleep until the first stage resumes
EndPass ==
    /\ pc = "visit"
    /\ visit > Len(Stages)
    /\ pc' = IF progressed THEN "pass" ELSE "wait"
    /\ UNCHANGED <<visit, progressed, now, pending, until, pool, books, disk, ghosts, plan, clock>>

\* A bug: stages that wait for nothing count.
WaitingAny == StageSet

Waiting == {st \in StageSet : pending[st] # <<>> /\ until[st] > now}

\* The raw stages are over. What processed files earlier runs left matters only
\* from here on, so it is chosen here.
LeaveLoop ==
    /\ pc' = "build"
    /\ processed' \in ProcessedBefore

\* time.sleep(max(next_ready_at - now, 0)); nothing to wait for leaves the loop
Wait ==
    /\ pc = "wait"
    /\ IF Waiting = {}
         THEN /\ LeaveLoop
              /\ UNCHANGED clock
         ELSE \E st \in Waiting :
                /\ \A other \in Waiting : until[st] <= until[other]
                /\ clock' = clock + (IF until[st] > now THEN until[st] - now ELSE 0)
                /\ pc' = "pass"
                /\ UNCHANGED processed
    /\ UNCHANGED <<visit, progressed, now, pending, until, pool, books, file, stale, behind, ghosts,
                   plan>>

EndLoop ==
    /\ pc = "pass"
    /\ ~SomePending
    /\ LeaveLoop
    /\ UNCHANGED <<visit, progressed, now, pending, until, pool, books, file, stale, behind, ghosts,
                   plan, clock>>

BuildSymbols ==
    {s \in Symbols \ failed : \A st \in MarketStages : outputs[st][s] # "none"}

\* should_rebuild_processed
ShouldRebuild(s) ==
    \/ \E st \in MarketStages : outputs[st][s] = "changed"
    \/ s \notin processed
    \/ s \in behind

Rebuilds == {s \in BuildSymbols : ShouldRebuild(s)}

\* Every stage name calls for the packed source, and its Python rebuild always
\* raises; only without any processed file is it left out and the report returned.
Ending(files) == IF files = {} THEN "done" ELSE "raised"

\* The end of the pipeline: collect_stage over rebuild_if_needed, then the packed
\* source. The rebuilds of two symbols share no file, so their order is left out.
\* A symbol is broken when its rebuild fails, and, once MAX_CONSECUTIVE_FAILURES
\* have, when its result was not consumed: its file may have been written then.
Finish ==
    /\ pc = "build"
    /\ built' = BuildSymbols
    /\ \E broken \in SUBSET BuildSymbols, wrote \in SUBSET Rebuilds :
          /\ Rebuilds \ broken \subseteq wrote
          /\ broken \cap wrote # {} => Cardinality(broken \ wrote) >= MaxFailures
          /\ failed' = failed \cup broken
          /\ processed' = processed \cup wrote
          /\ stale' = stale \ wrote
          /\ behind' = behind \ wrote
    /\ pc' = Ending(processed')
    /\ UNCHANGED <<visit, progressed, now, pending, until, pool, outputs, settled, file, ghosts, plan,
                   clock>>

\* returned, or left by the RuntimeError
Over == pc \in {"done", "raised"}

Done ==
    /\ Over
    /\ UNCHANGED vars

Next ==
    \/ StartPass
    \/ SkipStage
    \/ StartBatch
    \/ \E s \in Symbols :
          \/ StartWorker(s)
          \/ WorkerSaves(s)
          \/ WorkerKeeps(s)
          \/ WorkerFails(s)
          \/ WorkerRefused(s)
          \/ Consume(s)
          \/ Cancel(s)
    \/ Tick
    \/ EndBatch
    \/ EndPass
    \/ Wait
    \/ EndLoop
    \/ Finish
    \/ Done

Spec == Init /\ [][Next]_vars

\* Threads are scheduled and provider calls return.
FairSpec == Spec /\ WF_vars(Next)
-----------------------------------------------------------------------------
\* the symbols that final_results, once reached, reports ok
Ok == built \ failed

EachInOnePlace ==
    \A st \in StageSet :
        LET running == IF pc = "batch" /\ st = stage THEN batch ELSE <<>>
            waiting == running \o pending[st]
        IN  /\ IsInjective(waiting)
            /\ Range(waiting) = Symbols \ settled[st]

OkIsComplete == \A s \in Ok : \A st \in StageSet : outputs[st][s] # "none"

StaleOnlyAfterDrop == \A s \in Ok \cap stale : \E st \in MarketStages : <<st, s>> \in dropped

\* Whatever is refused, cancelled, abandoned or skipped, each symbol of a stage
\* is in exactly one place: its queue, the running batch, or the finished ones.
\* In the end, whether the run returns or raises, a symbol that counts as ok
\* has a result in every stage of the run, the event stages included, which the
\* processed stage does not look at; and it has a processed file as new as its
\* market files, unless a result that wrote one of them was dropped with an
\* abandoned batch. A run that returns its report has therefore no symbol ok.
EverySymbolAccounted ==
    /\ EachInOnePlace
    /\ Over => OkIsComplete /\ StaleOnlyAfterDrop /\ Ok \subseteq processed
    /\ pc = "done" => Ok = {}

WaitsOnlyWhenAllStagesCool ==
    pc = "wait" => \A st \in StageSet : pending[st] # <<>> => until[st] > clock

\* Neither too long nor too short: the scheduler sleeps only when every stage
\* with work left is cooling down, and no batch calls a provider interface
\* within the cooldown that followed the last refusal by it, however long the
\* calls after the refusal took and however old the `now` of the pass is. One
\* refusal is not heard: that of a worker still running when the batch is left
\* because of the failure threshold.
CooldownsKept ==
    /\ []WaitsOnlyWhenAllStagesCool
    /\ [][pc = "visit" /\ pc' = "batch" => restUntil[stage] <= clock \/ stage \in unheard]_vars

\* The pipeline ends when the provider's refusals do: it returns its report, or
\* raises in the rebuild of the packed source, as it does whenever a processed
\* file exists; it neither sleeps for ever nor runs one batch again and again.
PipelineEnds == <>Over
=============================================================================
