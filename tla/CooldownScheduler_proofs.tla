------------------------ MODULE CooldownScheduler_proofs ------------------------
(***************************************************************************)
(* What the scheduler of the Python pipeline keeps true for every set of   *)
(* symbols, list of stages, number of workers, failure threshold, cooldown *)
(* and answer of the provider.                                             *)
(***************************************************************************)
EXTENDS CooldownScheduler, DataTheorems

Tasks == Finished \cup {"queued", "running", "cancelled"}
Outputs == {"none", "changed", "unchanged"}
Running(st) == pc = "batch" /\ st = stage

(***************************************************************************)
(* Where the scheduler is. Between two batches the pool is empty; in a     *)
(* batch what is consumed has finished, and a refusal that was consumed    *)
(* has ended the loop over the results.                                    *)
(***************************************************************************)
ControlOK ==
  /\ pc \in {"pass", "visit", "batch", "wait", "build", "done", "raised"}
  /\ visit \in 1..(Len(Stages) + 1)
  /\ pending \in [StageSet -> Seq(Symbols)]
  /\ batch \in Seq(Symbols) /\ seen \in Seq(Symbols)
  /\ limitHit => broke
  /\ IF pc = "batch"
     THEN /\ visit <= Len(Stages)
          /\ task \in [Range(batch) -> Tasks]
          /\ Range(seen) \subseteq Range(batch) /\ IsInjective(seen)
          /\ \A s \in Range(seen) : task[s] \in Finished
          /\ \A s \in Range(seen) : task[s] = "limited" => limitHit
     ELSE batch = <<>> /\ seen = <<>> /\ ~broke

(***************************************************************************)
(* The clock. A pass that has made no progress took no time, and no stage  *)
(* it came by could run; a refusal asks for a cooldown that starts now at  *)
(* the latest, and is in force or was not heard once its batch is over.    *)
(***************************************************************************)
ClockOK ==
  /\ now \in Nat /\ clock \in Nat /\ now <= clock
  /\ until \in [StageSet -> Nat] /\ restUntil \in [StageSet -> Nat]
  /\ pc = "wait" => ~progressed /\ visit > Len(Stages)
  /\ pc \in {"visit", "wait"} /\ ~progressed =>
       /\ now = clock /\ SomePending
       /\ \A i \in 1..Len(Stages) :
            i < visit => pending[Stages[i]] = <<>> \/ until[Stages[i]] > now
  /\ \A st \in StageSet :
       /\ restUntil[st] <= clock + Cooldown
       /\ \/ restUntil[st] <= until[st]
          \/ st \in unheard
          \/ Running(st) /\ \E s \in Range(batch) : task[s] = "limited"

(***************************************************************************)
(* The places of a symbol in a stage: its queue, the batch, or settled.    *)
(***************************************************************************)
PlacesOK ==
  /\ settled \in [StageSet -> SUBSET Symbols]
  /\ pc = "batch" =>
       /\ IsInjective(batch)
       /\ Range(batch) \cap Range(pending[stage]) = {}
  /\ \A st \in StageSet :
       /\ IsInjective(pending[st])
       /\ Symbols \ settled[st] =
            Range(pending[st]) \cup (IF Running(st) THEN Range(batch) ELSE {})

(***************************************************************************)
(* The books: what is settled has a result or failed, and nothing else     *)
(* has; symbols are built when nothing is pending, and one that counts as  *)
(* ok has a processed file.                                                *)
(***************************************************************************)
BooksOK ==
  /\ outputs \in [StageSet -> [Symbols -> Outputs]]
  /\ \A st \in StageSet : \A s \in Symbols :
       /\ outputs[st][s] # "none" => s \in settled[st]
       /\ s \in settled[st] => outputs[st][s] # "none" \/ s \in failed
  /\ built \subseteq Symbols
  /\ ~Over => built = {}
  /\ pc = "build" \/ Over => ~SomePending
  /\ Ok \subseteq processed
  /\ pc = "done" => processed = {}

(***************************************************************************)
(* A symbol whose market file is newer than its processed file: the result *)
(* that wrote it is still in the batch, was booked, or was dropped.        *)
(***************************************************************************)
StaleOK ==
  \A s \in stale :
    /\ s \in Symbols
    /\ \E st \in MarketStages :
         \/ <<st, s>> \in dropped
         \/ outputs[st][s] = "changed" /\ s \notin Ok
         \/ Running(st) /\ s \in Range(batch) /\ task[s] = "changed"

SchedulerInv == ControlOK /\ ClockOK /\ PlacesOK /\ BooksOK /\ StaleOK

-----------------------------------------------------------------------------
(* The constants, and the first state.                                     *)

\* The stages of the run are the members of their list.
LEMMA StagesTyped ==
  /\ Len(Stages) \in Nat /\ Len(Stages) >= 1 /\ DOMAIN Stages = 1..Len(Stages)
  /\ \A i \in 1..Len(Stages) : Stages[i] \in StageSet
  /\ \A st \in StageSet : \E i \in 1..Len(Stages) : st = Stages[i]
  /\ MarketStages \subseteq StageSet
<1>1. Len(Stages) \in Nat /\ Len(Stages) # 0 /\ DOMAIN Stages = 1..Len(Stages)
  BY SchedulerAssumption, EmptySeq, LenProperties
<1> QED BY <1>1, SchedulerAssumption DEF StageSet, Range

\* The stage that the pass has reached is one of them.
LEMMA StageTyped ==
  ASSUME visit \in 1..(Len(Stages) + 1)
  PROVE  /\ stage \in StageSet
         /\ visit <= Len(Stages) => stage = Stages[visit]
<1>1. Len(Stages) \in 1..Len(Stages) /\ (visit < Len(Stages) => visit \in 1..Len(Stages))
  BY StagesTyped
<1>2. visit <= Len(Stages) /\ ~(visit < Len(Stages)) => visit = Len(Stages)
  <2>1. visit \in Int /\ Len(Stages) \in Int
    BY StagesTyped
  <2> QED BY <2>1
<1> QED BY <1>1, <1>2, StagesTyped DEF stage

\* SetToSeq arranges a finite set.
LEMMA Arrangement ==
  ASSUME NEW S, IsFiniteSet(S)
  PROVE  SetToSeq(S) \in Seq(S) /\ IsInjective(SetToSeq(S)) /\ Range(SetToSeq(S)) = S
<1> DEFINE n == Cardinality(S)
<1>1. n \in Nat
  BY FS_CardinalityType
<1>2. ExistsBijection(1..n, S)
  <2>1. PICK m \in Nat : ExistsBijection(1..m, S)
    BY FS_NatBijection
  <2>2. n = m
    BY <2>1, FS_CountingElements
  <2> QED BY <2>1, <2>2
<1> HIDE DEF n
<1>3. PICK f \in Bijection(1..n, S) : TRUE
  BY <1>2 DEF ExistsBijection
<1>4. f \in [1..n -> S] /\ IsInjective(f) /\ \A y \in S : \E i \in 1..n : f[i] = y
  BY <1>3 DEF Bijection, Injection, Surjection, IsInjective
<1>5. SetToSeq(S) \in [1..n -> S] /\ IsInjective(SetToSeq(S))
  BY <1>4 DEF SetToSeq, n
<1> DEFINE q == SetToSeq(S)
<1> HIDE DEF q
<1>6. q \in [1..n -> S] /\ IsInjective(q)
  BY <1>5 DEF q
<1>7. q \in Injection(1..n, S)
  BY <1>6 DEF Injection, IsInjective
<1>8. Range(q) = S
  <2>1. Cardinality(1..n) = n /\ IsFiniteSet(1..n)
    BY <1>1, FS_Interval
  <2>2. q \in Surjection(1..n, S)
    BY <1>7, <2>1, FS_Injection DEF n
  <2> QED BY <1>6, <2>2 DEF Surjection, Range
<1> QED BY <1>1, <1>6, <1>8, SeqDef DEF q

\* The parameters that the invariant counts with.
LEMMA ParametersTyped == MaxWorkers \in Nat \ {0} /\ Cooldown \in Nat /\ MaxFailures \in Nat
BY SchedulerAssumption

(***************************************************************************)
(* At the start each symbol of a stage is pending, or current and settled. *)
(***************************************************************************)
LEMMA InitSchedulerInv == Init => SchedulerInv
<1> SUFFICES ASSUME Init PROVE SchedulerInv
  OBVIOUS
<1>1. ASSUME NEW st \in StageSet
      PROVE  /\ Planned(st) \subseteq Symbols
             /\ pending[st] \in Seq(Planned(st)) /\ pending[st] \in Seq(Symbols)
             /\ IsInjective(pending[st]) /\ Range(pending[st]) = Planned(st)
  <2>1. Planned(st) \subseteq Symbols /\ IsFiniteSet(Planned(st))
    BY SchedulerAssumption, FS_Subset DEF Planned
  <2>2. pending[st] = SetToSeq(Planned(st))
    BY DEF Init
  <2>3. /\ pending[st] \in Seq(Planned(st))
        /\ IsInjective(pending[st]) /\ Range(pending[st]) = Planned(st)
    BY <2>1, <2>2, Arrangement
  <2>4. pending[st] \in Seq(Symbols)
    BY <2>1, <2>3, SeqMonotonic
  <2> QED BY <2>1, <2>3, <2>4
<1>2. <<>> \in Seq(Symbols) /\ Range(<<>>) = {}
  BY EmptySeq DEF Range
<1>3. ControlOK
  <2>1. pending \in [StageSet -> Seq(Symbols)]
    BY <1>1 DEF Init
  <2> QED BY <1>2, <2>1, StagesTyped DEF Init, ControlOK
<1>4. ClockOK
  BY ParametersTyped DEF Init, ClockOK
<1>5. PlacesOK
  BY <1>1 DEF Init, PlacesOK, Running
<1>6. BooksOK
  BY <1>1 DEF Init, BooksOK, Outputs, Over, Ok
<1>7. StaleOK
  BY DEF Init, StaleOK
<1> QED BY <1>3, <1>4, <1>5, <1>6, <1>7 DEF SchedulerInv

-----------------------------------------------------------------------------
(* The steps, in four kinds.                                               *)

\* The scheduler moves between batches; nothing but the clock, its place in the
\* loops and what it knows of processed files changes.
Moves ==
  /\ pc # "batch" /\ pc' # "batch"
  /\ UNCHANGED <<pending, until, pool, file, stale, behind, ghosts, plan, outputs, settled, failed,
                 built>>

\* A future of the batch changes its state.
Works(s, to) ==
  /\ pc = "batch" /\ s \in Range(batch) /\ task[s] \in {"queued", "running"}
  /\ to \in Tasks
  /\ task' = [task EXCEPT ![s] = to]
  /\ UNCHANGED <<sched, batch, seen, limitHit, broke, books, plan, clock, dropped, unheard>>
  /\ stale' = stale \cup (IF to = "changed" /\ stage \in MarketStages THEN {s} ELSE {})
  /\ restUntil' = IF to = "limited" THEN [restUntil EXCEPT ![stage] = clock + Cooldown]
                  ELSE restUntil

Working == \E s \in Symbols :
  StartWorker(s) \/ WorkerSaves(s) \/ WorkerKeeps(s) \/ WorkerFails(s)
    \/ WorkerRefused(s) \/ Cancel(s)

\* The steps between batches are moves.
LEMMA MovesAre ==
  ASSUME StartPass \/ SkipStage \/ EndPass \/ Wait \/ EndLoop
  PROVE  Moves
<1>1. pc # "batch" /\ pc' # "batch"
  BY DEF StartPass, SkipStage, EndPass, Wait, EndLoop, LeaveLoop
<1>2. UNCHANGED <<pending, until, pool, file, stale, behind, ghosts, plan, outputs, settled, failed,
                  built>>
  BY DEF StartPass, SkipStage, EndPass, Wait, EndLoop, books, disk
<1> QED BY <1>1, <1>2 DEF Moves

\* The steps of workers and the cancellations are of one form.
LEMMA WorkingIs ==
  ASSUME Working
  PROVE  \E s \in Symbols, to \in Tasks : Works(s, to)
<1>1. PICK s \in Symbols :
        StartWorker(s) \/ WorkerSaves(s) \/ WorkerKeeps(s) \/ WorkerFails(s)
          \/ WorkerRefused(s) \/ Cancel(s)
  BY DEF Working
<1>2. CASE StartWorker(s)
  <2>1. Works(s, "running")
    BY <1>2 DEF StartWorker, SetTask, Works, Tasks, disk, ghosts
  <2> QED BY <2>1 DEF Tasks
<1>3. CASE WorkerSaves(s)
  <2>1. Works(s, "changed")
    BY <1>3 DEF WorkerSaves, SetTask, Works, Tasks, Finished, disk, ghosts
  <2> QED BY <2>1 DEF Tasks, Finished
<1>4. CASE WorkerKeeps(s)
  <2>1. Works(s, "unchanged")
    BY <1>4 DEF WorkerKeeps, SetTask, Works, Tasks, Finished, disk, ghosts
  <2> QED BY <2>1 DEF Tasks, Finished
<1>5. CASE WorkerFails(s)
  <2>1. Works(s, "failed")
    BY <1>5 DEF WorkerFails, SetTask, Works, Tasks, Finished, disk, ghosts
  <2> QED BY <2>1 DEF Tasks, Finished
<1>6. CASE WorkerRefused(s)
  <2>1. Works(s, "limited")
    BY <1>6 DEF WorkerRefused, SetTask, Works, Tasks, Finished, disk
  <2> QED BY <2>1 DEF Tasks, Finished
<1>7. CASE Cancel(s)
  <2>1. Works(s, "cancelled")
    BY <1>7 DEF Cancel, SetTask, Works, Tasks, disk, ghosts
  <2> QED BY <2>1 DEF Tasks
<1> QED BY <1>1, <1>2, <1>3, <1>4, <1>5, <1>6, <1>7

\* What is left of a batch that was abandoned, and what a batch took.
LEMMA BatchTaken ==
  ASSUME ControlOK, StartBatch
  PROVE  /\ stage \in StageSet
         /\ batch' \in Seq(Symbols) /\ pending'[stage] \in Seq(Symbols)
         /\ Range(batch') \cup Range(pending'[stage]) = Range(pending[stage])
         /\ IsInjective(pending[stage]) =>
              /\ IsInjective(batch') /\ IsInjective(pending'[stage])
              /\ Range(batch') \cap Range(pending'[stage]) = {}
         /\ pending' \in [StageSet -> Seq(Symbols)]
         /\ \A st \in StageSet : st # stage => pending'[st] = pending[st]
<1>1. stage \in StageSet /\ pending[stage] \in Seq(Symbols)
  BY StageTyped DEF ControlOK
<1> DEFINE q == pending[stage]
           n == IF MaxWorkers < Len(q) THEN MaxWorkers ELSE Len(q)
<1>2. Len(q) \in Nat
  BY <1>1, LenProperties
<1>3. n \in 0..Len(q)
  BY <1>2, ParametersTyped
<1>4. /\ batch' = SubSeq(q, 1, n)
      /\ pending' = [pending EXCEPT ![stage] = SubSeq(q, n + 1, Len(q))]
  BY DEF StartBatch
<1>5. pending'[stage] = SubSeq(q, n + 1, Len(q))
  BY <1>1, <1>4 DEF ControlOK
<1> HIDE DEF n
<1>6. /\ batch' \in Seq(Symbols) /\ pending'[stage] \in Seq(Symbols)
      /\ Range(batch') \cup Range(pending'[stage]) = Range(q)
      /\ IsInjective(q) =>
              /\ IsInjective(batch') /\ IsInjective(pending'[stage])
              /\ Range(batch') \cap Range(pending'[stage]) = {}
  <2>1. q \in Seq(Symbols)
    BY <1>1
  <2> HIDE DEF q
  <2> DEFINE a == SubSeq(q, 1, n)
             b == SubSeq(q, n + 1, Len(q))
  <2>2. /\ a \in Seq(Symbols) /\ b \in Seq(Symbols)
        /\ Range(a) \cup Range(b) = Range(q)
        /\ IsInjective(q) =>
              IsInjective(a) /\ IsInjective(b) /\ Range(a) \cap Range(b) = {}
    BY <1>3, <2>1, SplitMembers
  <2>3. batch' = a /\ pending'[stage] = b
    BY <1>4, <1>5
  <2> HIDE DEF a, b
  <2> QED BY <2>2, <2>3
<1> QED BY <1>1, <1>4, <1>5, <1>6 DEF ControlOK

\* The consumed results that are booked.
Booked == {s \in Range(seen) : task[s] # "limited"}

(***************************************************************************)
(* The end of a batch: what was not booked returns to the queue after a    *)
(* refusal, and is settled as failed after the failure threshold.          *)
(***************************************************************************)
LEMMA BatchEnded ==
  ASSUME ControlOK, PlacesOK, EndBatch
  PROVE  /\ stage \in StageSet
         /\ pending' \in [StageSet -> Seq(Symbols)]
         /\ \A st \in StageSet : st # stage => pending'[st] = pending[st]
         /\ IsInjective(pending'[stage])
         /\ Range(pending'[stage]) =
              Range(pending[stage]) \cup (IF limitHit THEN Range(batch) \ Booked ELSE {})
         /\ Range(Deferred) = Range(batch) \ Range(seen)
         /\ Booked \subseteq Range(batch)
         /\ ~limitHit => Booked = Range(seen)
<1>1. stage \in StageSet /\ pending[stage] \in Seq(Symbols)
  BY StageTyped DEF ControlOK
<1>2. /\ pc = "batch" /\ Range(seen) \subseteq Range(batch) /\ IsInjective(seen)
      /\ batch \in Seq(Symbols) /\ seen \in Seq(Symbols)
      /\ \A s \in Range(seen) : task[s] = "limited" => limitHit
  BY DEF ControlOK, EndBatch
<1>3. /\ IsInjective(batch) /\ IsInjective(pending[stage])
      /\ Range(batch) \cap Range(pending[stage]) = {}
  BY <1>1, <1>2 DEF PlacesOK
<1>4. /\ Retry \in Seq(Range(seen)) /\ IsInjective(Retry)
      /\ Range(Retry) = Range(seen) \ Booked
  <2>1. /\ Retry \in Seq(Range(seen)) /\ IsInjective(Retry)
        /\ Range(Retry) = Range(seen) \cap {s \in Range(seen) : task[s] = "limited"}
    BY <1>2, KeptMembers DEF Retry
  <2> QED BY <2>1 DEF Booked
<1>5. /\ Deferred \in Seq(Range(batch)) /\ IsInjective(Deferred)
      /\ Range(Deferred) = Range(batch) \ Range(seen)
  BY <1>2, <1>3, KeptMembers DEF Deferred
<1>6. Range(batch) \subseteq Symbols
  BY <1>2, SequenceMembers
<1>7. Retry \in Seq(Symbols) /\ Deferred \in Seq(Symbols)
  BY <1>2, <1>4, <1>5, <1>6, SeqMonotonic
<1>8. /\ Retry \o Deferred \in Seq(Symbols) /\ IsInjective(Retry \o Deferred)
      /\ Range(Retry \o Deferred) = Range(batch) \ Booked
  <2>1. Range(Retry) \cap Range(Deferred) = {}
    BY <1>4, <1>5
  <2>2. (Range(seen) \ Booked) \cup (Range(batch) \ Range(seen)) = Range(batch) \ Booked
    BY <1>2 DEF Booked
  <2> QED BY <1>4, <1>5, <1>7, <2>1, <2>2, ConcatMembers
<1> DEFINE q == Retry \o Deferred \o pending[stage]
<1>9. /\ q \in Seq(Symbols) /\ IsInjective(q)
      /\ Range(q) = (Range(batch) \ Booked) \cup Range(pending[stage])
  <2> DEFINE a == Retry \o Deferred
             b == pending[stage]
  <2>1. /\ a \in Seq(Symbols) /\ IsInjective(a) /\ Range(a) = Range(batch) \ Booked
        /\ b \in Seq(Symbols) /\ IsInjective(b) /\ Range(a) \cap Range(b) = {}
    BY <1>1, <1>3, <1>8
  <2> HIDE DEF a, b
  <2>2. a \o b \in Seq(Symbols) /\ IsInjective(a \o b) /\ Range(a \o b) = Range(a) \cup Range(b)
    BY <2>1, ConcatMembers
  <2> QED BY <2>1, <2>2 DEF a, b
<1>10. CASE limitHit
  <2>1. pending' = [pending EXCEPT ![stage] = q]
    BY <1>10 DEF EndBatch
  <2> HIDE DEF q
  <2> QED BY <1>1, <1>2, <1>5, <1>9, <1>10, <2>1 DEF ControlOK, Booked
<1>11. CASE ~limitHit
  <2>1. pending' = pending
    BY <1>11 DEF EndBatch
  <2> QED BY <1>1, <1>2, <1>3, <1>5, <1>11, <2>1 DEF ControlOK, Booked
<1> QED BY <1>10, <1>11

-----------------------------------------------------------------------------
(* Each part of the invariant is kept.                                     *)

\* The scheduler's place, its queues and its batch stay in step.
LEMMA NextControlOK ==
  ASSUME ControlOK, PlacesOK, [Next]_vars
  PROVE  ControlOK'
<1>1. CASE StartPass \/ SkipStage \/ EndPass \/ Wait \/ EndLoop
  <2>1. Moves
    BY <1>1, MovesAre
  <2>2. pc' \in {"pass", "visit", "batch", "wait", "build", "done", "raised"}
    BY <1>1 DEF StartPass, SkipStage, EndPass, Wait, EndLoop, LeaveLoop, ControlOK
  <2>3. visit' \in 1..(Len(Stages) + 1)
    <3>1. CASE SkipStage
      BY <3>1, StagesTyped DEF SkipStage, ControlOK
    <3>2. CASE StartPass
      BY <3>2, StagesTyped DEF StartPass
    <3>3. CASE EndPass \/ Wait \/ EndLoop
      BY <3>3 DEF EndPass, Wait, EndLoop, ControlOK
    <3> QED BY <1>1, <3>1, <3>2, <3>3
  <2> QED BY <2>1, <2>2, <2>3 DEF Moves, ControlOK, pool
<1>2. CASE StartBatch
  <2>1. /\ pc' = "batch" /\ visit' = visit /\ visit <= Len(Stages)
        /\ seen = <<>> /\ seen' = <<>> /\ UNCHANGED <<limitHit, broke>>
        /\ task' = [s \in Range(batch') |-> "queued"]
    BY <1>2 DEF StartBatch, ControlOK
  <2>2. Range(<<>>) = {} /\ IsInjective(<<>>)
    BY DEF Range, IsInjective
  <2>3. task' \in [Range(batch') -> Tasks]
    BY <2>1 DEF Tasks
  <2> QED BY <1>2, <2>1, <2>2, <2>3, BatchTaken DEF ControlOK
<1>3. CASE Working
  <2>1. PICK s \in Symbols, to \in Tasks : Works(s, to)
    BY <1>3, WorkingIs
  <2>2. /\ pc = "batch" /\ task \in [Range(batch) -> Tasks]
        /\ s \in Range(batch) /\ task[s] \notin Finished
        /\ task' = [task EXCEPT ![s] = to]
        /\ UNCHANGED <<pc, visit, pending, batch, seen, limitHit, broke>>
    BY <2>1 DEF Works, ControlOK, sched, Finished
  <2>3. task' \in [Range(batch) -> Tasks]
    BY <2>2
  <2>4. \A x \in Range(seen) : task'[x] = task[x]
    BY <2>2 DEF ControlOK
  <2> QED BY <2>2, <2>3, <2>4 DEF ControlOK
<1>4. CASE Tick
  BY <1>4 DEF Tick, ControlOK, sched, pool
<1>5. CASE \E s \in Symbols : Consume(s)
  <2>1. PICK s \in Symbols : Consume(s)
    BY <1>5
  <2>2. /\ pc = "batch" /\ ~broke /\ ~limitHit
        /\ s \in Range(batch) /\ s \notin Range(seen) /\ task[s] \in Finished
        /\ seen' = Append(seen, s)
        /\ limitHit' = (task[s] = "limited")
        /\ limitHit' => broke'
        /\ UNCHANGED <<pc, visit, pending, batch, task>>
    BY <2>1 DEF Consume, ControlOK, sched
  <2>3. /\ seen' \in Seq(Symbols) /\ Range(seen') = Range(seen) \cup {s}
        /\ IsInjective(seen')
    BY <2>2, AppendOne DEF ControlOK
  <2> QED BY <2>2, <2>3 DEF ControlOK
<1>6. CASE EndBatch
  <2>1. /\ pc' = "visit" /\ visit' = visit + 1 /\ visit <= Len(Stages)
        /\ batch' = <<>> /\ seen' = <<>> /\ ~limitHit' /\ ~broke'
    BY <1>6 DEF EndBatch, ControlOK
  <2>2. visit' \in 1..(Len(Stages) + 1)
    BY <2>1, StagesTyped DEF ControlOK
  <2>3. <<>> \in Seq(Symbols)
    BY EmptySeq
  <2> QED BY <1>6, <2>1, <2>2, <2>3, BatchEnded DEF ControlOK
<1>7. CASE Finish
  BY <1>7 DEF Finish, Ending, ControlOK, pool
<1>8. CASE Done \/ UNCHANGED vars
  BY <1>8 DEF Done, vars, ControlOK, sched, pool
<1> QED BY <1>1, <1>2, <1>3, <1>4, <1>5, <1>6, <1>7, <1>8 DEF Next, Working

\* Reading the clock, a pass, a sleep and a refusal keep the times in order.
LEMMA NextClockOK ==
  ASSUME ControlOK, ClockOK, PlacesOK, [Next]_vars
  PROVE  ClockOK'
<1>1. CASE StartPass
  <2>1. /\ pc = "pass" /\ pc' = "visit" /\ visit' = 1 /\ now' = clock /\ SomePending
        /\ UNCHANGED <<pending, until, clock, restUntil, unheard>>
    BY <1>1 DEF StartPass, ghosts
  <2>2. SomePending' <=> SomePending
    BY <2>1 DEF SomePending
  <2>3. \A i \in 1..Len(Stages) : ~(i < visit')
    BY <2>1, StagesTyped
  <2> QED BY <2>1, <2>2, <2>3 DEF ClockOK, Running
<1>2. CASE SkipStage
  <2>1. /\ pc = "visit" /\ pc' = "visit" /\ visit' = visit + 1 /\ visit <= Len(Stages)
        /\ pending[stage] = <<>> \/ until[stage] > now
        /\ UNCHANGED <<progressed, pending, until, now, clock, restUntil, unheard>>
    BY <1>2 DEF SkipStage, ghosts
  <2>2. SomePending' <=> SomePending
    BY <2>1 DEF SomePending
  <2>3. stage = Stages[visit] /\ visit \in Nat
    BY <2>1, StageTyped, StagesTyped DEF ControlOK
  <2>4. \A i \in 1..Len(Stages) : i < visit' => i < visit \/ i = visit
    BY <2>1, <2>3, StagesTyped
  <2> QED BY <2>1, <2>2, <2>3, <2>4 DEF ClockOK, Running
<1>3. CASE StartBatch
  <2>1. pc = "visit" /\ pc' = "batch" /\ UNCHANGED <<until, now, clock, restUntil, unheard>>
    BY <1>3 DEF StartBatch, ghosts
  <2> QED BY <2>1 DEF ClockOK, Running
<1>4. CASE Working
  <2>1. PICK s \in Symbols, to \in Tasks : Works(s, to)
    BY <1>4, WorkingIs
  <2>2. /\ pc = "batch" /\ pc' = "batch" /\ stage' = stage /\ s \in Range(batch)
        /\ task \in [Range(batch) -> Tasks] /\ task[s] \in {"queued", "running"}
        /\ task' = [task EXCEPT ![s] = to]
        /\ UNCHANGED <<until, now, clock, unheard, batch>>
    BY <2>1 DEF Works, sched, ControlOK, stage
  <2>3. stage \in StageSet
    BY StageTyped DEF ControlOK
  <2>4. /\ restUntil' \in [StageSet -> Nat]
        /\ \A st \in StageSet : restUntil'[st] = restUntil[st]
             \/ (restUntil'[st] = clock + Cooldown /\ st = stage /\ task'[s] = "limited")
    BY <2>1, <2>2, <2>3, ParametersTyped DEF ClockOK, Works
  <2>5. \A st \in StageSet : restUntil'[st] <= clock + Cooldown
    BY <2>4, ParametersTyped DEF ClockOK
  <2>6. \A x \in Range(batch) : task[x] = "limited" => task'[x] = "limited"
    BY <2>2
  <2>7. \A st \in StageSet :
          \/ restUntil'[st] <= until[st] \/ st \in unheard
          \/ Running(st)' /\ \E x \in Range(batch) : task'[x] = "limited"
    BY <2>2, <2>4, <2>6 DEF ClockOK, Running
  <2> QED BY <2>2, <2>4, <2>5, <2>7 DEF ClockOK
<1>5. CASE Tick
  <2>1. /\ pc = "batch" /\ pc' = "batch" /\ clock' = clock + 1
        /\ UNCHANGED <<visit, now, until, restUntil, unheard, batch, task>>
    BY <1>5 DEF Tick, sched, pool
  <2>2. clock' \in Nat /\ now <= clock' /\ \A n \in Nat : n <= clock + Cooldown => n <= clock' + Cooldown
    BY <2>1, ParametersTyped DEF ClockOK
  <2> QED BY <2>1, <2>2 DEF ClockOK, Running, stage
<1>6. CASE \E s \in Symbols : Consume(s)
  <2>1. /\ pc = "batch" /\ pc' = "batch"
        /\ UNCHANGED <<visit, now, clock, until, restUntil, unheard, batch, task>>
    BY <1>6 DEF Consume, sched, ghosts
  <2> QED BY <2>1 DEF ClockOK, Running, stage
<1>7. CASE EndBatch
  <2>1. /\ pc = "batch" /\ pc' = "visit" /\ progressed' = TRUE
        /\ UNCHANGED <<now, clock, restUntil>>
        /\ \A s \in Range(seen) : task[s] = "limited" => limitHit
    BY <1>7 DEF EndBatch, ControlOK
  <2>2. stage \in StageSet /\ clock + Cooldown \in Nat
    BY StageTyped, ParametersTyped DEF ControlOK, ClockOK
  <2>3. CASE limitHit
    <3>1. /\ until' = [until EXCEPT ![stage] = clock + Cooldown]
          /\ unheard' = unheard \ {stage}
      BY <1>7, <2>3 DEF EndBatch, ResumeAt
    <3> QED BY <2>1, <2>2, <3>1 DEF ClockOK, Running
  <2>4. CASE ~limitHit
    <3>1. /\ until' = until
          /\ unheard' = IF \E s \in Range(batch) : task[s] = "limited"
                        THEN unheard \cup {stage} ELSE unheard
      BY <1>7, <2>4 DEF EndBatch
    <3> QED BY <2>1, <2>2, <3>1 DEF ClockOK, Running
  <2> QED BY <2>3, <2>4
<1>8. CASE EndPass
  <2>1. /\ pc = "visit" /\ visit > Len(Stages)
        /\ pc' = IF progressed THEN "pass" ELSE "wait"
        /\ UNCHANGED <<visit, progressed, now, pending, until, clock, restUntil, unheard>>
    BY <1>8 DEF EndPass, ghosts
  <2>2. SomePending' <=> SomePending
    BY <2>1 DEF SomePending
  <2> QED BY <2>1, <2>2 DEF ClockOK, Running
<1>9. CASE Wait
  <2>1. /\ pc = "wait" /\ pc' \in {"build", "pass"}
        /\ UNCHANGED <<visit, now, until, restUntil, unheard>>
    BY <1>9 DEF Wait, LeaveLoop, ghosts
  <2>2. clock' \in Nat /\ clock' >= clock
    <3>1. CASE UNCHANGED clock
      BY <3>1 DEF ClockOK
    <3>2. CASE \E st \in Waiting : clock' = clock + (IF until[st] > now THEN until[st] - now ELSE 0)
      <4>1. PICK st \in StageSet : clock' = clock + (IF until[st] > now THEN until[st] - now ELSE 0)
        BY <3>2 DEF Waiting
      <4>2. until[st] \in Nat /\ now \in Nat /\ clock \in Nat
        BY DEF ClockOK
      <4> QED BY <4>1, <4>2
    <3> QED BY <1>9, <3>1, <3>2 DEF Wait
  <2>3. \A n \in Nat : n <= clock + Cooldown => n <= clock' + Cooldown
    BY <2>2, ParametersTyped DEF ClockOK
  <2>4. now <= clock'
    BY <2>2 DEF ClockOK
  <2> QED BY <2>1, <2>2, <2>3, <2>4 DEF ClockOK, Running
<1>10. CASE EndLoop \/ Finish
  <2>1. /\ pc \in {"pass", "build"} /\ pc' \in {"build", "done", "raised"}
        /\ UNCHANGED <<now, clock, until, restUntil, unheard>>
    BY <1>10 DEF EndLoop, LeaveLoop, Finish, Ending, ghosts
  <2> QED BY <2>1 DEF ClockOK, Running
<1>11. CASE Done \/ UNCHANGED vars
  BY <1>11 DEF Done, vars, sched, pool, ghosts, ClockOK, Running, SomePending, stage
<1> QED BY <1>1, <1>2, <1>3, <1>4, <1>5, <1>6, <1>7, <1>8, <1>9, <1>10, <1>11 DEF Next, Working

\* Every step leaves each symbol of a stage in one place.
LEMMA NextPlacesOK ==
  ASSUME ControlOK, PlacesOK, [Next]_vars
  PROVE  PlacesOK'
<1>1. CASE StartPass \/ SkipStage \/ EndPass \/ Wait \/ EndLoop
  <2>1. Moves
    BY <1>1, MovesAre
  <2> QED BY <2>1 DEF Moves, PlacesOK, Running
<1>2. CASE StartBatch
  <2>1. pc = "visit" /\ pc' = "batch" /\ stage' = stage /\ settled' = settled
    BY <1>2 DEF StartBatch, books, stage
  <2> QED BY <1>2, <2>1, BatchTaken DEF PlacesOK, Running
<1>3. CASE Working \/ Tick \/ \E s \in Symbols : Consume(s)
  <2>1. UNCHANGED <<pc, visit, pending, batch, settled>>
    <3>1. CASE Working
      <4>1. PICK s \in Symbols, to \in Tasks : Works(s, to)
        BY <3>1, WorkingIs
      <4> QED BY <4>1 DEF Works, sched, books
    <3>2. CASE Tick \/ \E s \in Symbols : Consume(s)
      BY <3>2 DEF Tick, Consume, sched, pool, books
    <3> QED BY <1>3, <3>1, <3>2
  <2> QED BY <2>1 DEF PlacesOK, Running, stage
<1>4. CASE EndBatch
  <2>1. /\ pc = "batch" /\ pc' = "visit"
        /\ settled' = [settled EXCEPT ![stage] = @ \cup Booked \cup Skipped]
    BY <1>4 DEF EndBatch, Booked
  <2>2. Booked \cup Skipped = IF limitHit THEN Booked ELSE Range(batch)
    BY <1>4, <2>1, BatchEnded DEF Skipped, ControlOK
  <2>3. Range(batch) \subseteq Symbols
    BY SequenceMembers DEF ControlOK
  <2>4. settled' \in [StageSet -> SUBSET Symbols]
    BY <1>4, <2>1, <2>2, <2>3, BatchEnded DEF PlacesOK
  <2>5. /\ \A st \in StageSet : st # stage => settled'[st] = settled[st]
        /\ settled'[stage] = settled[stage] \cup (IF limitHit THEN Booked ELSE Range(batch))
    BY <1>4, <2>1, <2>2, BatchEnded DEF PlacesOK
  <2>6. /\ Symbols \ settled[stage] = Range(pending[stage]) \cup Range(batch)
        /\ Range(batch) \cap Range(pending[stage]) = {}
    BY <1>4, <2>1, BatchEnded DEF PlacesOK, Running
  <2>7. Symbols \ settled'[stage] = Range(pending'[stage])
    BY <1>4, <2>5, <2>6, BatchEnded
  <2> QED BY <1>4, <2>1, <2>4, <2>5, <2>7, BatchEnded DEF PlacesOK, Running
<1>5. CASE Finish
  <2>1. pc = "build" /\ pc' # "batch" /\ UNCHANGED <<pending, settled>>
    BY <1>5 DEF Finish, Ending
  <2> QED BY <2>1 DEF PlacesOK, Running
<1>6. CASE Done \/ UNCHANGED vars
  BY <1>6 DEF Done, vars, sched, pool, books, PlacesOK, Running, stage
<1> QED BY <1>1, <1>2, <1>3, <1>4, <1>5, <1>6 DEF Next, Working

\* What the end of a batch writes into the books.
LEMMA BatchBooked ==
  ASSUME ControlOK, PlacesOK, BooksOK, EndBatch
  PROVE  /\ outputs' \in [StageSet -> [Symbols -> Outputs]]
         /\ \A st \in StageSet : \A s \in Symbols :
              outputs'[st][s] = IF st = stage /\ s \in Booked /\ task[s] # "failed"
                                THEN task[s] ELSE outputs[st][s]
         /\ failed' = failed \cup {s \in Booked : task[s] = "failed"}
                             \cup (IF limitHit THEN {} ELSE Range(batch) \ Booked)
         /\ \A st \in StageSet : st # stage => settled'[st] = settled[st]
         /\ settled'[stage] = settled[stage] \cup (IF limitHit THEN Booked ELSE Range(batch))
         /\ \A s \in Booked : task[s] \in {"changed", "unchanged", "failed"}
         /\ \A s \in Range(batch) : s \in Symbols /\ s \notin settled[stage]
<1>1. pc = "batch" /\ stage \in StageSet /\ Booked \subseteq Range(batch)
  BY BatchEnded DEF EndBatch
<1>2. \A s \in Booked : task[s] \in {"changed", "unchanged", "failed"}
  BY <1>1 DEF ControlOK, Booked, Finished
<1>3. outputs' = [outputs EXCEPT ![stage] =
                    [s \in Symbols |->
                       IF s \in Booked /\ task[s] # "failed" THEN task[s] ELSE @[s]]]
  BY DEF EndBatch, Booked
<1>4. \A st \in StageSet : \A s \in Symbols :
        outputs'[st][s] = IF st = stage /\ s \in Booked /\ task[s] # "failed"
                          THEN task[s] ELSE outputs[st][s]
  BY <1>1, <1>3 DEF BooksOK
<1>5. outputs' \in [StageSet -> [Symbols -> Outputs]]
  <2>1. [s \in Symbols |-> IF s \in Booked /\ task[s] # "failed" THEN task[s]
                           ELSE outputs[stage][s]] \in [Symbols -> Outputs]
    BY <1>1, <1>2 DEF BooksOK, Outputs
  <2> QED BY <1>1, <1>3, <2>1 DEF BooksOK
<1>6. Skipped = IF limitHit THEN {} ELSE Range(batch) \ Booked
  BY BatchEnded DEF Skipped
<1>7. failed' = failed \cup {s \in Booked : task[s] = "failed"} \cup Skipped
  BY DEF EndBatch, Booked
<1>8. settled' = [settled EXCEPT ![stage] = @ \cup Booked \cup Skipped]
  BY DEF EndBatch, Booked
<1>9. Booked \cup Skipped = IF limitHit THEN Booked ELSE Range(batch)
  BY <1>1, <1>6
<1>10. /\ \A st \in StageSet : st # stage => settled'[st] = settled[st]
       /\ settled'[stage] = settled[stage] \cup (IF limitHit THEN Booked ELSE Range(batch))
  BY <1>1, <1>8, <1>9 DEF PlacesOK
<1>11. \A s \in Range(batch) : s \in Symbols /\ s \notin settled[stage]
  BY <1>1 DEF PlacesOK, Running
<1> QED BY <1>2, <1>4, <1>5, <1>6, <1>7, <1>10, <1>11

\* Results are booked when symbols are settled, and nothing is built before
\* everything is.
LEMMA NextBooksOK ==
  ASSUME ControlOK, ClockOK, PlacesOK, BooksOK, [Next]_vars
  PROVE  BooksOK'
<1>1. CASE StartPass \/ SkipStage \/ EndPass
  <2>1. /\ pc \in {"pass", "visit"} /\ pc' \in {"pass", "visit", "wait"}
        /\ UNCHANGED <<outputs, settled, failed, built>>
    BY <1>1 DEF StartPass, SkipStage, EndPass, books
  <2> QED BY <2>1 DEF BooksOK, Over, Ok
<1>2. CASE EndLoop
  <2>1. /\ pc = "pass" /\ pc' = "build" /\ ~SomePending
        /\ UNCHANGED <<outputs, settled, failed, built, pending>>
    BY <1>2 DEF EndLoop, LeaveLoop, books
  <2> QED BY <2>1 DEF BooksOK, SomePending, Over, Ok
<1>3. CASE Wait
  <2>1. Waiting # {}
    <3>1. /\ SomePending /\ visit > Len(Stages)
          /\ \A i \in 1..Len(Stages) :
               i < visit => pending[Stages[i]] = <<>> \/ until[Stages[i]] > now
      BY <1>3 DEF Wait, ClockOK
    <3>2. PICK st \in StageSet : pending[st] # <<>>
      BY <3>1 DEF SomePending
    <3>3. PICK i \in 1..Len(Stages) : st = Stages[i]
      BY StagesTyped
    <3>4. i < visit
      BY <3>1, <3>3, StagesTyped DEF ControlOK
    <3> QED BY <3>1, <3>2, <3>3, <3>4 DEF Waiting
  <2>2. pc = "wait" /\ pc' = "pass" /\ UNCHANGED <<outputs, settled, failed, built>>
    BY <1>3, <2>1 DEF Wait, books
  <2> QED BY <2>2 DEF BooksOK, Over, Ok
<1>4. CASE StartBatch \/ Tick \/ \E s \in Symbols : Consume(s)
  <2>1. /\ pc \in {"visit", "batch"} /\ pc' = "batch"
        /\ UNCHANGED <<outputs, settled, failed, built>>
    BY <1>4 DEF StartBatch, Tick, Consume, books, sched
  <2> QED BY <2>1 DEF BooksOK, Over, Ok
<1>5. CASE Working
  <2>1. pc = "batch" /\ pc' = "batch" /\ UNCHANGED <<outputs, settled, failed, built>>
    BY <1>5, WorkingIs DEF Works, sched, books
  <2> QED BY <2>1 DEF BooksOK, Over, Ok
<1>6. CASE EndBatch
  <2>1. pc = "batch" /\ pc' = "visit" /\ built' = built
    BY <1>6 DEF EndBatch
  <2>2. stage \in StageSet /\ Booked \subseteq Range(batch)
    BY <1>6, BatchEnded
  <2>3. ASSUME NEW st \in StageSet, NEW s \in Symbols
        PROVE  /\ outputs'[st][s] # "none" => s \in settled'[st]
               /\ s \in settled'[st] => outputs'[st][s] # "none" \/ s \in failed'
    <3>1. CASE st # stage
      BY <1>6, <3>1, BatchBooked DEF BooksOK
    <3>2. CASE st = stage /\ s \in Booked
      BY <1>6, <2>2, <3>2, BatchBooked DEF BooksOK
    <3>3. CASE st = stage /\ s \notin Booked
      BY <1>6, <2>2, <3>3, BatchBooked DEF BooksOK
    <3> QED BY <3>1, <3>2, <3>3
  <2> QED BY <1>6, <2>1, <2>3, BatchBooked DEF BooksOK, Over, Ok
<1>7. CASE Finish
  <2>1. /\ pc = "build" /\ Over' /\ built' = BuildSymbols /\ failed \subseteq failed'
        /\ pc' = "done" => processed' = {}
        /\ UNCHANGED <<pending, outputs, settled>>
    BY <1>7 DEF Finish, Ending, Over
  <2>2. Ok' \subseteq processed'
    BY <1>7 DEF Finish, Ok, Rebuilds, ShouldRebuild
  <2>3. BuildSymbols \subseteq Symbols
    BY DEF BuildSymbols
  <2> QED BY <2>1, <2>2, <2>3 DEF BooksOK, SomePending
<1>8. CASE Done \/ UNCHANGED vars
  BY <1>8 DEF Done, vars, sched, books, disk, BooksOK, SomePending, Over, Ok
<1> QED BY <1>1, <1>2, <1>3, <1>4, <1>5, <1>6, <1>7, <1>8 DEF Next, Working

\* A result that wrote a market file reaches the books or is dropped.
LEMMA NextStaleOK ==
  ASSUME ControlOK, PlacesOK, BooksOK, BooksOK', StaleOK, [Next]_vars
  PROVE  StaleOK'
<1>1. CASE StartPass \/ SkipStage \/ EndPass \/ Wait \/ EndLoop
  <2>1. Moves
    BY <1>1, MovesAre
  <2> QED BY <2>1 DEF Moves, StaleOK, Running, ghosts, Ok
<1>2. CASE StartBatch
  <2>1. pc = "visit" /\ UNCHANGED <<stale, dropped, outputs, failed, built>>
    BY <1>2 DEF StartBatch, disk, ghosts, books
  <2> QED BY <2>1 DEF StaleOK, Running, Ok
<1>3. CASE Working
  <2>1. PICK s \in Symbols, to \in Tasks : Works(s, to)
    BY <1>3, WorkingIs
  <2>2. /\ pc = "batch" /\ s \in Range(batch) /\ task[s] # "changed"
        /\ task \in [Range(batch) -> Tasks] /\ task' = [task EXCEPT ![s] = to]
        /\ stale' = stale \cup (IF to = "changed" /\ stage \in MarketStages THEN {s} ELSE {})
        /\ UNCHANGED <<pc, visit, batch, dropped, outputs, failed, built>>
    BY <2>1 DEF Works, sched, books, ControlOK
  <2>3. ASSUME NEW x \in stale PROVE x \in Symbols /\ \E st \in MarketStages :
           \/ <<st, x>> \in dropped
           \/ outputs[st][x] = "changed" /\ x \notin Ok
           \/ Running(st) /\ x \in Range(batch) /\ task'[x] = "changed"
    BY <2>2 DEF StaleOK
  <2>4. ASSUME NEW x \in stale', x \notin stale
        PROVE  x = s /\ stage \in MarketStages /\ task'[x] = "changed"
    BY <2>2, <2>4
  <2> QED BY <2>2, <2>3, <2>4 DEF StaleOK, Running, stage, Ok
<1>4. CASE Tick \/ \E s \in Symbols : Consume(s)
  <2>1. UNCHANGED <<pc, visit, batch, task, stale, dropped, outputs, failed, built>>
    BY <1>4 DEF Tick, Consume, sched, pool, disk, ghosts, books
  <2> QED BY <2>1 DEF StaleOK, Running, stage, Ok
<1>5. CASE EndBatch
  <2>1. /\ pc = "batch" /\ pc' = "visit" /\ UNCHANGED <<stale, built>>
        /\ dropped' = dropped \cup
             {<<stage, s>> : s \in {x \in Range(Deferred) : task[x] = "changed"}}
    BY <1>5 DEF EndBatch, disk
  <2>2. built = {} /\ Ok' = {}
    BY <2>1 DEF BooksOK, Ok, Over
  <2>3. ASSUME NEW s \in stale
        PROVE  s \in Symbols /\ \E st \in MarketStages :
                 <<st, s>> \in dropped' \/ outputs'[st][s] = "changed"
    <3>1. s \in Symbols
      BY DEF StaleOK
    <3>2. PICK st \in MarketStages :
             \/ <<st, s>> \in dropped
             \/ outputs[st][s] = "changed"
             \/ st = stage /\ s \in Range(batch) /\ task[s] = "changed"
      BY DEF StaleOK, Running
    <3>3. st \in StageSet
      BY StagesTyped
    <3>4. CASE <<st, s>> \in dropped
      BY <2>1, <3>1, <3>4
    <3>5. CASE outputs[st][s] = "changed"
      <4>1. s \in settled[st]
        BY <3>1, <3>3, <3>5 DEF BooksOK
      <4>2. ~(st = stage /\ s \in Booked)
        BY <1>5, <4>1, BatchBooked, BatchEnded
      <4>3. outputs'[st][s] = "changed"
        BY <1>5, <3>1, <3>3, <3>5, <4>2, BatchBooked
      <4> QED BY <3>1, <4>3
    <3>6. CASE st = stage /\ s \in Range(batch) /\ task[s] = "changed"
      <4>1. CASE s \in Booked
        <5>1. outputs'[st][s] = "changed"
          BY <1>5, <3>1, <3>3, <3>6, <4>1, BatchBooked
        <5> QED BY <3>1, <5>1
      <4>2. CASE s \notin Booked
        <5>1. s \in Range(Deferred)
          BY <1>5, <3>6, <4>2, BatchEnded DEF Booked
        <5> QED BY <2>1, <3>1, <3>6, <5>1
      <4> QED BY <4>1, <4>2
    <3> QED BY <3>2, <3>4, <3>5, <3>6
  <2> QED BY <2>1, <2>2, <2>3 DEF StaleOK
<1>6. CASE Finish
  <2>1. pc = "build" /\ built = {} /\ UNCHANGED <<outputs, dropped>>
    BY <1>6 DEF Finish, ghosts, BooksOK, Over
  <2>2. \A s \in stale' : s \in stale
    BY <1>6 DEF Finish
  <2>3. \A s \in Ok' \cap stale' : \A st \in MarketStages : outputs[st][s] # "changed"
    BY <1>6 DEF Finish, Ok, Rebuilds, ShouldRebuild
  <2>4. \A s \in stale : \E st \in MarketStages :
          <<st, s>> \in dropped \/ outputs[st][s] = "changed"
    BY <2>1 DEF StaleOK, Running
  <2>5. \A s \in stale : s \in Symbols
    BY DEF StaleOK
  <2> QED BY <2>1, <2>2, <2>3, <2>4, <2>5 DEF StaleOK
<1>7. CASE Done \/ UNCHANGED vars
  BY <1>7 DEF Done, vars, sched, pool, disk, ghosts, books, StaleOK, Running, stage, Ok
<1> QED BY <1>1, <1>2, <1>3, <1>4, <1>5, <1>6, <1>7 DEF Next, Working

(***************************************************************************)
(* The invariant of the scheduler.                                         *)
(***************************************************************************)
LEMMA SchedulerInvariant == Spec => []SchedulerInv
<1>1. SchedulerInv /\ [Next]_vars => SchedulerInv'
  <2> SUFFICES ASSUME SchedulerInv, [Next]_vars PROVE SchedulerInv'
    OBVIOUS
  <2>1. ControlOK /\ ClockOK /\ PlacesOK /\ BooksOK /\ StaleOK
    BY DEF SchedulerInv
  <2>2. ControlOK' /\ ClockOK' /\ PlacesOK' /\ BooksOK'
    BY <2>1, NextControlOK, NextClockOK, NextPlacesOK, NextBooksOK
  <2>3. StaleOK'
    BY <2>1, <2>2, NextStaleOK
  <2> QED BY <2>2, <2>3 DEF SchedulerInv
<1> QED BY <1>1, InitSchedulerInv, PTL DEF Spec

(***************************************************************************)
(* Whatever is refused, abandoned, cancelled or skipped, every symbol of a *)
(* stage is in one place, and one reported ok has a result in every stage  *)
(* and a processed file that only a dropped result makes old               *)
(* (run_tushare_update_pipeline, collect_stage_batch).                     *)
(***************************************************************************)
THEOREM EverySymbolInOnePlace == Spec => []EverySymbolAccounted
<1>1. SchedulerInv => EverySymbolAccounted
  <2> SUFFICES ASSUME SchedulerInv PROVE EverySymbolAccounted
    OBVIOUS
  <2>1. ControlOK /\ PlacesOK /\ BooksOK /\ StaleOK
    BY DEF SchedulerInv
  <2>2. EachInOnePlace
    <3> SUFFICES ASSUME NEW st \in StageSet
                 PROVE  LET running == IF pc = "batch" /\ st = stage THEN batch ELSE <<>>
                            waiting == running \o pending[st]
                        IN  /\ IsInjective(waiting)
                            /\ Range(waiting) = Symbols \ settled[st]
      BY DEF EachInOnePlace
    <3> DEFINE running == IF pc = "batch" /\ st = stage THEN batch ELSE <<>>
    <3>1. /\ running \in Seq(Symbols) /\ IsInjective(running)
          /\ Range(running) = IF Running(st) THEN Range(batch) ELSE {}
      <4>1. <<>> \in Seq(Symbols) /\ Range(<<>>) = {} /\ IsInjective(<<>>)
        BY EmptySeq DEF Range, IsInjective
      <4> QED BY <2>1, <4>1 DEF Running, ControlOK, PlacesOK
    <3>2. /\ pending[st] \in Seq(Symbols) /\ IsInjective(pending[st])
          /\ Range(running) \cap Range(pending[st]) = {}
          /\ Symbols \ settled[st] = Range(running) \cup Range(pending[st])
      BY <2>1, <3>1 DEF Running, ControlOK, PlacesOK
    <3> HIDE DEF running
    <3>3. IsInjective(running \o pending[st])
          /\ Range(running \o pending[st]) = Range(running) \cup Range(pending[st])
      BY <3>1, <3>2, ConcatMembers
    <3> QED BY <3>2, <3>3 DEF running
  <2>3. ASSUME Over PROVE OkIsComplete
    <3> SUFFICES ASSUME NEW s \in Ok, NEW st \in StageSet PROVE outputs[st][s] # "none"
      BY DEF OkIsComplete
    <3>1. s \in Symbols /\ s \notin failed /\ pending[st] = <<>>
      BY <2>1, <2>3 DEF Ok, BooksOK, SomePending
    <3>2. Range(pending[st]) = {}
      BY <3>1 DEF Range
    <3>3. s \in settled[st]
      BY <2>1, <2>3, <3>1, <3>2 DEF PlacesOK, Running, Over
    <3> QED BY <2>1, <3>1, <3>3 DEF BooksOK
  <2>4. ASSUME Over PROVE StaleOnlyAfterDrop
    BY <2>1, <2>4 DEF StaleOK, StaleOnlyAfterDrop, Running, Over
  <2>5. Ok \subseteq processed /\ (pc = "done" => Ok = {})
    BY <2>1 DEF BooksOK
  <2> QED BY <2>2, <2>3, <2>4, <2>5 DEF EverySymbolAccounted
<1> QED BY <1>1, SchedulerInvariant, PTL

(***************************************************************************)
(* The pipeline sleeps only when every stage with work left cools down,    *)
(* and calls no interface within the cooldown of a refusal that it heard   *)
(* (stage_cooldown_until in run_tushare_update_pipeline).                  *)
(***************************************************************************)
THEOREM CooldownsAreKept == Spec => CooldownsKept
<1> DEFINE Rested == pc = "visit" /\ pc' = "batch" => restUntil[stage] <= clock \/ stage \in unheard
<1>1. SchedulerInv => WaitsOnlyWhenAllStagesCool
  <2> SUFFICES ASSUME SchedulerInv, pc = "wait", NEW st \in StageSet, pending[st] # <<>>
               PROVE  until[st] > clock
    BY DEF WaitsOnlyWhenAllStagesCool
  <2>1. ControlOK /\ ClockOK
    BY DEF SchedulerInv
  <2>2. PICK i \in 1..Len(Stages) : st = Stages[i]
    BY StagesTyped
  <2>3. visit > Len(Stages) /\ now = clock
    BY <2>1 DEF ClockOK
  <2>4. i < visit
    BY <2>1, <2>2, <2>3, StagesTyped DEF ControlOK
  <2> QED BY <2>1, <2>2, <2>3, <2>4 DEF ClockOK
<1>2. SchedulerInv /\ [Next]_vars => [Rested]_vars
  <2> SUFFICES ASSUME SchedulerInv, Next, pc = "visit", pc' = "batch"
               PROVE  restUntil[stage] <= clock \/ stage \in unheard
    OBVIOUS
  <2>1. StartBatch
    BY DEF Next, StartPass, SkipStage, StartWorker, WorkerSaves, WorkerKeeps, WorkerFails,
           WorkerRefused, Cancel, SetTask, Consume, Tick, EndBatch, EndPass, Wait,
           EndLoop, LeaveLoop, Finish, Ending, Over, Done, vars, sched
  <2>2. ControlOK /\ ClockOK
    BY DEF SchedulerInv
  <2>3. until[stage] <= now /\ stage \in StageSet
    BY <2>1, <2>2, StageTyped DEF StartBatch, ControlOK
  <2>4. restUntil[stage] <= until[stage] \/ stage \in unheard
    BY <2>2, <2>3 DEF ClockOK, Running
  <2>5. restUntil[stage] \in Nat /\ until[stage] \in Nat /\ now \in Nat /\ clock \in Nat /\ now <= clock
    BY <2>2, <2>3 DEF ClockOK
  <2> QED BY <2>3, <2>4, <2>5
<1>3. Spec => []WaitsOnlyWhenAllStagesCool
  BY <1>1, SchedulerInvariant, PTL
<1>4. Spec => [][Rested]_vars
  BY <1>2, SchedulerInvariant, PTL DEF Spec
<1> QED BY <1>3, <1>4 DEF CooldownsKept
=============================================================================
