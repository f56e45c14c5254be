--------------------------- MODULE CollectRun_proofs ---------------------------
(***************************************************************************)
(* What one run of the collector keeps true for every list of symbols and  *)
(* stages, number of workers and sequence of answers: proofs of the safety *)
(* properties that the CollectRun run checks on two and three symbols.     *)
(***************************************************************************)
EXTENDS CollectRun, DataTheorems

(***************************************************************************)
(* The request as the options leave it.                                    *)
(***************************************************************************)
RequestOK ==
  /\ symbols # <<>> /\ IsInjective(symbols) /\ symbols \in Seq(SymbolSet)
  /\ stages # <<>> /\ IsInjective(stages) /\ stages \in Seq(AllStages)

(***************************************************************************)
(* Where the driver is.  Every selected stage, and the processed rebuild   *)
(* if there is one, comes before the packed source; the processed stage    *)
(* answers "ok" or ends the run.                                           *)
(***************************************************************************)
Answers == {"running", "ok", "failed", "limited", "error"}
Result == [stage : AllStages, symbol : SymbolSet, ok : BOOLEAN]
AllNamed == k > Len(stages) \/ (k = Len(stages) /\ ~DerivesProcessed)

ControlOK ==
  /\ pc \in {"stage", "calls", "sleep", "packed", "exit"}
  /\ exit \in {"none", "ok", "failed", "aborted"}
  /\ exit # "none" <=> pc = "exit"
  /\ k \in 1..(Len(stages) + 1)
  /\ k > Len(stages) => DerivesProcessed
  /\ queue \in Seq(SymbolSet) /\ batch \in Seq(SymbolSet)
  /\ pc # "calls" => batch = <<>>
  /\ pc = "packed" \/ exit \in {"ok", "failed"} => queue = <<>> /\ AllNamed
  /\ pc = "calls" =>
       /\ outcome \in [Range(batch) -> Answers]
       /\ StageName = "processed" =>
            \A s \in Range(batch) : outcome[s] \in {"running", "ok", "error"}
  /\ results \in Seq(Result)

(***************************************************************************)
(* The tasks: what is open is due and was not answered, what is due and    *)
(* not open was, nothing was answered twice, and nothing else was.         *)
(***************************************************************************)
Open == Range(batch) \cup Range(queue)
Of(r, i, s) == r.stage = NameOf(i) /\ r.symbol = s

TasksOK ==
  /\ IsInjective(batch) /\ IsInjective(queue) /\ Range(batch) \cap Range(queue) = {}
  /\ Open \subseteq Due(k)
  /\ \A i \in 1..k : \A s \in Due(i) :
       (\E j \in DOMAIN results : Of(results[j], i, s)) <=> ~(i = k /\ s \in Open)
  /\ \A j, l \in DOMAIN results :
       results[j].stage = results[l].stage /\ results[j].symbol = results[l].symbol => j = l
  /\ \A j \in DOMAIN results : \E i \in 1..k : \E s \in Due(i) : Of(results[j], i, s)

(***************************************************************************)
(* The derived files: while the processed stage runs, a stale symbol is    *)
(* still to be built; once it is over, a stale symbol failed.              *)
(***************************************************************************)
Built == {s \in Range(batch) : outcome[s] = "ok"}

FreshOK ==
  /\ hasDaily \subseteq SymbolSet /\ stale \subseteq SymbolSet
  /\ PackedNotStale
  /\ exit # "aborted" /\ ProcessedAfterItsInputs =>
       /\ StageName = "processed" => stale \subseteq FailedRaw \cup (Open \ Built)
       /\ \A i \in 1..Len(stages) :
            i < k /\ stages[i] = "processed" => stale \subseteq FailedRaw

CollectInv == RequestOK /\ ControlOK /\ (exit # "aborted" => TasksOK) /\ FreshOK

-----------------------------------------------------------------------------
(***************************************************************************)
(* No two stages of a run have one name.                                   *)
(***************************************************************************)
LEMMA NamesDiffer ==
  ASSUME RequestOK, NEW n \in 0..(Len(stages) + 1), n > Len(stages) => DerivesProcessed,
         NEW i \in 1..n, NEW l \in 1..n, NameOf(i) = NameOf(l)
  PROVE  i = l
<1>1. Len(stages) \in Nat /\ DOMAIN stages = 1..Len(stages)
  BY LenProperties DEF RequestOK
<1>2. ASSUME n > Len(stages), NEW x \in 1..Len(stages) PROVE stages[x] # "processed"
  BY <1>1, <1>2 DEF DerivesProcessed
<1>3. CASE i <= Len(stages) /\ l <= Len(stages)
  BY <1>1, <1>3 DEF RequestOK, IsInjective, NameOf
<1>4. CASE i > Len(stages) /\ l > Len(stages)
  BY <1>1, <1>4
<1>5. CASE i <= Len(stages) /\ l > Len(stages)
  BY <1>1, <1>2, <1>5 DEF NameOf
<1>6. CASE i > Len(stages) /\ l <= Len(stages)
  BY <1>1, <1>2, <1>6 DEF NameOf
<1> QED BY <1>1, <1>3, <1>4, <1>5, <1>6

\* The names are stages of the collector, and the running one is reached.
LEMMA NamesTyped ==
  ASSUME RequestOK, ControlOK
  PROVE  /\ \A i \in 1..k : NameOf(i) \in AllStages
         /\ k \in 1..k
         /\ Len(stages) \in Nat /\ DOMAIN stages = 1..Len(stages)
<1>1. /\ Len(stages) \in Nat /\ DOMAIN stages = 1..Len(stages)
      /\ k \in Nat /\ 1 <= k
      /\ \A i \in 1..Len(stages) : stages[i] \in AllStages
  BY LenProperties DEF RequestOK, ControlOK
<1>2. \A i \in 1..k : i <= Len(stages) => i \in 1..Len(stages)
  BY <1>1
<1> QED BY <1>1, <1>2 DEF NameOf, AllStages

(***************************************************************************)
(* The task invariant speaks of the run list, the stage, the deque, the    *)
(* batch and the results.                                                  *)
(***************************************************************************)
tasks == <<symbols, stages, k, queue, batch, results>>

\* A step that changes none of them keeps the accounts.
LEMMA TasksSame ==
  ASSUME TasksOK, UNCHANGED tasks
  PROVE  TasksOK'
BY DEF TasksOK, tasks, Open, Due, Of, NameOf, FailedRaw, SymbolSet

(***************************************************************************)
(* What one batch adds to the results: one for each symbol that was not    *)
(* refused.                                                                *)
(***************************************************************************)
Refused == {s \in Range(batch) : Limited(s)}
Answered(s) == [stage |-> StageName, symbol |-> s, ok |-> outcome[s] = "ok"]
Settled == pc = "calls" /\ Settle /\ ~\E s \in Range(batch) : outcome[s] = "error"

\* A settled batch appends one result for each symbol that was not refused.
LEMMA ResultsAdded ==
  ASSUME RequestOK, ControlOK, TasksOK, Settled
  PROVE  /\ results' \in Seq(Result)
         /\ \A j \in DOMAIN results : j \in DOMAIN results' /\ results'[j] = results[j]
         /\ \A j \in DOMAIN results' : j \notin DOMAIN results =>
              \E s \in Range(batch) \ Refused : results'[j] = Answered(s)
         /\ \A s \in Range(batch) \ Refused :
              \E j \in DOMAIN results' : j \notin DOMAIN results /\ results'[j] = Answered(s)
         /\ \A j, l \in DOMAIN results' :
              j \notin DOMAIN results /\ l \notin DOMAIN results
                /\ results'[j].symbol = results'[l].symbol => j = l
<1> DEFINE done == Kept(batch, Range(batch) \ Refused)
           new == [i \in DOMAIN done |-> Answered(done[i])]
           n == Len(results)
           m == Len(done)
<1>1. results' = results \o new
  BY DEF Settled, Settle, Refused, Answered
<1>2. /\ done \in Seq(Range(batch)) /\ Range(done) = Range(batch) \ Refused
      /\ IsInjective(done)
  BY KeptMembers DEF ControlOK, TasksOK
<1>3. m \in Nat /\ DOMAIN done = 1..m
  BY <1>2, LenProperties
<1>4. Range(batch) \subseteq SymbolSet
  BY SequenceMembers DEF ControlOK
<1> HIDE DEF done, m
<1>5. \A s \in SymbolSet : Answered(s) \in Result /\ Answered(s).symbol = s
  BY NamesTyped DEF Answered, Result, StageName
<1>6. \A i \in 1..m : done[i] \in Range(done) /\ new[i] = Answered(done[i])
  BY <1>3 DEF Range
<1>7. new \in [1..m -> Result]
  BY <1>2, <1>3, <1>4, <1>5, <1>6
<1> HIDE DEF new
<1>8. new \in Seq(Result) /\ Len(new) = m
  <2>1. new \in Seq(Result)
    BY <1>3, <1>7, SeqDef
  <2> QED BY <1>3, <1>7, <2>1, LenProperties
<1>9. /\ results' \in Seq(Result) /\ n \in Nat
      /\ DOMAIN results = 1..n /\ DOMAIN results' = 1..(n + m)
      /\ \A i \in 1..(n + m) : results'[i] = IF i <= n THEN results[i] ELSE new[i - n]
  <2>1. results \in Seq(Result)
    BY DEF ControlOK
  <2>2. /\ results' \in Seq(Result) /\ Len(results') = n + m
        /\ \A i \in 1..(n + m) : results'[i] = IF i <= n THEN results[i] ELSE new[i - n]
    BY <1>1, <1>8, <2>1, ConcatProperties
  <2> QED BY <2>1, <2>2, LenProperties
<1> HIDE DEF n
<1>10. \A j \in 1..n : j \in 1..(n + m) /\ j <= n
  BY <1>3, <1>9
<1>11. \A i \in 1..m : n + i \in 1..(n + m) /\ ~(n + i <= n) /\ n + i - n = i /\ n + i \notin 1..n
  BY <1>3, <1>9
<1>12. \A j \in 1..(n + m) : j \notin 1..n => j - n \in 1..m /\ ~(j <= n) /\ j = n + (j - n)
  BY <1>3, <1>9
<1>13. ASSUME NEW j \in 1..(n + m), j \notin 1..n
       PROVE  results'[j] = Answered(done[j - n]) /\ done[j - n] \in Range(done)
  BY <1>6, <1>9, <1>12, <1>13
<1>14. ASSUME NEW s \in Range(done)
       PROVE  \E j \in DOMAIN results' : j \notin DOMAIN results /\ results'[j] = Answered(s)
  <2>1. PICK i \in 1..m : done[i] = s
    BY <1>3 DEF Range
  <2>2. results'[n + i] = Answered(s)
    BY <1>6, <1>9, <1>11, <2>1
  <2> QED BY <1>9, <1>11, <2>2
<1>15. ASSUME NEW j \in 1..(n + m), NEW l \in 1..(n + m), j \notin 1..n, l \notin 1..n,
              results'[j].symbol = results'[l].symbol
       PROVE  j = l
  <2>1. done[j - n] = done[l - n]
    BY <1>2, <1>4, <1>5, <1>13, <1>15
  <2>2. j - n = l - n
    BY <1>2, <1>3, <1>12, <1>15, <2>1 DEF IsInjective
  <2> QED BY <1>12, <1>15, <2>2
<1> QED BY <1>2, <1>9, <1>10, <1>13, <1>14, <1>15

(***************************************************************************)
(* What a batch leaves in the deque: the refused symbols return to it.     *)
(***************************************************************************)
LEMMA QueueSettled ==
  ASSUME ControlOK, TasksOK, Settled
  PROVE  /\ queue' \in Seq(SymbolSet) /\ IsInjective(queue')
         /\ Range(queue') = Refused \cup Range(queue)
         /\ Refused = {} => pc' = "stage"
         /\ pc' \in {"stage", "sleep"}
<1> DEFINE retry == Kept(batch, Refused)
<1>1. queue' = retry \o queue /\ pc' = IF retry = <<>> THEN "stage" ELSE "sleep"
  BY DEF Settled, Settle, Refused, Requeued
<1>2. /\ retry \in Seq(Range(batch)) /\ Range(retry) = Range(batch) \cap Refused
      /\ IsInjective(retry)
  BY KeptMembers DEF ControlOK, TasksOK
<1>3. Range(batch) \subseteq SymbolSet /\ Refused \subseteq Range(batch)
  BY SequenceMembers DEF ControlOK, Refused
<1> HIDE DEF retry
<1>4. retry \in Seq(SymbolSet)
  BY <1>2, <1>3, SeqMonotonic
<1>5. retry = <<>> <=> Refused = {}
  BY <1>2, <1>3, SequenceMembers
<1> QED BY <1>1, <1>2, <1>3, <1>4, <1>5, ConcatMembers DEF ControlOK, TasksOK

(***************************************************************************)
(* Only the stages that feed the processed files count as failed there, so *)
(* the processed rebuild does not change what it is due for.               *)
(***************************************************************************)
LEMMA FailedRawGrows ==
  ASSUME RequestOK, ControlOK, TasksOK, Settled
  PROVE  /\ FailedRaw \subseteq FailedRaw'
         /\ StageName = "processed" => FailedRaw' = FailedRaw
<1>1. ASSUME NEW x \in FailedRaw PROVE x \in FailedRaw'
  <2>1. PICK j \in DOMAIN results :
          /\ results[j].symbol = x /\ ~results[j].ok
          /\ results[j].stage \in DependencyStages
    BY DEF FailedRaw, Range
  <2>2. j \in DOMAIN results' /\ results'[j] = results[j]
    BY ResultsAdded
  <2>3. results'[j] \in Range(results')
    BY <2>2 DEF Range
  <2> QED BY <2>1, <2>2, <2>3 DEF FailedRaw
<1>2. ASSUME StageName = "processed", NEW x \in FailedRaw' PROVE x \in FailedRaw
  <2>1. PICK j \in DOMAIN results' :
          /\ results'[j].symbol = x /\ ~results'[j].ok
          /\ results'[j].stage \in DependencyStages
    BY DEF FailedRaw, Range
  <2>2. j \in DOMAIN results
    <3>1. \A s : Answered(s).stage \notin DependencyStages
      BY <1>2 DEF Answered, DependencyStages
    <3> QED BY <2>1, <3>1, ResultsAdded
  <2>3. results'[j] = results[j] /\ results[j] \in Range(results)
    BY <2>2, ResultsAdded DEF Range
  <2> QED BY <2>1, <2>3 DEF FailedRaw
<1> QED BY <1>1, <1>2

-----------------------------------------------------------------------------
(***************************************************************************)
(* The first state.                                                        *)
(***************************************************************************)
LEMMA InitCollectInv == Init => CollectInv
<1> SUFFICES ASSUME Init PROVE CollectInv
  OBVIOUS
<1>1. PICK r \in Requests : symbols = r.symbols /\ stages = r.stages
  BY DEF Init
<1>2. RequestOK
  BY <1>1, RequestAssumption DEF RequestOK, SymbolSet
<1>3. /\ Len(stages) \in Nat /\ Len(stages) >= 1 /\ DOMAIN stages = 1..Len(stages)
  <2>1. Len(stages) \in Nat \ {0}
    BY <1>2, EmptySeq DEF RequestOK
  <2> QED BY <1>2, <2>1, LenProperties DEF RequestOK
<1>4. /\ <<>> \in Seq(SymbolSet) /\ <<>> \in Seq(Result)
      /\ Range(<<>>) = {} /\ IsInjective(<<>>) /\ DOMAIN <<>> = {}
  BY EmptySeq DEF Range, IsInjective
<1>5. ControlOK
  BY <1>2, <1>3, <1>4 DEF Init, ControlOK, RequestOK
<1>6. 1..k = {1}
  BY DEF Init
<1>7. Range(queue) = SymbolSet /\ Due(1) = SymbolSet
  BY <1>3 DEF Init, SymbolSet, Due
<1>8. TasksOK
  BY <1>2, <1>4, <1>6, <1>7 DEF Init, TasksOK, Open, RequestOK, Of
<1>9. FreshOK
  <2>1. /\ hasDaily \subseteq SymbolSet /\ stale \subseteq SymbolSet /\ PackedNotStale
    BY DEF Init, PackedNotStale
  <2>2. Open = SymbolSet /\ Built = {}
    BY <1>4, <1>7 DEF Init, Open, Built
  <2>3. \A i \in 1..Len(stages) : ~(i < k)
    BY <1>3 DEF Init
  <2> QED BY <2>1, <2>2, <2>3 DEF FreshOK
<1> QED BY <1>2, <1>5, <1>8, <1>9 DEF CollectInv

(***************************************************************************)
(* The answers of the calls, as one case: a call of a running symbol       *)
(* answers and may have changed files.                                     *)
(***************************************************************************)
Answering == \E s \in SymbolSet :
  RawSaved(s) \/ RawUntouched(s) \/ RawRefused(s) \/ ProcessedBuilt(s) \/ CallError(s)

\* Each is one answer, which is never a refusal in the processed stage.
LEMMA AnsweringIs ==
  ASSUME Answering
  PROVE  \E s \in SymbolSet, answer \in Answers \ {"running"} :
           /\ Answer(s, answer)
           /\ StageName = "processed" => answer \in {"ok", "error"}
BY DEF Answering, RawSaved, RawUntouched, RawRefused, ProcessedBuilt, CallError, Answers

\* The request does not change.
LEMMA NextRequestOK == RequestOK /\ [Next]_vars => RequestOK' /\ UNCHANGED request
<1> SUFFICES ASSUME RequestOK, [Next]_vars PROVE RequestOK' /\ UNCHANGED request
  OBVIOUS
<1>1. UNCHANGED request
  BY DEF Next, TakeBatch, RawSaved, RawUntouched, RawRefused, ProcessedBuilt, CallError,
         Answer, Settle, Wake, EndStage, RebuildPacked, Done, vars, control
<1> QED BY <1>1 DEF RequestOK, request, SymbolSet

-----------------------------------------------------------------------------
(***************************************************************************)
(* The deque is cut after the next batch.                                  *)
(***************************************************************************)
LEMMA BatchTaken ==
  ASSUME ControlOK, TakeBatch
  PROVE  /\ batch' \in Seq(SymbolSet) /\ queue' \in Seq(SymbolSet)
         /\ Range(batch') \cup Range(queue') = Range(queue)
         /\ IsInjective(queue) => /\ IsInjective(batch') /\ IsInjective(queue')
                                  /\ Range(batch') \cap Range(queue') = {}
<1>1. queue \in Seq(SymbolSet) /\ Len(queue) \in Nat
  BY LenProperties DEF ControlOK
<1>2. BatchSize \in 0..Len(queue)
  BY <1>1, RunAssumption DEF BatchSize
<1>3. /\ batch' = SubSeq(queue, 1, BatchSize)
      /\ queue' = SubSeq(queue, BatchSize + 1, Len(queue))
  BY DEF TakeBatch
<1> QED BY <1>1, <1>2, <1>3, SplitMembers

\* The driver's variables keep their types and stay in step.
LEMMA NextControlOK ==
  ASSUME RequestOK, ControlOK, exit # "aborted" => TasksOK, [Next]_vars
  PROVE  ControlOK'
<1>1. RequestOK' /\ UNCHANGED <<symbols, stages, rebuild>>
  BY NextRequestOK DEF request
<1>2. /\ SymbolSet' = SymbolSet /\ DerivesProcessed' = DerivesProcessed
      /\ Result' = Result
  BY <1>1 DEF SymbolSet, DerivesProcessed, Result
<1>3. /\ Len(stages) \in Nat /\ k \in Nat /\ 1 <= k /\ k <= Len(stages) + 1
  BY NamesTyped DEF ControlOK
<1>4. CASE TakeBatch
  <2>1. /\ batch' \in Seq(SymbolSet) /\ queue' \in Seq(SymbolSet)
    BY <1>4, BatchTaken
  <2>2. outcome' \in [Range(batch') -> {"running"}]
    BY <1>4 DEF TakeBatch
  <2> QED BY <1>1, <1>2, <1>4, <2>1, <2>2 DEF TakeBatch, ControlOK, StageName, NameOf, Answers
<1>5. CASE Answering
  <2>1. PICK s \in SymbolSet, answer \in Answers \ {"running"} :
          /\ Answer(s, answer)
          /\ StageName = "processed" => answer \in {"ok", "error"}
    BY <1>5, AnsweringIs
  <2>2. /\ pc = "calls" /\ outcome \in [Range(batch) -> Answers]
        /\ s \in Range(batch)
        /\ outcome' = [outcome EXCEPT ![s] = answer]
        /\ UNCHANGED <<symbols, stages, rebuild, k, pc, queue, batch, results, exit>>
    BY <2>1 DEF Answer, request, ControlOK
  <2>3. outcome' \in [Range(batch) -> Answers]
    BY <2>2
  <2> QED BY <1>2, <2>1, <2>2, <2>3 DEF ControlOK, StageName, NameOf
<1>6. CASE Settle /\ \E s \in Range(batch) : outcome[s] = "error"
  BY <1>1, <1>2, <1>6, EmptySeq DEF Settle, ControlOK
<1>7. CASE Settled
  <2>1. exit = "none"
    BY <1>7 DEF Settled, ControlOK
  <2>2. TasksOK
    BY <2>1
  <2>3. /\ batch' = <<>> /\ exit' = exit /\ k' = k
    BY <1>7 DEF Settled, Settle
  <2>4. results' \in Seq(Result)
    BY <1>7, <2>2, ResultsAdded
  <2>5. queue' \in Seq(SymbolSet) /\ pc' \in {"stage", "sleep"}
    BY <1>7, <2>2, QueueSettled
  <2> QED BY <1>1, <1>2, <2>1, <2>3, <2>4, <2>5, EmptySeq DEF ControlOK
<1>8. CASE Wake
  BY <1>1, <1>2, <1>8 DEF Wake, ControlOK
<1>9. CASE EndStage
  <2>1. /\ UNCHANGED <<batch, outcome, results, exit>>
        /\ pc = "stage" /\ exit = "none" /\ batch = <<>>
    BY <1>9 DEF EndStage, ControlOK
  <2>2. CASE k < Len(stages) /\ k' = k + 1 /\ queue' = symbols /\ pc' = pc
    <3>1. symbols \in Seq(SymbolSet) /\ k + 1 \in 1..(Len(stages) + 1) /\ ~(k + 1 > Len(stages))
      BY <1>3, <2>2 DEF RequestOK
    <3> QED BY <1>1, <1>2, <2>1, <2>2, <3>1 DEF ControlOK
  <2>3. CASE /\ k = Len(stages) /\ DerivesProcessed /\ k' = k + 1 /\ pc' = pc
             /\ queue' = Kept(symbols, SymbolSet \ FailedRaw)
    <3>1. queue' \in Seq(SymbolSet)
      BY <2>3, KeptMembers DEF RequestOK, SymbolSet
    <3>2. k + 1 \in 1..(Len(stages) + 1)
      BY <1>3, <2>3
    <3> QED BY <1>1, <1>2, <2>1, <2>3, <3>1, <3>2 DEF ControlOK
  <2>4. CASE /\ k > Len(stages) \/ (k = Len(stages) /\ ~DerivesProcessed)
             /\ pc' = "packed" /\ UNCHANGED <<k, queue>>
    BY <1>1, <1>2, <1>9, <2>1, <2>4 DEF ControlOK, EndStage, AllNamed
  <2> QED BY <1>9, <2>2, <2>3, <2>4 DEF EndStage
<1>10. CASE RebuildPacked
  <2>1. /\ pc = "packed" /\ pc' = "exit"
        /\ exit' \in {"ok", "failed", "aborted"}
        /\ UNCHANGED <<k, queue, batch, outcome, results>>
    BY <1>10 DEF RebuildPacked, ExitCode
  <2> QED BY <1>1, <1>2, <2>1 DEF ControlOK, AllNamed
<1>11. CASE UNCHANGED vars
  BY <1>1, <1>2, <1>11 DEF vars, control, ControlOK, AllNamed, StageName, NameOf
<1> QED BY <1>4, <1>5, <1>6, <1>7, <1>8, <1>9, <1>10, <1>11
       DEF Next, Answering, Settled, Settle, Done

-----------------------------------------------------------------------------
(***************************************************************************)
(* The tasks. A batch moves symbols from the deque and nothing else.       *)
(***************************************************************************)
LEMMA TakeBatchTasks ==
  ASSUME ControlOK, TasksOK, TakeBatch
  PROVE  TasksOK'
<1>1. /\ UNCHANGED <<symbols, stages, k, results>> /\ pc = "stage"
      /\ batch = <<>>
  BY DEF TakeBatch, request, ControlOK
<1>2. Range(batch) = {}
  BY <1>1 DEF Range
<1>3. /\ Range(batch') \cup Range(queue') = Range(queue)
      /\ IsInjective(batch') /\ IsInjective(queue')
      /\ Range(batch') \cap Range(queue') = {}
  BY BatchTaken DEF TasksOK
<1>4. Open' = Open
  BY <1>2, <1>3 DEF Open
<1>5. /\ \A i : Due(i)' = Due(i)
      /\ \A r, i, s : Of(r, i, s)' = Of(r, i, s)
  BY <1>1 DEF Due, SymbolSet, FailedRaw, Of, NameOf
<1> QED BY <1>1, <1>3, <1>4, <1>5 DEF TasksOK

(***************************************************************************)
(* A batch is settled: a symbol of it is answered or returns to the deque. *)
(***************************************************************************)
LEMMA SettledTasks ==
  ASSUME RequestOK, ControlOK, TasksOK, Settled
  PROVE  TasksOK'
<1>1. /\ UNCHANGED <<symbols, stages, k>> /\ batch' = <<>>
  BY DEF Settled, Settle, request
<1>2. /\ \A r, i, s : Of(r, i, s)' = Of(r, i, s)
      /\ SymbolSet' = SymbolSet
  BY <1>1 DEF Of, NameOf, SymbolSet
<1>3. /\ Len(stages) \in Nat /\ k \in Nat /\ k \in 1..k /\ k <= Len(stages) + 1
  BY NamesTyped DEF ControlOK
<1>4. ASSUME NEW i \in 1..k PROVE Due(i)' = Due(i)
  <2>1. CASE i <= Len(stages)
    BY <1>1, <1>2, <2>1 DEF Due
  <2>2. CASE ~(i <= Len(stages))
    <3>1. i = k /\ StageName = "processed"
      BY <1>3, <2>2 DEF StageName, NameOf
    <3> QED BY <1>1, <1>2, <3>1, FailedRawGrows DEF Due
  <2> QED BY <2>1, <2>2
<1>5. /\ Range(batch') = {} /\ IsInjective(batch') /\ IsInjective(queue')
      /\ Range(queue') = Refused \cup Range(queue)
  BY <1>1, QueueSettled DEF Range, IsInjective
<1>6. Open' = Refused \cup Range(queue) /\ Refused \subseteq Range(batch)
  BY <1>5 DEF Open, Refused
<1>7. Open' \subseteq Due(k)
  BY <1>6 DEF TasksOK, Open
<1>8. \A s : Of(Answered(s), k, s)
  BY DEF Of, Answered, StageName
<1>9. \A s \in Range(batch) : s \in Open /\ s \in Due(k)
  BY DEF TasksOK, Open
<1>10. ASSUME NEW i \in 1..k, NEW s \in Due(i)
       PROVE  (\E j \in DOMAIN results' : Of(results'[j], i, s)) <=> ~(i = k /\ s \in Open')
  <2>1. ASSUME NEW j \in DOMAIN results, Of(results[j], i, s)
        PROVE  /\ \E l \in DOMAIN results' : Of(results'[l], i, s)
               /\ ~(i = k /\ s \in Open')
    <3>1. \E l \in DOMAIN results' : Of(results'[l], i, s)
      BY <2>1, ResultsAdded
    <3>2. ~(i = k /\ s \in Open)
      BY <2>1 DEF TasksOK
    <3> QED BY <1>6, <3>1, <3>2 DEF Open
  <2>2. ASSUME NEW j \in DOMAIN results', j \notin DOMAIN results, Of(results'[j], i, s)
        PROVE  ~(i = k /\ s \in Open')
    <3>1. PICK x \in Range(batch) \ Refused : results'[j] = Answered(x)
      BY <2>2, ResultsAdded
    <3>2. x = s
      BY <2>2, <3>1 DEF Of, Answered
    <3>3. s \notin Range(queue)
      BY <3>1, <3>2 DEF TasksOK
    <3> QED BY <1>6, <3>1, <3>2, <3>3
  <2>3. ASSUME \A j \in DOMAIN results : ~Of(results[j], i, s), ~(i = k /\ s \in Open')
        PROVE  \E j \in DOMAIN results' : Of(results'[j], i, s)
    <3>1. i = k /\ s \in Open
      BY <2>3 DEF TasksOK
    <3>2. s \in Range(batch) \ Refused
      BY <1>6, <2>3, <3>1 DEF Open
    <3>3. \E j \in DOMAIN results' : results'[j] = Answered(s)
      BY <3>2, ResultsAdded
    <3> QED BY <1>8, <3>1, <3>3
  <2>4. \A j \in DOMAIN results : j \in DOMAIN results' /\ results'[j] = results[j]
    BY ResultsAdded
  <2> QED BY <2>1, <2>2, <2>3, <2>4
<1>11. ASSUME NEW j \in DOMAIN results', NEW l \in DOMAIN results',
              results'[j].stage = results'[l].stage, results'[j].symbol = results'[l].symbol
       PROVE  j = l
  <2>1. CASE j \in DOMAIN results /\ l \in DOMAIN results
    BY <1>11, <2>1, ResultsAdded DEF TasksOK
  <2>2. CASE j \notin DOMAIN results /\ l \notin DOMAIN results
    BY <1>11, <2>2, ResultsAdded
  <2>3. ASSUME NEW a \in DOMAIN results, NEW b \in DOMAIN results', b \notin DOMAIN results,
               results'[a].stage = results'[b].stage, results'[a].symbol = results'[b].symbol
        PROVE  FALSE
    <3>1. PICK x \in Range(batch) : results'[b] = Answered(x)
      BY <2>3, ResultsAdded
    <3>2. results'[a] = results[a]
      BY ResultsAdded
    <3>3. Of(results[a], k, x)
      BY <1>8, <2>3, <3>1, <3>2 DEF Of
    <3> QED BY <1>3, <1>9, <3>3 DEF TasksOK
  <2> QED BY <1>11, <2>1, <2>2, <2>3
<1>12. ASSUME NEW j \in DOMAIN results'
       PROVE  \E i \in 1..k : \E s \in Due(i) : Of(results'[j], i, s)
  <2>1. CASE j \in DOMAIN results
    BY <2>1, ResultsAdded DEF TasksOK
  <2>2. CASE j \notin DOMAIN results
    <3>1. PICK x \in Range(batch) : results'[j] = Answered(x)
      BY <2>2, ResultsAdded
    <3> QED BY <1>3, <1>8, <1>9, <3>1
  <2> QED BY <2>1, <2>2
<1>13. Due(k)' = Due(k)
  <2>1. CASE k <= Len(stages)
    BY <1>1, <1>2, <2>1 DEF Due
  <2>2. CASE ~(k <= Len(stages))
    <3>1. StageName = "processed"
      BY <2>2 DEF StageName, NameOf
    <3> QED BY <1>1, <1>2, <3>1, FailedRawGrows DEF Due
  <2> QED BY <2>1, <2>2
<1>14. Range(batch') \cap Range(queue') = {} /\ Open' \subseteq Due(k)'
  BY <1>5, <1>7, <1>13
<1> QED BY <1>1, <1>2, <1>4, <1>5, <1>10, <1>11, <1>12, <1>14 DEF TasksOK

(***************************************************************************)
(* A stage begins with all that is due for it open and without results.    *)
(***************************************************************************)
LEMMA NextStageTasks ==
  ASSUME RequestOK, ControlOK, ControlOK', RequestOK', TasksOK, EndStage, k' = k + 1
  PROVE  TasksOK'
<1>1. /\ UNCHANGED <<symbols, stages, batch, results>> /\ batch = <<>> /\ queue = <<>>
      /\ exit = "none"
  BY DEF EndStage, ControlOK, request
<1>2. /\ \A r, i, s : Of(r, i, s)' = Of(r, i, s)
      /\ \A i : Due(i)' = Due(i)
  BY <1>1 DEF Of, NameOf, Due, SymbolSet, FailedRaw
<1>3. /\ Len(stages) \in Nat /\ k \in Nat /\ k >= 1 /\ k' <= Len(stages) + 1
      /\ \A i \in 1..k' : i \in 1..k \/ i = k'
      /\ \A i \in 1..k : i \in 1..k' /\ i # k'
      /\ k' \in 1..k'
  BY <1>1, NamesTyped DEF ControlOK
<1>4. Range(queue') = Due(k') /\ IsInjective(queue')
  <2>1. CASE k < Len(stages) /\ queue' = symbols
    BY <1>3, <2>1 DEF Due, SymbolSet, RequestOK
  <2>2. CASE k = Len(stages) /\ queue' = Kept(symbols, SymbolSet \ FailedRaw)
    <3>1. /\ Range(queue') = SymbolSet \cap (SymbolSet \ FailedRaw)
          /\ IsInjective(queue')
      BY <2>2, KeptMembers DEF RequestOK, SymbolSet
    <3> QED BY <1>3, <2>2, <3>1 DEF Due
  <2>3. k' # k
    BY <1>3
  <2> QED BY <2>1, <2>2, <2>3 DEF EndStage
<1>5. Range(batch) = {} /\ Range(queue) = {} /\ IsInjective(batch) /\ Open = {}
  BY <1>1 DEF Range, IsInjective, Open
<1>6. Open' = Due(k')
  BY <1>1, <1>4, <1>5 DEF Open
<1>7. ASSUME NEW j \in DOMAIN results, NEW s, Of(results[j], k', s) PROVE FALSE
  <2>1. PICK i \in 1..k : results[j].stage = NameOf(i)
    BY DEF TasksOK, Of
  <2>2. NameOf(i) = NameOf(k')
    BY <1>7, <2>1 DEF Of
  <2>3. k' \in 0..(Len(stages) + 1) /\ (k' > Len(stages) => DerivesProcessed)
    BY <1>3 DEF EndStage
  <2>4. i = k'
    BY <1>3, <2>2, <2>3, NamesDiffer
  <2> QED BY <1>3, <2>4
<1>8. ASSUME NEW i \in 1..k', NEW s \in Due(i)
      PROVE  (\E j \in DOMAIN results : Of(results[j], i, s)) <=> ~(i = k' /\ s \in Open')
  BY <1>3, <1>5, <1>6, <1>7 DEF TasksOK
<1>9. \A j \in DOMAIN results : \E i \in 1..k' : \E s \in Due(i) : Of(results[j], i, s)
  BY <1>3 DEF TasksOK
<1>10. Due(k)' = Due(k')
  BY <1>1 DEF Due, SymbolSet, FailedRaw
<1>11. Range(batch') \cap Range(queue') = {}
  BY <1>1, <1>5
<1> QED BY <1>1, <1>2, <1>4, <1>5, <1>6, <1>8, <1>9, <1>10, <1>11 DEF TasksOK

\* Every step keeps the tasks, unless it ends the run early.
LEMMA NextTasksOK ==
  ASSUME RequestOK, ControlOK, exit # "aborted" => TasksOK, [Next]_vars, exit' # "aborted"
  PROVE  TasksOK'
<1>1. RequestOK' /\ UNCHANGED <<symbols, stages, rebuild>> /\ ControlOK'
  BY NextRequestOK, NextControlOK DEF request
<1>2. CASE TakeBatch
  <2>1. exit = "none"
    BY <1>2 DEF TakeBatch, ControlOK
  <2> QED BY <1>2, <2>1, TakeBatchTasks
<1>3. CASE Answering
  <2>1. /\ UNCHANGED tasks /\ exit' = exit
    BY <1>3, AnsweringIs DEF Answer, tasks, request
  <2> QED BY <2>1, TasksSame
<1>4. CASE Settle /\ \E s \in Range(batch) : outcome[s] = "error"
  BY <1>4 DEF Settle
<1>5. CASE Settled
  <2>1. exit = "none"
    BY <1>5 DEF Settled, ControlOK
  <2> QED BY <1>5, <2>1, SettledTasks
<1>6. CASE Wake
  <2>1. /\ UNCHANGED tasks /\ exit' = exit
    BY <1>6 DEF Wake, tasks, request
  <2> QED BY <2>1, TasksSame
<1>7. CASE EndStage
  <2>1. exit = "none" /\ exit' = exit
    BY <1>7 DEF EndStage, ControlOK
  <2>2. CASE k' = k + 1
    BY <1>1, <1>7, <2>1, <2>2, NextStageTasks
  <2>3. CASE k' = k /\ queue' = queue
    <3>1. UNCHANGED tasks
      BY <1>7, <2>3 DEF EndStage, tasks, request
    <3> QED BY <2>1, <3>1, TasksSame
  <2> QED BY <1>7, <2>2, <2>3 DEF EndStage
<1>8. CASE RebuildPacked
  <2>1. /\ UNCHANGED tasks /\ exit = "none"
    BY <1>8 DEF RebuildPacked, tasks, request, ControlOK
  <2> QED BY <2>1, TasksSame
<1>9. CASE UNCHANGED vars
  BY <1>9, TasksSame DEF vars, control, request, tasks
<1> QED BY <1>2, <1>3, <1>4, <1>5, <1>6, <1>7, <1>8, <1>9
       DEF Next, Answering, Settled, Settle, Done

-----------------------------------------------------------------------------
(***************************************************************************)
(* The derived files: what FreshOK says of them while no packed source was *)
(* rebuilt, and the parts of it that a step leaves alone.                  *)
(***************************************************************************)
Derived ==
  ProcessedAfterItsInputs =>
    /\ StageName = "processed" => stale \subseteq FailedRaw \cup (Open \ Built)
    /\ \A i \in 1..Len(stages) :
         i < k /\ stages[i] = "processed" => stale \subseteq FailedRaw

\* Until the run ends the derived files are only required to be due.
LEMMA FreshBeforeEnd ==
  ASSUME exit = "none"
  PROVE  FreshOK <=> hasDaily \subseteq SymbolSet /\ stale \subseteq SymbolSet /\ Derived
BY DEF FreshOK, Derived, PackedNotStale

\* What names and failures read: the request, the stage and the results.
LEMMA DerivedSame ==
  ASSUME UNCHANGED <<symbols, stages, k, results>>
  PROVE  /\ FailedRaw' = FailedRaw /\ StageName' = StageName /\ SymbolSet' = SymbolSet
         /\ ProcessedAfterItsInputs' = ProcessedAfterItsInputs
BY DEF FailedRaw, StageName, NameOf, SymbolSet, ProcessedAfterItsInputs

\* An answer: a raw file becomes stale before the processed stage only, a
\* processed one is built in it.
LEMMA AnsweringFresh ==
  ASSUME RequestOK, ControlOK, FreshOK, Answering
  PROVE  FreshOK'
<1>1. PICK s \in SymbolSet :
        RawSaved(s) \/ RawUntouched(s) \/ RawRefused(s) \/ ProcessedBuilt(s) \/ CallError(s)
  BY DEF Answering
<1>2. /\ UNCHANGED <<symbols, stages, rebuild, k, pc, queue, batch, results, exit>>
      /\ pc = "calls" /\ exit = "none" /\ outcome[s] = "running" /\ s \in Range(batch)
      /\ outcome \in [Range(batch) -> Answers]
  BY <1>1 DEF RawSaved, RawUntouched, RawRefused, ProcessedBuilt, CallError, Answer,
              request, ControlOK
<1>3. /\ FailedRaw' = FailedRaw /\ StageName' = StageName /\ SymbolSet' = SymbolSet
      /\ ProcessedAfterItsInputs' = ProcessedAfterItsInputs
  BY <1>2, DerivedSame
<1>4. Open' = Open /\ exit' = "none"
  BY <1>2 DEF Open
<1>5. hasDaily \subseteq SymbolSet /\ stale \subseteq SymbolSet /\ Derived
  BY <1>2, FreshBeforeEnd
<1>6. SUFFICES hasDaily' \subseteq SymbolSet /\ stale' \subseteq SymbolSet /\ Derived'
  BY <1>3, <1>4 DEF FreshOK, Derived, PackedNotStale
<1>7. CASE RawSaved(s)
  <2>1. StageName # "processed"
    BY <1>7 DEF RawSaved
  <2>2. CASE StageName \in DependencyStages
    <3>1. k \in 1..Len(stages) /\ stages[k] \in DependencyStages
      BY <2>1, <2>2, NamesTyped DEF StageName, NameOf, ControlOK
    <3>2. ASSUME ProcessedAfterItsInputs, NEW i \in 1..Len(stages), i < k
          PROVE  stages[i] # "processed"
      <4>1. stages[i] = "processed" => k < i
        BY <3>1, <3>2, NamesTyped DEF ProcessedAfterItsInputs
      <4> QED BY <3>1, <3>2, <4>1
    <3>3. hasDaily' \subseteq SymbolSet /\ stale' \subseteq SymbolSet
      BY <1>5, <1>7 DEF RawSaved
    <3> QED BY <1>2, <1>3, <2>1, <3>2, <3>3 DEF Derived
  <2>3. CASE StageName \notin DependencyStages
    <3>1. hasDaily' \subseteq SymbolSet /\ stale' = stale
      BY <1>5, <1>7, <2>3 DEF RawSaved
    <3> QED BY <1>2, <1>3, <1>5, <2>1, <3>1 DEF Derived
  <2> QED BY <2>2, <2>3
<1>8. CASE RawUntouched(s) \/ RawRefused(s)
  <2>1. StageName # "processed" /\ hasDaily' = hasDaily /\ stale' = stale
    BY <1>8 DEF RawUntouched, RawRefused, files
  <2> QED BY <1>2, <1>3, <1>5, <2>1 DEF Derived
<1>9. CASE ProcessedBuilt(s)
  <2>1. /\ hasDaily' = hasDaily /\ stale' = stale \ {s}
        /\ outcome' = [outcome EXCEPT ![s] = "ok"]
    BY <1>9 DEF ProcessedBuilt, Answer
  <2>2. Built' = Built \cup {s}
    BY <1>2, <2>1 DEF Built
  <2> QED BY <1>2, <1>3, <1>4, <1>5, <2>1, <2>2 DEF Derived
<1>10. CASE CallError(s)
  <2>1. /\ hasDaily' = hasDaily /\ stale' = stale
        /\ outcome' = [outcome EXCEPT ![s] = "error"]
    BY <1>10 DEF CallError, Answer, files
  <2>2. Built' = Built
    BY <1>2, <2>1 DEF Built
  <2> QED BY <1>2, <1>3, <1>4, <1>5, <2>1, <2>2 DEF Derived
<1> QED BY <1>1, <1>7, <1>8, <1>9, <1>10

(***************************************************************************)
(* A batch of the processed stage ends with all of it built, or ends the   *)
(* run.                                                                    *)
(***************************************************************************)
LEMMA SettledFresh ==
  ASSUME RequestOK, ControlOK, TasksOK, FreshOK, Settled
  PROVE  FreshOK'
<1>1. /\ UNCHANGED <<symbols, stages, rebuild, k, exit, hasDaily, stale, unpacked>>
      /\ batch' = <<>> /\ exit = "none" /\ pc = "calls"
  BY DEF Settled, Settle, request, files, ControlOK
<1>2. /\ StageName' = StageName /\ SymbolSet' = SymbolSet
      /\ ProcessedAfterItsInputs' = ProcessedAfterItsInputs
  BY <1>1 DEF StageName, NameOf, SymbolSet, ProcessedAfterItsInputs
<1>3. FailedRaw \subseteq FailedRaw' /\ (StageName = "processed" => FailedRaw' = FailedRaw)
  BY FailedRawGrows
<1>4. Open' = Refused \cup Range(queue) /\ Built' = {}
  <2>1. Range(batch') = {}
    BY <1>1 DEF Range
  <2> QED BY <2>1, QueueSettled DEF Open, Built
<1>5. ASSUME StageName = "processed" PROVE Built = Range(batch) /\ Refused = {}
  <2>1. \A s \in Range(batch) : outcome[s] = "ok"
    BY <1>1, <1>5 DEF Settled, Settle, ControlOK
  <2> QED BY <2>1 DEF Built, Refused, Limited
<1>6. hasDaily \subseteq SymbolSet /\ stale \subseteq SymbolSet /\ Derived
  BY <1>1, FreshBeforeEnd
<1>7. ASSUME StageName = "processed" PROVE Open \ Built \subseteq Open' \ Built'
  BY <1>4, <1>5, <1>7 DEF Open
<1>8. Derived'
  BY <1>1, <1>2, <1>3, <1>6, <1>7 DEF Derived
<1> QED BY <1>1, <1>2, <1>6, <1>8 DEF FreshOK, Derived, PackedNotStale

(***************************************************************************)
(* When a stage is over nothing is open: a processed stage has built what  *)
(* it was due for, and the next one begins with all that is due open.      *)
(***************************************************************************)
LEMMA EndStageFresh ==
  ASSUME RequestOK, ControlOK, FreshOK, EndStage
  PROVE  FreshOK'
<1>1. /\ UNCHANGED <<symbols, stages, rebuild, batch, outcome, results, exit,
                     hasDaily, stale, unpacked>>
      /\ batch = <<>> /\ queue = <<>> /\ exit = "none"
  BY DEF EndStage, request, files, ControlOK
<1>2. /\ FailedRaw' = FailedRaw /\ SymbolSet' = SymbolSet
      /\ ProcessedAfterItsInputs' = ProcessedAfterItsInputs
  BY <1>1 DEF FailedRaw, SymbolSet, ProcessedAfterItsInputs
<1>3. /\ Range(batch) = {} /\ Range(queue) = {} /\ Open = {} /\ Built = {}
      /\ Open' = Range(queue') /\ Built' = {}
  BY <1>1 DEF Range, Open, Built
<1>4. hasDaily \subseteq SymbolSet /\ stale \subseteq SymbolSet /\ Derived
  BY <1>1, FreshBeforeEnd
<1>5. SUFFICES Derived'
  BY <1>1, <1>2, <1>4 DEF FreshOK, Derived, PackedNotStale
<1>6. Len(stages) \in Nat /\ k \in Nat /\ k >= 1
  BY NamesTyped DEF ControlOK
<1>7. CASE k' = k /\ queue' = queue
  <2>1. StageName' = StageName /\ Open' = Open
    BY <1>1, <1>7 DEF StageName, NameOf, Open
  <2> QED BY <1>1, <1>2, <1>3, <1>4, <1>7, <2>1 DEF Derived
<1>8. CASE k' = k + 1
  <2>1. stale \subseteq FailedRaw \cup Open'
    <3>1. CASE queue' = symbols
      BY <1>3, <1>4, <3>1 DEF SymbolSet
    <3>2. CASE queue' = Kept(symbols, SymbolSet \ FailedRaw)
      <4>1. Range(queue') = SymbolSet \cap (SymbolSet \ FailedRaw)
        BY <3>2, KeptMembers DEF RequestOK, SymbolSet
      <4> QED BY <1>3, <1>4, <4>1
    <3>3. k' # k
      BY <1>6, <1>8
    <3> QED BY <3>1, <3>2, <3>3 DEF EndStage
  <2>2. ASSUME ProcessedAfterItsInputs, NEW i \in 1..Len(stages), i < k', stages[i] = "processed"
        PROVE  stale \subseteq FailedRaw
    <3>1. CASE i < k
      BY <1>4, <2>2, <3>1 DEF Derived
    <3>2. CASE i = k
      <4>1. StageName = "processed"
        BY <2>2, <3>2 DEF StageName, NameOf
      <4> QED BY <1>3, <1>4, <2>2, <4>1 DEF Derived
    <3> QED BY <1>6, <1>8, <2>2, <3>1, <3>2
  <2> QED BY <1>1, <1>2, <1>3, <2>1, <2>2 DEF Derived
<1> QED BY <1>7, <1>8 DEF EndStage

\* Every step keeps the derived files in step with the stages.
LEMMA NextFreshOK ==
  ASSUME RequestOK, ControlOK, exit # "aborted" => TasksOK, FreshOK, [Next]_vars
  PROVE  FreshOK'
<1>1. CASE TakeBatch
  <2>1. /\ UNCHANGED <<symbols, stages, rebuild, k, results, exit, hasDaily, stale, unpacked>>
        /\ batch = <<>> /\ exit = "none"
    BY <1>1 DEF TakeBatch, request, files, ControlOK
  <2>2. /\ FailedRaw' = FailedRaw /\ StageName' = StageName /\ SymbolSet' = SymbolSet
        /\ ProcessedAfterItsInputs' = ProcessedAfterItsInputs
    BY <2>1, DerivedSame
  <2>3. Open' = Open
    <3>1. Range(batch) = {}
      BY <2>1 DEF Range
    <3> QED BY <1>1, <3>1, BatchTaken DEF Open
  <2>4. Built = {}
    BY <2>1 DEF Built, Range
  <2>5. Built' = {}
    <3>1. \A s \in Range(batch') : outcome'[s] = "running"
      BY <1>1, BatchTaken DEF TakeBatch
    <3> QED BY <3>1 DEF Built
  <2> QED BY <2>1, <2>2, <2>3, <2>4, <2>5 DEF FreshOK, PackedNotStale
<1>2. CASE Answering
  BY <1>2, AnsweringFresh
<1>3. CASE Settle /\ \E s \in Range(batch) : outcome[s] = "error"
  <2>1. exit' = "aborted" /\ UNCHANGED <<symbols, hasDaily, stale>>
    BY <1>3 DEF Settle, request, files
  <2> QED BY <2>1 DEF FreshOK, PackedNotStale, SymbolSet
<1>4. CASE Settled
  <2>1. exit = "none"
    BY <1>4 DEF Settled, ControlOK
  <2> QED BY <1>4, <2>1, SettledFresh
<1>5. CASE Wake \/ UNCHANGED vars
  <2>1. UNCHANGED <<symbols, stages, rebuild, k, queue, batch, outcome, results, exit,
                    hasDaily, stale, unpacked>>
    BY <1>5 DEF Wake, request, files, vars, control
  <2>2. /\ FailedRaw' = FailedRaw /\ StageName' = StageName /\ SymbolSet' = SymbolSet
        /\ ProcessedAfterItsInputs' = ProcessedAfterItsInputs
    BY <2>1, DerivedSame
  <2>3. Open' = Open /\ Built' = Built
    BY <2>1 DEF Open, Built
  <2> QED BY <2>1, <2>2, <2>3 DEF FreshOK, PackedNotStale, DerivesPacked
<1>6. CASE EndStage
  BY <1>6, EndStageFresh
<1>7. CASE RebuildPacked
  <2>1. /\ UNCHANGED <<symbols, stages, rebuild, k, queue, batch, outcome, results,
                       hasDaily, stale>>
        /\ exit = "none"
    BY <1>7 DEF RebuildPacked, request, ControlOK
  <2>2. /\ FailedRaw' = FailedRaw /\ StageName' = StageName /\ SymbolSet' = SymbolSet
        /\ ProcessedAfterItsInputs' = ProcessedAfterItsInputs
    BY <2>1, DerivedSame
  <2>3. Open' = Open /\ Built' = Built
    BY <2>1 DEF Open, Built
  <2>4. PackedNotStale'
    BY <1>7, <2>1 DEF RebuildPacked, PackedNotStale, PackedWanted, DerivesPacked
  <2> QED BY <2>1, <2>2, <2>3, <2>4 DEF FreshOK
<1> QED BY <1>1, <1>2, <1>3, <1>4, <1>5, <1>6, <1>7
       DEF Next, Answering, Settled, Settle, Done

-----------------------------------------------------------------------------
\* The invariant of a run.
LEMMA CollectInvariant == Spec => []CollectInv
<1>1. CollectInv /\ [Next]_vars => CollectInv'
  BY NextRequestOK, NextControlOK, NextTasksOK, NextFreshOK DEF CollectInv
<1> QED BY <1>1, InitCollectInv, PTL DEF Spec

\* Open symbols, as the property names them.
LEMMA OpenSequence ==
  ASSUME ControlOK, TasksOK
  PROVE  IsInjective(batch \o queue) /\ Range(batch \o queue) = Open
BY ConcatMembers DEF ControlOK, TasksOK, Open

(***************************************************************************)
(* Refusals, retries and the ends of stages neither lose nor repeat a      *)
(* task, for every list of symbols and stages, number of workers and order *)
(* of answers (run_stage_with_retry, run_tushare).                         *)
(***************************************************************************)
THEOREM TasksAccounted == Spec => []NothingLostOrRepeated
<1>1. CollectInv => NothingLostOrRepeated
  <2> SUFFICES ASSUME CollectInv, exit # "aborted" PROVE NothingLostOrRepeated
    BY DEF NothingLostOrRepeated
  <2>1. RequestOK /\ ControlOK /\ TasksOK
    BY DEF CollectInv
  <2>2. IsInjective(batch \o queue) /\ Range(batch \o queue) = Open
    BY <2>1, OpenSequence
  <2>3. ASSUME NEW i \in 1..k, NEW s \in Due(i)
        PROVE  IF i = k /\ s \in Open THEN ResultsOf(i, s) = {}
               ELSE \E j \in DOMAIN results : ResultsOf(i, s) = {j}
    <3>1. CASE i = k /\ s \in Open
      BY <2>1, <3>1 DEF TasksOK, Of, ResultsOf
    <3>2. CASE ~(i = k /\ s \in Open)
      <4>1. PICK j \in DOMAIN results : Of(results[j], i, s)
        BY <2>1, <3>2 DEF TasksOK
      <4>2. \A l \in DOMAIN results : Of(results[l], i, s) => l = j
        BY <2>1, <4>1 DEF TasksOK, Of
      <4>3. ResultsOf(i, s) = {j}
        BY <4>1, <4>2 DEF ResultsOf, Of
      <4> QED BY <3>2, <4>3
    <3> QED BY <3>1, <3>2
  <2>4. ASSUME NEW j \in DOMAIN results
        PROVE  \E i \in 1..k : results[j].stage = NameOf(i) /\ results[j].symbol \in Due(i)
    BY <2>1 DEF TasksOK, Of
  <2>5. Open \subseteq Due(k)
    BY <2>1 DEF TasksOK
  <2> QED BY <2>2, <2>3, <2>4, <2>5 DEF NothingLostOrRepeated
<1> QED BY <1>1, CollectInvariant, PTL

(***************************************************************************)
(* A run over the processed files' inputs that reaches its end has rebuilt *)
(* them.                                                                   *)
(***************************************************************************)
LEMMA EndsFresh ==
  ASSUME CollectInv
  PROVE  ProcessedNotStale /\ PackedNotStale
<1>1. PackedNotStale
  BY DEF CollectInv, FreshOK
<1>2. ASSUME exit \in {"ok", "failed"}, ProcessedAfterItsInputs,
             \E i \in DOMAIN stages : stages[i] \in DependencyStages \cup {"processed"}
      PROVE  stale \subseteq FailedRaw
  <2>1. /\ RequestOK /\ ControlOK /\ Derived
        /\ Len(stages) \in Nat /\ DOMAIN stages = 1..Len(stages) /\ k \in Nat
    BY <1>2, NamesTyped DEF CollectInv, FreshOK, Derived, ControlOK
  <2>2. pc = "exit" /\ batch = <<>> /\ queue = <<>> /\ AllNamed
    BY <1>2, <2>1 DEF ControlOK
  <2>3. Open = {}
    BY <2>2 DEF Open, Range
  <2>4. StageName = "processed" => stale \subseteq FailedRaw
    BY <1>2, <2>1, <2>3 DEF Derived
  <2>5. CASE k > Len(stages)
    BY <2>1, <2>4, <2>5 DEF StageName, NameOf
  <2>6. CASE k = Len(stages) /\ ~DerivesProcessed
    <3>1. PICK i \in 1..Len(stages) : stages[i] = "processed"
      BY <1>2, <2>1, <2>6 DEF DerivesProcessed
    <3>2. CASE i = k
      BY <2>4, <2>6, <3>1, <3>2 DEF StageName, NameOf
    <3>3. CASE i < k
      BY <1>2, <2>1, <3>1, <3>3 DEF Derived
    <3>4. i \in Int /\ k \in Int /\ i <= k
      BY <2>1, <2>6, <3>1
    <3>5. i = k \/ i < k
      BY <3>4
    <3> QED BY <3>2, <3>3, <3>5
  <2> QED BY <2>2, <2>5, <2>6 DEF AllNamed
<1> QED BY <1>1, <1>2 DEF ProcessedNotStale

\* The rebuild after the raw stages builds a symbol from inputs that this run
\* fetched, all of them.
LEMMA BuiltFromFetched ==
  ASSUME CollectInv, [Next]_vars, NEW s \in stale, s \notin stale', k > Len(stages)
  PROVE  FetchedWhole(s)
<1>1. RequestOK /\ ControlOK
  BY DEF CollectInv
<1>2. PICK x \in SymbolSet : ProcessedBuilt(x)
  BY DEF Next, TakeBatch, RawSaved, RawUntouched, RawRefused, CallError,
         Settle, Wake, EndStage, RebuildPacked, Done, vars, files
<1>3. x = s
  BY <1>2 DEF ProcessedBuilt
<1>4. pc = "calls" /\ s \in Range(batch)
  BY <1>2, <1>3 DEF ProcessedBuilt, Answer
<1>5. TasksOK
  BY <1>1, <1>4 DEF CollectInv, ControlOK
<1>6. /\ Len(stages) \in Nat /\ k \in Nat /\ k \in 1..k /\ DOMAIN stages = 1..Len(stages)
  BY <1>1, NamesTyped DEF ControlOK
<1>7. s \in SymbolSet /\ s \notin FailedRaw
  BY <1>4, <1>5, <1>6 DEF TasksOK, Open, Due
<1>8. ASSUME NEW i \in DOMAIN stages, stages[i] \in DependencyStages
      PROVE  [stage |-> stages[i], symbol |-> s, ok |-> TRUE] \in Range(results)
  <2>1. i \in 1..k /\ i # k /\ s \in Due(i) /\ NameOf(i) = stages[i]
    BY <1>6, <1>7 DEF Due, NameOf
  <2>2. PICK j \in DOMAIN results : Of(results[j], i, s)
    BY <1>5, <2>1 DEF TasksOK
  <2>3. results[j] \in Range(results) /\ results[j] \in Result
    BY <1>1, SequenceMembers DEF ControlOK, Range
  <2>4. results[j].ok
    BY <1>7, <1>8, <2>1, <2>2, <2>3 DEF FailedRaw, Of
  <2>5. results[j] = [stage |-> stages[i], symbol |-> s, ok |-> TRUE]
    BY <2>1, <2>2, <2>3, <2>4 DEF Result, Of
  <2> QED BY <2>3, <2>5
<1> QED BY <1>8 DEF FetchedWhole

(***************************************************************************)
(* A run that does not abort leaves no derived file older than what it is  *)
(* derived from, but for symbols it reports as failed, and rebuilds a      *)
(* processed file only from inputs it fetched (run_tushare).               *)
(***************************************************************************)
THEOREM DerivedAreFresh == Spec => DerivedFollowRaw
<1> DEFINE Whole == \A s \in stale \ stale' : k > Len(stages) => FetchedWhole(s)
<1>1. CollectInv => ProcessedNotStale /\ PackedNotStale
  BY EndsFresh
<1>2. CollectInv /\ [Next]_vars => [Whole]_vars
  BY BuiltFromFetched
<1> QED BY <1>1, <1>2, CollectInvariant, PTL DEF Spec, DerivedFollowRaw
=============================================================================
