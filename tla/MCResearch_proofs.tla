-------------------------- MODULE MCResearch_proofs --------------------------
(***************************************************************************)
(* Artifact batches over any table of rows, any number of workers, limits  *)
(* and batches: every chosen row is accounted for, and the batches         *)
(* implement the ledger of JobLedger.                                      *)
(***************************************************************************)
EXTENDS MCResearch, TLAPS

(***************************************************************************)
(* The types of what a batch keeps.                                        *)
(***************************************************************************)
Dealt == {"skipped", "success", "failed", "lost", "dropped"}

BatchTypeOK ==
  /\ status \in [Rows -> {"unselected", "queued", "running"} \cup Dealt]
  /\ done \subseteq Rows /\ failed \subseteq Rows
  /\ batch.chosen \subseteq Rows
  /\ outcome \in {"none", "open", "success", "failure", "error"}

(***************************************************************************)
(* What the status of a row says about its markers.                        *)
(***************************************************************************)
Marked ==
  /\ done \cap failed = {}
  /\ \A r \in Rows :
       /\ status[r] = "unselected" <=> r \notin batch.chosen
       /\ status[r] \in {"queued", "running"} => outcome = "open"
       /\ status[r] = "running" => r \notin done \cup failed
       /\ status[r] \in {"skipped", "success"} => r \in done
       /\ status[r] = "failed" => r \in failed

(***************************************************************************)
(* Why a batch gives up a row: a job failed under --fail-fast, an error    *)
(* took the batch down, or the process was killed.                         *)
(***************************************************************************)
GivenUp ==
  /\ stop => \E r \in Rows : status[r] = "failed"
  /\ \A r \in Rows : status[r] = "dropped" =>
       \/ batch.failFast /\ stop
       \/ \E q \in Rows : status[q] = "lost"
       \/ outcome = "error"

(***************************************************************************)
(* A batch that ended with a report recorded its failed rows, and has none *)
(* that was lost.                                                          *)
(***************************************************************************)
Reported ==
  /\ outcome \in {"success", "failure"} =>
       /\ \A r \in Rows : status[r] # "lost"
       /\ \A r \in Rows : status[r] = "failed" => r \in recorded
  /\ outcome = "success" => \A r \in Rows : status[r] # "failed"
  /\ outcome = "failure" => \E r \in Rows : status[r] = "failed"

BatchInv == BatchTypeOK /\ Marked /\ GivenUp /\ Reported

(***************************************************************************)
(* The invariant accounts for every chosen row of a batch that reported.   *)
(***************************************************************************)
LEMMA InvAccounts == BatchInv => EveryRowAccounted
BY DEF BatchInv, BatchTypeOK, Marked, GivenUp, Reported, Dealt, EveryRowAccounted

(***************************************************************************)
(* Nothing has been chosen or marked at the start.                         *)
(***************************************************************************)
LEMMA InitBatchInv == MCInit => BatchInv
BY DEF MCInit, Artifact!Init, Artifact!Unselected, BatchInv, BatchTypeOK, Marked, GivenUp,
       Reported, Dealt

(***************************************************************************)
(* A batch opens: the chosen rows are rows of the table.                   *)
(***************************************************************************)
LEMMA OpenKeepsInv == BatchInv /\ Artifact!OpenBatch => BatchInv'
<1> SUFFICES ASSUME BatchInv, Artifact!OpenBatch PROVE BatchInv'
  OBVIOUS
<1>1. PICK chosen \in Artifact!Selections, workers \in Workers, failFast \in BOOLEAN :
        /\ batch' = [chosen |-> chosen, workers |-> workers, failFast |-> failFast]
        /\ status' = [r \in Rows |-> IF r \in chosen THEN "queued" ELSE "unselected"]
  BY DEF Artifact!OpenBatch
<1>2. chosen \subseteq Rows
  <2>1. PICK after \in {0} \cup Rows, allowed \in SUBSET Rows, limit \in Limits :
          chosen = Artifact!SelectRows(after, allowed, limit)
    BY DEF Artifact!Selections
  <2> QED BY <2>1 DEF Artifact!SelectRows
<1>3. /\ outcome' = "open" /\ stop' = FALSE /\ done' = done /\ failed' = failed
  BY DEF Artifact!OpenBatch
<1> QED
  BY <1>1, <1>2, <1>3 DEF BatchInv, BatchTypeOK, Marked, GivenUp, Reported, Dealt

(***************************************************************************)
(* A row is dealt with, one step at a time.                                *)
(***************************************************************************)
LEMMA RowKeepsInv ==
  ASSUME BatchInv, NEW present, NEW whole, Artifact!RowStep(present, whole)
  PROVE  BatchInv'
<1> USE DEF BatchInv, BatchTypeOK, Marked, GivenUp, Reported, Dealt
<1>1. PICK r \in Rows :
        \/ Artifact!SkipDone(r) \/ Artifact!RejectRow(r, present)
        \/ Artifact!StartRow(r, present) \/ Artifact!Succeed(r, whole)
        \/ Artifact!Fail(r) \/ Artifact!DropRow(r)
  BY DEF Artifact!RowStep
<1>2. CASE Artifact!SkipDone(r)
  BY <1>2 DEF Artifact!SkipDone, Artifact!Reached
<1>3. CASE Artifact!RejectRow(r, present)
  BY <1>3 DEF Artifact!RejectRow, Artifact!Reached
<1>4. CASE Artifact!StartRow(r, present)
  BY <1>4 DEF Artifact!StartRow, Artifact!Reached
<1>5. CASE Artifact!Succeed(r, whole)
  BY <1>5 DEF Artifact!Succeed
<1>6. CASE Artifact!Fail(r)
  BY <1>6 DEF Artifact!Fail
<1>7. CASE Artifact!DropRow(r)
  BY <1>7 DEF Artifact!DropRow, Artifact!Dropped, Artifact!Halted, Artifact!Broken,
              Artifact!Having, Artifact!Group
<1> QED BY <1>1, <1>2, <1>3, <1>4, <1>5, <1>6, <1>7

(***************************************************************************)
(* A batch ends with a report, or is killed.                               *)
(***************************************************************************)
LEMMA CloseKeepsInv == BatchInv /\ Artifact!CloseBatch => BatchInv'
BY DEF BatchInv, BatchTypeOK, Marked, GivenUp, Reported, Dealt, Artifact!CloseBatch,
       Artifact!Having

\* A killed batch leaves its log where it was.
LEMMA KillKeepsInv == BatchInv /\ Artifact!Kill => BatchInv'
BY DEF BatchInv, BatchTypeOK, Marked, GivenUp, Reported, Dealt, Artifact!Kill

(***************************************************************************)
(* Training runs beside the batch and leaves its state alone.              *)
(***************************************************************************)
LEMMA IdleKeepsInv == BatchInv /\ UNCHANGED artifactVars => BatchInv'
BY DEF BatchInv, BatchTypeOK, Marked, GivenUp, Reported, Dealt, artifactVars

\* Every step keeps the batch invariant,
LEMMA NextBatchInv == BatchInv /\ [MCNext]_allVars => BatchInv'
<1> SUFFICES ASSUME BatchInv, [MCNext]_allVars PROVE BatchInv'
  OBVIOUS
<1>1. CASE ExperimentStep
  BY <1>1, IdleKeepsInv DEF ExperimentStep
<1>2. CASE ArtifactStep
  <2>1. PICK present : Artifact!Next(present, Whole)
    BY <1>2 DEF ArtifactStep
  <2> QED BY <2>1, OpenKeepsInv, RowKeepsInv, CloseKeepsInv, KillKeepsInv
          DEF Artifact!Next, Artifact!Work
<1>3. CASE UNCHANGED allVars
  BY <1>3, IdleKeepsInv DEF allVars
<1> QED BY <1>1, <1>2, <1>3 DEF MCNext

\* and so it holds throughout.
LEMMA BatchInvariant == MCSpec => []BatchInv
BY InitBatchInv, NextBatchInv, PTL DEF MCSpec

(***************************************************************************)
(* A batch that ends with a report accounts for each chosen row, whatever  *)
(* earlier batches left behind and wherever they were killed               *)
(* (run_jobs, execute_job_inprocess, execute_job_subprocess).              *)
(***************************************************************************)
THEOREM RowsAccounted == MCSpec => []EveryRowAccounted
BY BatchInvariant, InvAccounts, PTL

-----------------------------------------------------------------------------
(***************************************************************************)
(* The refinement, step by step: opening a batch opens the ledger, a row   *)
(* that succeeds completes its job, the report or a kill closes it, and    *)
(* every other step of either program leaves the ledger as it is.          *)
(***************************************************************************)
LEMMA InitImplementsLedger == MCInit => Ledger!Init
BY DEF MCInit, Artifact!Init, Ledger!Init

\* Opening the log opens the ledger.
LEMMA OpenImplementsLedger == BatchInv /\ Artifact!OpenBatch => Ledger!Open
<1> SUFFICES ASSUME BatchInv, Artifact!OpenBatch PROVE Ledger!Open
  OBVIOUS
<1>1. batch'.chosen \in SUBSET Rows
  BY OpenKeepsInv DEF BatchInv, BatchTypeOK
<1> QED BY <1>1 DEF Artifact!OpenBatch, Ledger!Open

\* An artifact adds its row or, when it is skipped, changes nothing of the
\* ledger,
LEMMA RowImplementsLedger ==
  ASSUME BatchInv, NEW present, NEW whole, Artifact!RowStep(present, whole)
  PROVE  (\E r \in Rows : Ledger!Complete(r)) \/ UNCHANGED Ledger!ledger
<1>1. PICK r \in Rows :
        \/ Artifact!SkipDone(r) \/ Artifact!RejectRow(r, present)
        \/ Artifact!StartRow(r, present) \/ Artifact!Succeed(r, whole)
        \/ Artifact!Fail(r) \/ Artifact!DropRow(r)
  BY DEF Artifact!RowStep
<1>2. CASE Artifact!Succeed(r, whole)
  <2>1. outcome = "open" /\ r \in batch.chosen \ done
    BY <1>2 DEF Artifact!Succeed, BatchInv, BatchTypeOK, Marked
  <2>2. Ledger!Complete(r)
    BY <1>2, <2>1 DEF Artifact!Succeed, Ledger!Complete
  <2> QED BY <2>2
<1>3. CASE ~Artifact!Succeed(r, whole)
  BY <1>1, <1>3 DEF Artifact!SkipDone, Artifact!RejectRow, Artifact!StartRow, Artifact!Fail,
                    Artifact!DropRow, Ledger!ledger
<1> QED BY <1>2, <1>3

\* However the batch ends, it closes the ledger with a verdict that is
\* allowed.
LEMMA CloseImplementsLedger ==
  ASSUME BatchInv, Artifact!CloseBatch \/ Artifact!Kill
  PROVE  \E v \in {"success", "failure", "error"} : Ledger!Close(v)
<1>1. /\ outcome = "open" /\ outcome' \in {"success", "failure", "error"}
      /\ UNCHANGED <<done, batch>>
  BY DEF Artifact!CloseBatch, Artifact!Kill
<1>2. BatchInv'
  BY CloseKeepsInv, KillKeepsInv
<1>3. /\ outcome' = "success" => batch.chosen \subseteq done
      /\ outcome' = "failure" => ~(batch.chosen \subseteq done)
  <2>1. /\ outcome' = "success" => batch'.chosen \subseteq done'
        /\ outcome' = "failure" => ~(batch'.chosen \subseteq done')
    BY <1>2 DEF BatchInv, BatchTypeOK, Marked, GivenUp, Reported, Dealt
  <2> QED BY <1>1, <2>1
<1>4. Ledger!Close(outcome')
  BY <1>1, <1>3 DEF Ledger!Close
<1> QED BY <1>1, <1>4

\* So every step of the batch is a step of the ledger or a stutter.
LEMMA StepImplementsLedger == BatchInv /\ [MCNext]_allVars => [Ledger!Next]_Ledger!ledger
<1> SUFFICES ASSUME BatchInv, [MCNext]_allVars PROVE [Ledger!Next]_Ledger!ledger
  OBVIOUS
<1>1. CASE UNCHANGED artifactVars
  BY <1>1 DEF artifactVars, Ledger!ledger
<1>2. CASE ArtifactStep
  <2>1. PICK present : Artifact!Next(present, Whole)
    BY <1>2 DEF ArtifactStep
  <2>2. CASE Artifact!OpenBatch
    BY <2>2, OpenImplementsLedger DEF Ledger!Next
  <2>3. CASE Artifact!RowStep(present, Whole)
    BY <2>3, RowImplementsLedger DEF Ledger!Next
  <2>4. CASE Artifact!CloseBatch \/ Artifact!Kill
    BY <2>4, CloseImplementsLedger DEF Ledger!Next
  <2> QED BY <2>1, <2>2, <2>3, <2>4 DEF Artifact!Next, Artifact!Work
<1> QED BY <1>1, <1>2 DEF MCNext, ExperimentStep, allVars

(***************************************************************************)
(* Artifact batches implement the ledger: a done row is never run again    *)
(* and a batch that reports success leaves no chosen row undone (run_jobs).*)
(***************************************************************************)
THEOREM BatchesImplementLedger == MCSpec => ImplementsLedger
<1>1. MCInit => Ledger!Init
  BY InitImplementsLedger
<1>2. BatchInv /\ [MCNext]_allVars => [Ledger!Next]_Ledger!ledger
  BY StepImplementsLedger
<1> QED BY <1>1, <1>2, BatchInvariant, PTL DEF MCSpec, ImplementsLedger, Ledger!Spec

-----------------------------------------------------------------------------
(***************************************************************************)
(* The experiment batch. A bundle's record keeps its shape; nothing on     *)
(* disk is newer than now, and no bundle handed on is of the current       *)
(* second, so that the directory of the next run is a new one.             *)
(***************************************************************************)
StoreOK ==
  /\ clock \in Nat
  /\ \A d \in DOMAIN store :
       /\ store[d] = [cfg |-> store[d].cfg, modified |-> store[d].modified,
                      whole |-> store[d].whole]
       /\ store[d].modified \in Nat /\ store[d].modified <= clock

HandedOn ==
  \A f \in DOMAIN registry :
    /\ registry[f] \in DOMAIN store
    /\ store[registry[f]].whole
    /\ Fingerprint(store[registry[f]].cfg) = f
    /\ registry[f].second \in Nat /\ registry[f].second < SecondOf(clock)

(***************************************************************************)
(* A run that trains, or has trained, writes the directory of its own      *)
(* second and tag, and once it has trained nothing on disk is as new.      *)
(***************************************************************************)
OwnDirectory ==
  /\ Registers /\ bundle = dir
  /\ started \in Nat
  /\ dir = [second |-> SecondOf(started), tag |-> Tag(Overrides)]

JustTrained ==
  /\ OwnDirectory
  /\ started + Second <= clock
  /\ dir \in DOMAIN store
  /\ store[dir].whole /\ store[dir].cfg = Config
  /\ store[dir].modified = clock
  /\ \A d \in DOMAIN store : d # dir => store[d].modified < clock

ExperimentInv ==
  /\ StoreOK /\ HandedOn
  /\ pc = "train" => OwnDirectory /\ started = clock
  /\ pc = "backtest" =>
       IF Registers THEN JustTrained ELSE bundle = registry[Fingerprint(Config)]

(***************************************************************************)
(* Directory names carry whole seconds: a second later it is another one.  *)
(***************************************************************************)
LEMMA SecondsPass ==
  ASSUME NEW s \in Nat, NEW t \in Nat
  PROVE  /\ SecondOf(s) \in Nat
         /\ s <= t => SecondOf(s) <= SecondOf(t)
         /\ s + Second <= t => SecondOf(s) < SecondOf(t)
<1> DEFINE k == Second
<1>1. k \in Nat /\ k > 0
  BY ExperimentAssumption
<1>2. /\ s \div k \in Nat /\ t \div k \in Nat
      /\ k * (s \div k) <= s /\ s < k * (s \div k) + k
      /\ k * (t \div k) <= t /\ t < k * (t \div k) + k
  <2> HIDE DEF k
  <2> QED BY <1>1
<1> QED BY <1>1, <1>2 DEF SecondOf

(***************************************************************************)
(* At the start there is at most a bundle of an earlier batch, in no       *)
(* registry.                                                               *)
(***************************************************************************)
LEMMA InitExperimentInv == Init => ExperimentInv
<1> SUFFICES ASSUME Init PROVE ExperimentInv
  OBVIOUS
<1>1. clock \in Nat /\ clock = 2 * Second /\ Second \in Nat
  BY ExperimentAssumption DEF Init
<1>2. DOMAIN registry = {} /\ pc = "resolve"
  BY DEF Init
<1>3. CASE store = <<>>
  BY <1>1, <1>2, <1>3 DEF ExperimentInv, StoreOK, HandedOn
<1>4. CASE store # <<>>
  <2>1. PICK D, C : store \in [D -> [cfg : C, modified : Second..(2 * Second - 1),
                                    whole : {TRUE}]]
    BY <1>4 DEF Init
  <2>2. ASSUME NEW d \in DOMAIN store
        PROVE  /\ store[d] = [cfg |-> store[d].cfg, modified |-> store[d].modified,
                              whole |-> store[d].whole]
               /\ store[d].modified \in Nat /\ store[d].modified <= clock
    <3>1. store[d] \in [cfg : C, modified : Second..(2 * Second - 1), whole : {TRUE}]
      BY <2>1
    <3> QED BY <3>1, <1>1
  <2> QED BY <1>1, <1>2, <2>2 DEF ExperimentInv, StoreOK, HandedOn
<1> QED BY <1>3, <1>4

(***************************************************************************)
(* A run starts: its directory is of a later second than any handed on.    *)
(***************************************************************************)
LEMMA StartKeeps == ExperimentInv /\ StartRun => ExperimentInv'
<1> SUFFICES ASSUME ExperimentInv, StartRun PROVE ExperimentInv'
  OBVIOUS
<1>1. /\ UNCHANGED <<options, run, store, registry, clock>> /\ started' = clock
      /\ dir' = [second |-> SecondOf(clock), tag |-> Tag(Overrides)]
      /\ bundle' = IF Replays THEN registry[Fingerprint(Config)] ELSE dir'
      /\ pc' = IF Replays THEN "backtest" ELSE "train"
  BY DEF StartRun
<1>2. Config' = Config /\ Overrides' = Overrides
  BY <1>1 DEF Config, Overrides
<1>3. \A c : Fingerprint(c)' = Fingerprint(c)
  BY <1>1 DEF Fingerprint, ValidationTopk
<1>4. (Registers)' = ~Replays
  BY <1>1, <1>2, <1>3 DEF Registers, Replays
<1>5. StoreOK' /\ HandedOn'
  BY <1>1, <1>3 DEF ExperimentInv, StoreOK, HandedOn, SecondOf
<1>6. \A o : Tag(o)' = Tag(o)
  BY DEF Tag, Magnitude
<1>7. CASE Replays
  BY <1>1, <1>2, <1>3, <1>4, <1>5, <1>7 DEF ExperimentInv
<1>8. CASE ~Replays
  <2>1. OwnDirectory'
    BY <1>1, <1>2, <1>4, <1>8 DEF OwnDirectory, ExperimentInv, StoreOK, SecondOf, Tag, Magnitude
  <2> QED BY <1>1, <1>5, <1>8, <2>1 DEF ExperimentInv
<1> QED BY <1>7, <1>8

(***************************************************************************)
(* Training ends: the bundle written last is newer than every other one,   *)
(* and none that was handed on is in its directory.                        *)
(***************************************************************************)
LEMMA TrainOkKeeps == ExperimentInv /\ TrainOk => ExperimentInv'
<1> SUFFICES ASSUME ExperimentInv, TrainOk PROVE ExperimentInv'
  OBVIOUS
<1>1. /\ UNCHANGED <<options, run, dir, bundle, registry, started>> /\ pc' = "backtest"
      /\ OwnDirectory /\ started = clock /\ clock \in Nat
      /\ store' = [d \in DOMAIN store \cup {dir} |->
                     IF d = dir THEN NewBundle(Config) ELSE store[d]]
  BY DEF TrainOk, ExperimentInv, StoreOK
<1>2. clock' \in Nat /\ clock + Second <= clock' /\ clock < clock'
  BY <1>1, ExperimentAssumption DEF TrainOk
<1>3. Config' = Config /\ Overrides' = Overrides /\ \A c : Fingerprint(c)' = Fingerprint(c)
  BY <1>1 DEF Config, Overrides, Fingerprint, ValidationTopk
<1>4. /\ DOMAIN store' = DOMAIN store \cup {dir}
      /\ store'[dir] = [cfg |-> Config, modified |-> clock', whole |-> TRUE]
      /\ \A d \in DOMAIN store \ {dir} : store'[d] = store[d]
  BY <1>1 DEF NewBundle
<1>5. StoreOK'
  BY <1>1, <1>2, <1>4 DEF ExperimentInv, StoreOK
<1>6. ASSUME NEW f \in DOMAIN registry
      PROVE  registry[f] \in DOMAIN store \ {dir}
  BY <1>1, <1>2, SecondsPass DEF ExperimentInv, HandedOn, OwnDirectory
<1>7. HandedOn'
  <2>1. SecondOf(clock) \in Nat /\ SecondOf(clock') \in Nat
        /\ SecondOf(clock) <= SecondOf(clock')
    BY <1>1, <1>2, SecondsPass
  <2>2. SecondOf(clock)' = SecondOf(clock')
    BY DEF SecondOf
  <2> QED BY <1>1, <1>3, <1>4, <1>6, <2>1, <2>2 DEF ExperimentInv, HandedOn
<1>8. JustTrained'
  <2>1. OwnDirectory'
    BY <1>1, <1>3 DEF OwnDirectory, Registers, SecondOf, Tag, Magnitude
  <2>2. \A d \in DOMAIN store' : d # dir => store'[d].modified < clock'
    BY <1>1, <1>2, <1>4 DEF ExperimentInv, StoreOK
  <2>3. started' + Second <= clock' /\ dir' = dir /\ dir \in DOMAIN store'
    BY <1>1, <1>2, <1>4
  <2>4. store'[dir].whole /\ store'[dir].cfg = Config /\ store'[dir].modified = clock'
    BY <1>4
  <2> QED BY <1>3, <2>1, <2>2, <2>3, <2>4 DEF JustTrained
<1> QED BY <1>1, <1>5, <1>7, <1>8 DEF ExperimentInv, JustTrained, OwnDirectory

(***************************************************************************)
(* The next run, or the end, whatever became of this one.                  *)
(***************************************************************************)
LEMMA AfterRun == NextRun \/ FailRun => pc' \in {"resolve", "over"}
BY DEF NextRun, FailRun

(***************************************************************************)
(* A training that fails spoils at most the files of its own directory.    *)
(***************************************************************************)
LEMMA TrainFailsKeeps == ExperimentInv /\ TrainFails => ExperimentInv'
<1> SUFFICES ASSUME ExperimentInv, TrainFails PROVE ExperimentInv'
  OBVIOUS
<1>1. /\ UNCHANGED <<options, registry>> /\ pc' \in {"resolve", "over"}
      /\ OwnDirectory /\ started = clock /\ clock \in Nat /\ clock' = clock + 1
      /\ store' = [d \in DOMAIN store |->
                     IF d = dir THEN [store[d] EXCEPT !.whole = FALSE] ELSE store[d]]
  BY AfterRun DEF TrainFails, ExperimentInv, StoreOK
<1>2. \A c : Fingerprint(c)' = Fingerprint(c)
  BY <1>1 DEF Fingerprint, ValidationTopk
<1>3. SecondOf(clock)' = SecondOf(clock') /\ SecondOf(clock) <= SecondOf(clock')
      /\ SecondOf(clock) \in Nat /\ SecondOf(clock') \in Nat
  BY <1>1, SecondsPass DEF SecondOf
<1>4. StoreOK'
  <2>1. ASSUME NEW d \in DOMAIN store
        PROVE  /\ store'[d] = [cfg |-> store'[d].cfg, modified |-> store'[d].modified,
                               whole |-> store'[d].whole]
               /\ store'[d].modified = store[d].modified
    <3>1. store[d] = [cfg |-> store[d].cfg, modified |-> store[d].modified,
                      whole |-> store[d].whole]
      BY DEF ExperimentInv, StoreOK
    <3>2. CASE d = dir
      <4>1. store'[d] = [store[d] EXCEPT !.whole = FALSE]
        BY <1>1, <3>2
      <4>2. store'[d] = [cfg |-> store[d].cfg, modified |-> store[d].modified,
                         whole |-> FALSE]
        BY <3>1, <4>1
      <4> QED BY <4>2
    <3>3. CASE d # dir
      BY <1>1, <3>1, <3>3
    <3> QED BY <3>2, <3>3
  <2>2. DOMAIN store' = DOMAIN store
    BY <1>1
  <2>3. \A d \in DOMAIN store : store[d].modified \in Nat /\ store[d].modified <= clock'
    BY <1>1 DEF ExperimentInv, StoreOK
  <2>4. clock' \in Nat
    BY <1>1
  <2> QED BY <2>1, <2>2, <2>3, <2>4 DEF StoreOK
<1>5. ASSUME NEW f \in DOMAIN registry
      PROVE  registry[f] \in DOMAIN store \ {dir}
  BY <1>1, <1>3 DEF ExperimentInv, HandedOn, OwnDirectory
<1>6. HandedOn'
  <2>1. \A d \in DOMAIN store \ {dir} : d \in DOMAIN store' /\ store'[d] = store[d]
    BY <1>1
  <2> QED BY <1>1, <1>2, <1>3, <1>5, <2>1 DEF ExperimentInv, HandedOn
<1> QED BY <1>1, <1>4, <1>6 DEF ExperimentInv

(***************************************************************************)
(* The search after a backtest finds the bundle the run trained itself, as *)
(* the one that is newer than all others.                                  *)
(***************************************************************************)
LEMMA FindsOwnBundle ==
  ASSUME StoreOK, JustTrained, Candidates # {}
  PROVE  FoundBundle = dir
<1>1. dir \in Candidates
  <2>1. ~options.movedStore
    BY DEF Candidates
  <2>2. dir.tag = Tag(Overrides)
    BY DEF JustTrained, OwnDirectory
  <2>3. store[dir].modified + Second >= started
    BY ExperimentAssumption DEF JustTrained, OwnDirectory, StoreOK
  <2> QED BY <2>1, <2>2, <2>3 DEF Candidates, JustTrained
<1>2. /\ \A d \in Candidates : d \in DOMAIN store /\ store[d].modified \in Nat
      /\ \A d \in Candidates : d # dir => store[d].modified < store[dir].modified
  BY DEF Candidates, StoreOK, JustTrained
<1>3. \A e \in Candidates : store[dir].modified >= store[e].modified
  BY <1>1, <1>2
<1>4. FoundBundle \in Candidates /\ \A e \in Candidates :
        store[FoundBundle].modified >= store[e].modified
  BY <1>1, <1>3 DEF FoundBundle
<1> QED BY <1>1, <1>2, <1>4

(***************************************************************************)
(* A backtest that ends well hands on the bundle its run trained, under    *)
(* the fingerprint of the run.                                             *)
(***************************************************************************)
LEMMA BacktestOkKeeps == ExperimentInv /\ BacktestOk => ExperimentInv'
<1> SUFFICES ASSUME ExperimentInv, BacktestOk PROVE ExperimentInv'
  OBVIOUS
<1>1. /\ UNCHANGED <<options, dir, bundle, store, started>> /\ clock' = clock + 1
      /\ clock \in Nat /\ pc = "backtest" /\ pc' \in {"resolve", "over"}
  BY AfterRun DEF BacktestOk, ExperimentInv, StoreOK
<1>2. \A c : Fingerprint(c)' = Fingerprint(c)
  BY <1>1 DEF Fingerprint, ValidationTopk
<1>3. SecondOf(clock)' = SecondOf(clock') /\ SecondOf(clock) <= SecondOf(clock')
      /\ SecondOf(clock) \in Nat /\ SecondOf(clock') \in Nat
  BY <1>1, SecondsPass DEF SecondOf
<1>4. StoreOK'
  BY <1>1 DEF ExperimentInv, StoreOK
<1>5. HandedOn'
  <2>1. CASE registry' = registry
    BY <1>1, <1>2, <1>3, <2>1 DEF ExperimentInv, HandedOn
  <2>2. CASE registry' # registry
    <3>1. /\ Registers /\ Candidates # {}
          /\ registry' = [f \in DOMAIN registry \cup {Fingerprint(Config)} |->
                            IF f \in DOMAIN registry THEN registry[f] ELSE FoundBundle]
      BY <2>2 DEF BacktestOk
    <3>2. JustTrained /\ FoundBundle = dir
      BY <1>1, <3>1, FindsOwnBundle DEF ExperimentInv
    <3>3. /\ dir \in DOMAIN store /\ store[dir].whole /\ store[dir].cfg = Config
          /\ dir.second = SecondOf(started) /\ started \in Nat /\ started + Second <= clock
      BY <3>2 DEF JustTrained, OwnDirectory
    <3>4. dir.second \in Nat /\ dir.second < SecondOf(clock)
      BY <1>1, <3>3, SecondsPass
    <3>5. ASSUME NEW f \in DOMAIN registry'
          PROVE  /\ registry'[f] \in DOMAIN store /\ store[registry'[f]].whole
                 /\ Fingerprint(store[registry'[f]].cfg) = f
                 /\ registry'[f].second \in Nat
                 /\ registry'[f].second < SecondOf(clock)
      <4>1. CASE f \in DOMAIN registry
        BY <3>1, <4>1 DEF ExperimentInv, HandedOn
      <4>2. CASE f \notin DOMAIN registry
        <5>1. registry'[f] = dir /\ f = Fingerprint(Config)
          BY <3>1, <3>2, <4>2
        <5> QED BY <5>1, <3>3, <3>4
      <4> QED BY <4>1, <4>2
    <3> QED BY <1>1, <1>2, <1>3, <3>5 DEF HandedOn
  <2> QED BY <2>1, <2>2
<1> QED BY <1>1, <1>4, <1>5 DEF ExperimentInv

\* A failed backtest leaves the trainings alone.
LEMMA BacktestFailsKeeps == ExperimentInv /\ BacktestFails => ExperimentInv'
<1> SUFFICES ASSUME ExperimentInv, BacktestFails PROVE ExperimentInv'
  OBVIOUS
<1>1. /\ UNCHANGED <<options, registry, store>> /\ clock' = clock + 1
      /\ clock \in Nat /\ pc' \in {"resolve", "over"}
  BY AfterRun DEF BacktestFails, ExperimentInv, StoreOK
<1>2. \A c : Fingerprint(c)' = Fingerprint(c)
  BY <1>1 DEF Fingerprint, ValidationTopk
<1>3. SecondOf(clock)' = SecondOf(clock') /\ SecondOf(clock) <= SecondOf(clock')
      /\ SecondOf(clock) \in Nat /\ SecondOf(clock') \in Nat
  BY <1>1, SecondsPass DEF SecondOf
<1>4. StoreOK' /\ HandedOn'
  BY <1>1, <1>2, <1>3 DEF ExperimentInv, StoreOK, HandedOn
<1> QED BY <1>1, <1>4 DEF ExperimentInv

(***************************************************************************)
(* An artifact batch reads bundles and leaves the experiment alone.        *)
(***************************************************************************)
LEMMA IdleKeepsExperimentInv == ExperimentInv /\ UNCHANGED vars => ExperimentInv'
BY DEF ExperimentInv, StoreOK, HandedOn, OwnDirectory, JustTrained, Registers, Config,
       RunConfig, Overrides, Fingerprint, ValidationTopk, SecondOf, Tag, Magnitude, vars

\* Every step keeps the experiment invariant,
LEMMA NextExperimentInv == ExperimentInv /\ [MCNext]_allVars => ExperimentInv'
BY StartKeeps, TrainOkKeeps, TrainFailsKeeps, BacktestOkKeeps, BacktestFailsKeeps,
   IdleKeepsExperimentInv
   DEF MCNext, ExperimentStep, ArtifactStep, Next, allVars

\* and so it holds throughout.
LEMMA ExperimentInvariant == MCSpec => []ExperimentInv
<1>1. MCInit => ExperimentInv
  BY InitExperimentInv DEF MCInit
<1> QED BY <1>1, NextExperimentInv, PTL DEF MCSpec

(***************************************************************************)
(* A backtest only ever uses a whole bundle trained from inputs equal to   *)
(* its own run's, for every sweep, registry and pace of the clock          *)
(* (prediction_fingerprint, find_prediction_artifact_dir).                 *)
(***************************************************************************)
THEOREM ReplaysShareTraining == MCSpec => []ReplayedSameTraining
<1>1. ExperimentInv => ReplayedSameTraining
  <2> SUFFICES ASSUME ExperimentInv, pc = "backtest"
               PROVE  /\ bundle \in DOMAIN store /\ store[bundle].whole
                      /\ TrainingInputs(store[bundle].cfg) = TrainingInputs(Config)
    BY DEF ReplayedSameTraining
  <2>1. \A c : TrainingInputs(c) = Fingerprint(c)
    BY DEF TrainingInputs, Fingerprint
  <2>2. CASE Registers
    BY <2>2 DEF ExperimentInv, JustTrained, OwnDirectory
  <2>3. CASE ~Registers
    BY <2>1, <2>3 DEF ExperimentInv, HandedOn, Registers
  <2> QED BY <2>2, <2>3
<1> QED BY <1>1, ExperimentInvariant, PTL
=============================================================================
