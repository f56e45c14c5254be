----------------------------- MODULE MCResearch -----------------------------
(***************************************************************************)
(* The two batch programs over one store of prediction bundles: an         *)
(* experiment batch trains bundles while artifact batches backtest rows    *)
(* that name the bundles of its runs. A wide choice of sweeps is explored  *)
(* without artifact batches; with them, the experiment is the training of  *)
(* two labels.                                                             *)
(***************************************************************************)
EXTENDS ExperimentBatch

CONSTANTS Rows, Workers, Limits, MaxBatches

VARIABLES
  bundleOf,  \* run of the experiment |-> directory of the bundle it used
  row, status, done, failed, recorded, batch, stop, outcome, batches

Artifact == INSTANCE ArtifactBatch WITH Bundles <- 1..2, verdict <- outcome

MCRows == 1..3
MCValues == {1, -1}
artifactVars == <<row, status, done, failed, recorded, batch, stop, outcome, batches>>
Alone == [r \in Rows |-> [primary |-> 1, secondary |-> 1, fused |-> FALSE]]
TwoLabels == [runs |-> SetToSeq(SweepGrid({"label"})), pinned |-> TRUE,
              failFast |-> FALSE, movedStore |-> FALSE]

Tables ==
  {t \in [Rows -> [primary : 1..2, secondary : {2}, fused : BOOLEAN]] :
     /\ ~t[1].fused /\ ~t[2].fused
     /\ t[1].primary = 1 /\ t[2].primary # t[3].primary
     /\ t[3].fused <=> t[3].primary = 1}

\* Every batch over one table, or any sweep and no table.
MCInit ==
  /\ Init
  /\ bundleOf = <<>>
  /\ Artifact!Init
  /\ \/ options = TwoLabels /\ row \in Tables /\ store = <<>>
     \/ row = Alone

Whole == {b \in DOMAIN bundleOf :
            bundleOf[b] \in DOMAIN store /\ store[bundleOf[b]].whole}

\* A directory is there as soon as its run has made it, which it may have
\* done at any time since it started.
ExperimentStep ==
  /\ Next
  /\ bundleOf' = IF pc = "resolve" /\ pc' # "resolve"
                 THEN [b \in DOMAIN bundleOf \cup {run} |->
                         IF b = run THEN bundle' ELSE bundleOf[b]]
                 ELSE bundleOf
  /\ UNCHANGED artifactVars

ArtifactStep ==
  /\ row # Alone
  /\ \E present \in SUBSET (DOMAIN bundleOf) :
       Artifact!Next(present \cup Whole, Whole)
  /\ UNCHANGED <<vars, bundleOf>>

MCNext == ExperimentStep \/ ArtifactStep

Finishing ==
  /\ Artifact!Work(Whole, Whole)
  /\ UNCHANGED <<vars, bundleOf>>

allVars == <<vars, bundleOf, artifactVars>>

\* The thread pool runs every job it was given, and a backtest ends.
MCSpec == MCInit /\ [][MCNext]_allVars /\ WF_allVars(Finishing)

-----------------------------------------------------------------------------
Ledger == INSTANCE JobLedger
            WITH Jobs <- Rows, finished <- done, chosen <- batch.chosen,
                 verdict <- outcome

(***************************************************************************)
(* Artifact batches implement the ledger: a done row is never run again,   *)
(* whatever is killed and restarted, and a batch that reports success      *)
(* leaves no chosen row undone (run_jobs, execute_job_inprocess,           *)
(* execute_job_subprocess).                                                *)
(***************************************************************************)
ImplementsLedger == Ledger!Spec

(***************************************************************************)
(* A batch that ends with a report accounts for each chosen row: it is     *)
(* done, or it is both marked and recorded as failed, or --fail-fast gave  *)
(* it up. No row carries both markers.                                     *)
(***************************************************************************)
EveryRowAccounted ==
  /\ done \cap failed = {}
  /\ outcome \in {"success", "failure"} =>
       \A r \in batch.chosen :
         \/ r \in done
         \/ r \in failed \cap recorded
         \/ batch.failFast /\ status[r] = "dropped"

(***************************************************************************)
(* Every open batch comes to an end, whatever fails in it: no row waits    *)
(* for a worker that is gone (run_jobs_grouped_inprocess,                  *)
(* run_jobs_subprocess_parallel).                                          *)
(***************************************************************************)
BatchEnds == outcome = "open" ~> outcome # "open"
=============================================================================
