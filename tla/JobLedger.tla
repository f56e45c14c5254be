----------------------------- MODULE JobLedger -----------------------------
(***************************************************************************)
(* What a resumable batch of jobs promises to the person who starts it     *)
(* again and again: a finished job is finished once and for all, and a     *)
(* batch that reports success leaves no chosen job unfinished.             *)
(***************************************************************************)
EXTENDS FiniteSets

CONSTANT Jobs

VARIABLES
  finished,   \* jobs that need no further run
  chosen,     \* jobs the open, or the last, batch was asked for
  verdict     \* "none", "open", "success", "failure" or "error"

ledger == <<finished, chosen, verdict>>

Init == finished = {} /\ chosen = {} /\ verdict = "none"

Open ==
  /\ verdict # "open"
  /\ chosen' \in SUBSET Jobs
  /\ verdict' = "open"
  /\ UNCHANGED finished

Complete(j) ==
  /\ verdict = "open"
  /\ j \in chosen \ finished
  /\ finished' = finished \cup {j}
  /\ UNCHANGED <<chosen, verdict>>

Close(v) ==
  /\ verdict = "open"
  /\ v = "success" => chosen \subseteq finished
  /\ v = "failure" => ~(chosen \subseteq finished)
  /\ verdict' = v
  /\ UNCHANGED <<finished, chosen>>

Next ==
  \/ Open
  \/ \E j \in Jobs : Complete(j)
  \/ \E v \in {"success", "failure", "error"} : Close(v)

Spec == Init /\ [][Next]_ledger
=============================================================================
