----------------------- MODULE ExpectedReturnHistory -----------------------
(***************************************************************************)
(* The expected-return mode of the early exits (src_rust/engine.rs). One   *)
(* history per number of steps left to the next rebalance; a day reads the *)
(* history of its own number and, at its end, adds to it the return each   *)
(* stock makes from that day to the rebalance. That return is read off the *)
(* label matrix, days ahead of the loop.                                   *)
(*                                                                         *)
(* An entry is the day it was taken on, the days whose labels it used and  *)
(* the stock; the quantile bins of an estimate only regroup the entries.   *)
(***************************************************************************)
EXTENDS Integers, FiniteSets

CONSTANTS
  Stocks,
  MaxFreq, MaxDates, MaxMissing,   \* bounds of a run and of its missing labels
  LeastHistories                   \* values of minHistory

VARIABLES
  freq, nDates,    \* rebalance_freq and n_dates of the run
  minHistory,      \* intraperiod_expected_return_min_history
  missing,         \* label cells that are not finite
  pos, pc,
  histories,       \* steps left |-> entries
  used             \* entries the last estimate was computed from

params == <<freq, nDates, minHistory, missing>>
vars == <<params, pos, pc, histories, used>>

Days == 0..(MaxDates - 1)

Init ==
  /\ freq \in 1..MaxFreq /\ nDates \in 1..MaxDates
  /\ minHistory \in LeastHistories
  /\ missing \in {m \in SUBSET (Days \X Stocks) : Cardinality(m) <= MaxMissing}
  /\ pos = 0 /\ pc = "signal"
  /\ histories = [r \in 0..freq |-> {}]
  /\ used = {}

\* intraperiod_remaining_steps_for_pos
RemainingSteps(p) ==
  IF p % freq = 0 THEN 0
  ELSE LET next == (p \div freq + 1) * freq
       IN  (IF next < nDates THEN next ELSE nDates) - p

\* residual_return reads one label per step, all of them finite.
LabelDays(p) == p..(p + RemainingSteps(p) - 1)
HasResidual(p, s) ==
  RemainingSteps(p) > 0 /\ \A d \in LabelDays(p) : <<d, s>> \notin missing

\* estimate: nothing below the least history, else every entry of the bucket.
Estimate ==
  /\ pc = "signal" /\ pos < nDates
  /\ LET history == histories[RemainingSteps(pos)]
     IN  used' = IF RemainingSteps(pos) = 0 \/ Cardinality(history) < minHistory
                 THEN {} ELSE history
  /\ pc' = "append"
  /\ UNCHANGED <<params, pos, histories>>

\* A bug: an entry is stored for the day that follows.
BucketOfNextDay(p) == RemainingSteps(p + 1)

\* The history a day's entries go to.
Bucket(p) == RemainingSteps(p)

\* append_from_row: stocks with a score and a residual return add an entry.
AppendFromRow ==
  /\ pc = "append"
  /\ \E scored \in SUBSET Stocks :
       histories' =
         [histories EXCEPT ![Bucket(pos)] =
            @ \cup {[day |-> pos, stock |-> s, reads |-> LabelDays(pos)] :
                      s \in {t \in scored : HasResidual(pos, t)}}]
  /\ used' = {}
  /\ pos' = pos + 1
  /\ pc' = "signal"
  /\ UNCHANGED params

Done == pc = "signal" /\ pos = nDates /\ UNCHANGED vars

Next == Estimate \/ AppendFromRow \/ Done
Spec == Init /\ [][Next]_vars

-----------------------------------------------------------------------------
(***************************************************************************)
(* No look-ahead: an early exit decided on a day is estimated only from    *)
(* labels of earlier days, although entries are stored before the days     *)
(* they describe have been simulated.                                      *)
(***************************************************************************)
NoLookahead == \A e \in used : \A d \in e.reads : d < pos

(***************************************************************************)
(* Like is compared with like: every entry of an estimate spans as many    *)
(* days as the position has left to its own rebalance.                     *)
(***************************************************************************)
SameHorizon ==
  pc = "append" =>
    \A e \in used : Cardinality(e.reads) = RemainingSteps(pos)

(***************************************************************************)
(* The vector of histories and the label matrix are never read out of      *)
(* range, whatever the last period's length.                               *)
(***************************************************************************)
IndicesInRange ==
  pos < nDates => /\ RemainingSteps(pos) \in DOMAIN histories
                  /\ \A d \in LabelDays(pos) : d < nDates
=============================================================================
