--------------------------- MODULE TargetWeights ---------------------------
(***************************************************************************)
(* compute_target_weights (src_rust/engine.rs): raw weights are normalised *)
(* and capped per stock (cap_weights), then per group (cap_group_weights). *)
(* Each of the two redistributes what its caps cut off, round by round,    *)
(* until a round cuts nothing: one round of a loop is one step here.       *)
(*                                                                         *)
(* Caps are integers in units of 1 / Unit, so the remaining budget is one  *)
(* too; a weight is an exact fraction. The three weighting modes only      *)
(* differ in the raw weights, all positive, which are an input.            *)
(***************************************************************************)
EXTENDS Integers, FiniteSets, Functions

CONSTANTS Names, Groups, None,
          MaxRaw,        \* raw weights are 1..MaxRaw
          Unit           \* the caps' denominator

VARIABLES
  raw, group,            \* the inputs: raw weights and group_ids
  maxWeight, maxGroup,   \* max_weight, max_group_weight; None when absent,
                         \* for a group cap also when group_ids is empty
  phase,                 \* "cap", then "group", then "done"
  weight,                \* normalised weights the running loop reads
  final,                 \* the weights the running loop has settled
  remaining, budget      \* unsettled names, unsettled budget

inputs == <<raw, group, maxWeight, maxGroup>>
vars == <<inputs, phase, weight, final, remaining, budget>>

Gcd[p \in Nat \X Nat] == IF p[2] = 0 THEN p[1] ELSE Gcd[<<p[2], p[1] % p[2]>>]
Fraction(n, d) == [n |-> n \div Gcd[<<n, d>>], d |-> d \div Gcd[<<n, d>>]]
Zero == Fraction(0, 1)
Leq(a, b) == a.n * b.d <= b.n * a.d
Plus(a, b) == Fraction(a.n * b.d + b.n * a.d, a.d * b.d)
Sum(w, S) == FoldFunctionOnSet(+, 0, w, S)
SumOfFractions(w, S) == FoldFunctionOnSet(Plus, Zero, w, S)

Init ==
  /\ raw \in [Names -> 1..MaxRaw]
  /\ group \in [Names -> Groups]
  /\ maxWeight \in (1..Unit) \cup {None}
  /\ maxGroup \in (1..Unit) \cup {None}
  /\ phase = "cap"
  /\ weight = raw
  /\ final = [x \in Names |-> Zero]
  /\ remaining = Names
  /\ budget = Unit

\* The share of the remaining budget a set of unsettled names would get is
\* Sum(weight, S) * budget / (Sum(weight, remaining) * Unit).
ShareExceeds(S, cap) ==
  cap # None /\ Sum(weight, S) * budget > cap * Sum(weight, remaining)

\* A bug: stocks are capped in the first round only.
OverNamesOnce == {x \in remaining : remaining = Names /\ ShareExceeds({x}, maxWeight)}

OverNames == {x \in remaining : ShareExceeds({x}, maxWeight)}

Members(g) == {x \in remaining : group[x] = g}

OverGroups ==
  {g \in {group[x] : x \in remaining} : ShareExceeds(Members(g), maxGroup)}

LoopRuns == remaining # {} /\ budget > 0 /\ Sum(weight, remaining) > 0

\* What is left when each member of `over` took its cap.
BudgetLeft(cap, over) ==
  LET left == budget - cap * Cardinality(over)
  IN  IF left > 0 THEN left ELSE 0

\* A loop that ends leaves its proposal for the names not yet settled.
Settled ==
  IF LoopRuns
  THEN [x \in Names |->
          IF x \in remaining
          THEN Fraction(weight[x] * budget, Sum(weight, remaining) * Unit)
          ELSE final[x]]
  ELSE final

CapRound ==
  /\ phase = "cap" /\ LoopRuns /\ OverNames # {}
  /\ final' = [x \in Names |-> IF x \in OverNames
                               THEN Fraction(maxWeight, Unit) ELSE final[x]]
  /\ remaining' = remaining \ OverNames
  /\ budget' = BudgetLeft(maxWeight, OverNames)
  /\ UNCHANGED <<inputs, phase, weight>>

\* cap_group_weights normalises what cap_weights returns: only the ratios of
\* the capped weights survive, here over their common denominator.
BeginGroups ==
  /\ phase = "cap" /\ (LoopRuns => OverNames = {})
  /\ IF maxGroup = None
     THEN /\ phase' = "done" /\ final' = Settled
          /\ UNCHANGED <<weight, remaining, budget>>
     ELSE /\ phase' = "group" /\ final' = [x \in Names |-> Zero]
          /\ weight' = [x \in Names |->
               IF LoopRuns
               THEN IF x \in remaining THEN weight[x] * budget
                    ELSE maxWeight * Sum(weight, remaining)
               ELSE IF x \in remaining THEN 0 ELSE maxWeight]
          /\ remaining' = Names /\ budget' = Unit
  /\ UNCHANGED inputs

GroupRound ==
  /\ phase = "group" /\ LoopRuns /\ OverGroups # {}
  /\ LET over == {x \in remaining : group[x] \in OverGroups}
     IN  /\ final' = [x \in Names |->
              IF x \in over
              THEN Fraction(weight[x] * maxGroup,
                            Sum(weight, Members(group[x])) * Unit)
              ELSE final[x]]
         /\ remaining' = remaining \ over
         /\ budget' = BudgetLeft(maxGroup, OverGroups)
  /\ UNCHANGED <<inputs, phase, weight>>

EndGroups ==
  /\ phase = "group" /\ (LoopRuns => OverGroups = {})
  /\ phase' = "done" /\ final' = Settled
  /\ UNCHANGED <<inputs, weight, remaining, budget>>

Done == phase = "done" /\ UNCHANGED vars

Next == CapRound \/ BeginGroups \/ GroupRound \/ EndGroups \/ Done

Spec == Init /\ [][Next]_vars

-----------------------------------------------------------------------------
Allocated == SumOfFractions(final, Names)

(***************************************************************************)
(* The weights never promise more than the budget: their sum is at most    *)
(* one. BacktestEngine relies on it for its exposure bound.                *)
(***************************************************************************)
WithinBudget == Leq(Allocated, Fraction(1, 1))

(***************************************************************************)
(* Redistribution leaves nothing unspent that the caps allow to be spent:  *)
(* without a group cap the sum is one, or the stock caps are all reached.  *)
(* The same holds of the group caps.                                       *)
(***************************************************************************)
BudgetSpent ==
  phase = "done" =>
    \/ Leq(Fraction(1, 1), Allocated)
    \/ IF maxGroup = None
       THEN \A x \in Names : Leq(Fraction(maxWeight, Unit), final[x])
       ELSE \A g \in {group[x] : x \in Names} :
              Leq(Fraction(maxGroup, Unit),
                  SumOfFractions(final, {x \in Names : group[x] = g}))

(***************************************************************************)
(* No redistribution pushes a stock over max_weight, or a group over       *)
(* max_group_weight. With both set only the group cap is kept: the second  *)
(* pass normalises again and no longer knows the first cap.                *)
(***************************************************************************)
CapsRespected ==
  phase = "done" =>
    /\ maxWeight # None /\ maxGroup = None =>
         \A x \in Names : Leq(final[x], Fraction(maxWeight, Unit))
    /\ maxGroup # None =>
         \A g \in Groups :
           Leq(SumOfFractions(final, {x \in Names : group[x] = g}),
               Fraction(maxGroup, Unit))

(***************************************************************************)
(* Capping keeps the ranking inside a group: a stock with the larger raw   *)
(* weight never ends below one with a smaller raw weight.                  *)
(***************************************************************************)
RankingKept ==
  phase = "done" =>
    \A x, y \in Names : raw[x] >= raw[y] /\ group[x] = group[y] =>
                          Leq(final[y], final[x])
=============================================================================
