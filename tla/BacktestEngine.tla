--------------------------- MODULE BacktestEngine ---------------------------
(***************************************************************************)
(* The daily loop of the backtest (run_backtest_core_impl_with_trace in    *)
(* src_rust/engine.rs): one account that holds at most TopK stocks, its    *)
(* rebalance days, the early exits of the days between them, and the mark  *)
(* to market that ends every day.                                          *)
(*                                                                         *)
(* Money is counted in integer units and rates in percent. The score,      *)
(* label, risk and signal matrices are the environment: the value of a     *)
(* cell is chosen in the step that first reads it. The vector `order` of   *)
(* the code is the set of its members: its sequence only breaks ties       *)
(* between equal target values, and the model leaves those ties open.      *)
(* Every loop of the code over stocks is one step per stock.               *)
(***************************************************************************)
EXTENDS TopkDropout, Functions

CONSTANTS
  NDates, RebalanceFreq,   \* length of the run, days between rebalances
  Account,                 \* initial cash
  NDrop,                   \* n_drop
  DestickyNDrop,           \* desticky_n_drop, None when not configured
  OpenRate, CloseRate,     \* cost of a buy and of a sell, in percent
  MinCost,                 \* least cost of a trade
  ExitThreshold,           \* intraperiod_exit_threshold, None when disabled
  PriceConfirm,            \* BOOLEAN: a price_confirm matrix was supplied
  ForceExitThreshold,      \* price_confirm_force_exit_threshold or None
  MinRemainingSteps,       \* price_confirm_min_remaining_steps
  ScoreVals, ReturnVals, RiskVals, SignalVals, \* values of the matrices
  WeightUnits              \* 1 / WeightUnits is the grain of a weight

ASSUME EngineAssumption ==
  /\ NDates \in Nat \ {0} /\ RebalanceFreq \in Nat \ {0}
  /\ Account \in Nat /\ NDrop \in Nat
  /\ DestickyNDrop \in Nat \cup {None}
  /\ OpenRate \in Nat /\ CloseRate \in Nat /\ MinCost \in Nat
  /\ ExitThreshold \in Int \cup {None}
  /\ PriceConfirm \in BOOLEAN
  /\ ForceExitThreshold \in Int \cup {None}
  /\ MinRemainingSteps \in Nat
  /\ ScoreVals \subseteq Int /\ SignalVals \subseteq Int
  /\ ReturnVals \subseteq {r \in Int : r >= -100}
  /\ RiskVals \subseteq Nat
  /\ WeightUnits \in Nat \ {0}

VARIABLES
  pos,           \* the day
  pc,            \* the phase of the day
  cash, holdings, order,
  locked,        \* holdings that do not trade today
  label,         \* today's returns
  score,         \* the scores of the last rebalance
  startValue,    \* account value when the day began
  risk,          \* risk degree of the last rebalance, in percent
  pending,       \* stocks the running loop has not visited
  buyList, targets, targetValue,
  dayCost,       \* TradeStats.cost
  out            \* the day's output row: gross and net result and cost

portfolio == <<cash, holdings, order>>
vars == <<pos, pc, cash, holdings, order, locked, label, score, startValue,
          risk, pending, buyList, targets, targetValue, dayCost, out>>

Phases == {"open", "rebalance", "sell", "trim", "buy", "exit", "mark", "done"}

NoValue == [s \in Stocks |-> 0]
Total(f, S) == FoldFunctionOnSet(+, 0, f, S)
Held == {s \in Stocks : holdings[s] > 0}
Equity == cash + Total(holdings, Stocks)

-----------------------------------------------------------------------------
(* Costs.                                                                  *)

TradeCost(value, rate) ==
  IF value <= 0 THEN 0 ELSE Larger((value * rate) \div 100, MinCost)

\* The largest trade whose value and cost fit in the available cash.
MaxAffordable(available, rate) ==
  IF available <= 0 THEN 0
  ELSE IF rate = 0 \/ available * rate < MinCost * (100 + rate)
       THEN Larger(available - MinCost, 0)
       ELSE (available * 100) \div (100 + rate)

\* A bug: the cost of a sale is paid and not reported.
SellDownUnreported(s, value, rest) ==
  /\ holdings' = [holdings EXCEPT ![s] = rest]
  /\ cash' = cash + value - TradeCost(value, CloseRate)
  /\ UNCHANGED dayCost

\* Sell `value` of stock s, leaving `rest` of it.
SellDown(s, value, rest) ==
  /\ holdings' = [holdings EXCEPT ![s] = rest]
  /\ cash' = cash + value - TradeCost(value, CloseRate)
  /\ dayCost' = dayCost + TradeCost(value, CloseRate)

\* A bug: sold stocks stay in the order.
UncompactedOrder == order

CompactOrder == order \cap Held

-----------------------------------------------------------------------------
Init ==
  /\ pos = 0 /\ pc = "open"
  /\ cash = Account /\ holdings = NoValue /\ order = {}
  /\ locked = {} /\ label = NoValue /\ score = NoValue
  /\ startValue = Account /\ risk = 0
  /\ pending = {} /\ buyList = {} /\ targets = {} /\ targetValue = NoValue
  /\ dayCost = 0
  /\ out = [gross |-> 0, net |-> 0, cost |-> 0]

IsRebalance == pos % RebalanceFreq = 0

DayPhase ==
  IF IsRebalance THEN "rebalance"
  ELSE IF ExitThreshold # None THEN "exit" ELSE "mark"

(***************************************************************************)
(* A day begins: value the account, read the labels, lock the holdings     *)
(* that have none, and enter the phase the day calls for.                  *)
(***************************************************************************)
OpenDay ==
  /\ pc = "open" /\ pos < NDates
  /\ label' \in [Stocks -> ReturnVals \cup {NaN}]
  /\ locked' = {s \in Held : label'[s] = NaN}
  /\ startValue' = Equity
  /\ dayCost' = 0
  /\ pc' = DayPhase
  /\ pending' = IF pc' = "exit" THEN CompactOrder ELSE {}
  /\ out' = [gross |-> 0, net |-> 0, cost |-> 0]
  /\ UNCHANGED <<pos, portfolio, score, risk, buyList, targets, targetValue>>

\* The n_drop of the day: the desticky one when the risk signal fires.
EffectiveNDrop(riskOff) ==
  IF riskOff /\ DestickyNDrop # None THEN DestickyNDrop ELSE NDrop

Rebalance ==
  /\ pc = "rebalance"
  /\ score' \in [Stocks -> ScoreVals \cup {NaN}]
  /\ risk' \in RiskVals
  /\ \E riskOff \in BOOLEAN :
       LET current == CompactOrder
           nDrop == EffectiveNDrop(riskOff)
       IN  /\ pending' = SellList(score', current, locked, nDrop)
           /\ buyList' = BuyList(score', current, locked, nDrop)
  /\ pc' = "sell"
  /\ UNCHANGED <<pos, portfolio, locked, label, startValue, targets,
                 targetValue, dayCost, out>>

SellOne ==
  /\ pc = "sell"
  /\ \E s \in pending :
       /\ pending' = pending \ {s}
       /\ SellDown(s, holdings[s], 0)
  /\ UNCHANGED <<pos, pc, order, locked, label, score, startValue, risk,
                 buyList, targets, targetValue, out>>

(***************************************************************************)
(* The targets: the tradable holdings that are still eligible and the      *)
(* stocks to buy share the budget that the risk degree leaves beside the   *)
(* locked holdings. compute_target_weights is any weight vector that sums  *)
(* to at most one (TargetWeights checks that it is one).                   *)
(***************************************************************************)
WeightVectors(S) ==
  {w \in [S -> 0..WeightUnits] : Total(w, S) <= WeightUnits}

\* Bugs: the budget is not cut at zero, locked holdings are left out of it.
UnclampedBudget == (startValue * risk) \div 100 - Total(holdings, locked)
UnlockedBudget == (startValue * risk) \div 100

TradableBudget ==
  LET budget == (startValue * risk) \div 100 - Total(holdings, locked)
  IN  IF budget \in Nat THEN budget ELSE 0

PlanTargets ==
  /\ pc = "sell" /\ pending = {}
  /\ order' = CompactOrder
  /\ LET tradable == order' \ locked
         eligible == IF MinScore = None THEN tradable
                     ELSE tradable \cap Eligible(score)
     IN  /\ targets' = eligible \cup buyList
         /\ IF targets' = {}
            THEN /\ targetValue' = NoValue
                 /\ pending' = {}
                 /\ pc' = "mark"
            ELSE /\ \E w \in WeightVectors(targets') :
                      targetValue' =
                        [s \in Stocks |->
                           IF s \in targets'
                           THEN (w[s] * TradableBudget) \div WeightUnits
                           ELSE 0]
                 /\ pending' = tradable
                 /\ pc' = "trim"
  /\ UNCHANGED <<pos, cash, holdings, locked, label, score, startValue,
                 risk, buyList, dayCost, out>>

\* Bring a holding above its target down to it.
TrimOne ==
  /\ pc = "trim"
  /\ \E s \in pending :
       /\ pending' = pending \ {s}
       /\ IF holdings[s] > targetValue[s]
          THEN SellDown(s, holdings[s] - targetValue[s], targetValue[s])
          ELSE UNCHANGED <<holdings, cash, dayCost>>
  /\ UNCHANGED <<pos, pc, order, locked, label, score, startValue, risk,
                 buyList, targets, targetValue, out>>

BeginBuys ==
  /\ pc = "trim" /\ pending = {}
  /\ order' = CompactOrder
  /\ pending' = targets
  /\ pc' = "buy"
  /\ UNCHANGED <<pos, cash, holdings, locked, label, score, startValue,
                 risk, buyList, targets, targetValue, dayCost, out>>

\* Buy towards the target, the largest target first, as far as cash goes.
BuyOne ==
  /\ pc = "buy"
  /\ \E s \in pending :
       /\ \A t \in pending : targetValue[t] <= targetValue[s]
       /\ pending' = pending \ {s}
       /\ LET deficit == targetValue[s] - holdings[s]
              most == MaxAffordable(cash, OpenRate)
              first == Smaller(deficit, most)
              value == IF first + TradeCost(first, OpenRate) > cash
                       THEN most ELSE first
              cost == TradeCost(value, OpenRate)
          IN  IF deficit > 0 /\ first > 0 /\ value > 0 /\ value + cost <= cash
              THEN /\ holdings' = [holdings EXCEPT ![s] = @ + value]
                   /\ order' = IF s \in Held THEN order ELSE order \cup {s}
                   /\ cash' = cash - (value + cost)
                   /\ dayCost' = dayCost + cost
              ELSE UNCHANGED <<portfolio, dayCost>>
  /\ UNCHANGED <<pos, pc, locked, label, score, startValue, risk, buyList,
                 targets, targetValue, out>>

EndBuys ==
  /\ pc = "buy" /\ pending = {}
  /\ pc' = "mark"
  /\ UNCHANGED <<pos, portfolio, locked, label, score, startValue, risk,
                 pending, buyList, targets, targetValue, dayCost, out>>

-----------------------------------------------------------------------------
(* The early exits of a day that does not rebalance.                       *)

\* intraperiod_remaining_steps_for_pos
RemainingSteps ==
  IF IsRebalance THEN 0
  ELSE Smaller((pos \div RebalanceFreq + 1) * RebalanceFreq, NDates) - pos

\* The confirmation is skipped for a very bad signal and near the rebalance.
ConfirmationRequired(signal) ==
  /\ PriceConfirm
  /\ ~(ForceExitThreshold # None /\ signal <= ForceExitThreshold)
  /\ RemainingSteps >= MinRemainingSteps

\* A bug: a suspended holding is sold at a price nobody quotes.
ExitWantedLocked(s, signal, confirmed) ==
  /\ signal # NaN /\ signal <= ExitThreshold
  /\ ConfirmationRequired(signal) => confirmed

ExitWanted(s, signal, confirmed) ==
  /\ s \notin locked
  /\ signal # NaN /\ signal <= ExitThreshold
  /\ ConfirmationRequired(signal) => confirmed

ExitOne ==
  /\ pc = "exit"
  /\ \E s \in pending, signal \in SignalVals \cup {NaN}, confirmed \in BOOLEAN :
       /\ pending' = pending \ {s}
       /\ IF ExitWanted(s, signal, confirmed)
          THEN SellDown(s, holdings[s], 0)
          ELSE UNCHANGED <<holdings, cash, dayCost>>
  /\ UNCHANGED <<pos, pc, order, locked, label, score, startValue, risk,
                 buyList, targets, targetValue, out>>

EndExits ==
  /\ pc = "exit" /\ pending = {}
  /\ order' = CompactOrder
  /\ pc' = "mark"
  /\ UNCHANGED <<pos, cash, holdings, locked, label, score, startValue,
                 risk, pending, buyList, targets, targetValue, dayCost, out>>

-----------------------------------------------------------------------------
(* The day ends: holdings take their return (a missing one counts as 0)    *)
(* and the output row is written. The day's working values go out of       *)
(* scope: nothing but the portfolio and the row survives the day.          *)

Marked(s) ==
  IF s \notin Held \/ label[s] = NaN THEN holdings[s]
  ELSE (holdings[s] * (100 + label[s])) \div 100

MarkToMarket ==
  /\ pc = "mark"
  /\ holdings' = [s \in Stocks |-> Marked(s)]
  /\ order' = {s \in order : holdings'[s] > 0}
  /\ out' = [gross |-> Total([s \in Stocks |-> Marked(s) - holdings[s]], Held),
             net   |-> cash + Total(holdings', Stocks) - startValue,
             cost  |-> dayCost]
  /\ pos' = pos + 1
  /\ pc' = IF pos + 1 < NDates THEN "open" ELSE "done"
  /\ locked' = {} /\ label' = NoValue /\ score' = NoValue
  /\ startValue' = 0 /\ risk' = 0 /\ dayCost' = 0
  /\ buyList' = {} /\ targets' = {} /\ targetValue' = NoValue
  /\ UNCHANGED <<cash, pending>>

Done == pc = "done" /\ UNCHANGED vars

Next ==
  \/ OpenDay \/ Rebalance \/ SellOne \/ PlanTargets \/ TrimOne \/ BeginBuys
  \/ BuyOne \/ EndBuys \/ ExitOne \/ EndExits \/ MarkToMarket \/ Done

Spec == Init /\ [][Next]_vars

-----------------------------------------------------------------------------
(* Properties.                                                             *)

\* The variables hold values of their kind. (startValue and out are sums
\* over the portfolio; DayAccounting relates them.)
TypeOK ==
  /\ pos \in 0..NDates
  /\ pc \in Phases
  /\ cash \in Int
  /\ holdings \in [Stocks -> Nat] /\ targetValue \in [Stocks -> Nat]
  /\ order \subseteq Stocks /\ locked \subseteq Stocks
  /\ pending \subseteq Stocks
  /\ buyList \subseteq Stocks /\ targets \subseteq Stocks
  /\ label \in [Stocks -> ReturnVals \cup {NaN, 0}]
  /\ score \in [Stocks -> ScoreVals \cup {NaN, 0}]
  /\ risk \in RiskVals \cup {0}
  /\ dayCost \in Nat

(***************************************************************************)
(* The account never holds more than topk stocks, whatever is locked,      *)
(* forced out, trimmed to nothing or unaffordable during the day.          *)
(***************************************************************************)
PositionLimit == Cardinality(Held) <= TopK

(***************************************************************************)
(* The holding order names exactly the held stocks whenever a phase reads  *)
(* it: a held stock missing from it would never be sold again, and a stale *)
(* member would take the place of a real holding in the selection.         *)
(***************************************************************************)
OrderInSync ==
  pc \in {"open", "rebalance", "buy", "mark", "done"} => order = Held

(***************************************************************************)
(* A holding without a return today (suspended) keeps its value and its    *)
(* place in the account to the end of the day, in every phase.             *)
(***************************************************************************)
LockedUntouched ==
  [][\A s \in locked : holdings'[s] = holdings[s] /\ s \in order']_vars

(***************************************************************************)
(* The three figures of the output row, which the code computes from       *)
(* different sums, agree: the net result is the gross result of the        *)
(* holdings less the costs of the day's trades.                            *)
(***************************************************************************)
DayAccounting == out.net = out.gross - out.cost

(***************************************************************************)
(* After a rebalance the invested value is within the risk degree, unless  *)
(* holdings that cannot be traded already exceed it.                       *)
(***************************************************************************)
ExposureWithinRisk ==
  pc = "mark" /\ targets # {} =>
    Total(holdings, Stocks)
      <= Larger((startValue * risk) \div 100, Total(holdings, locked))
=============================================================================
