------------------------- MODULE BacktestEngine_proofs -------------------------
(***************************************************************************)
(* The backtest engine is type correct, never holds more than TopK stocks, *)
(* keeps its holding order in step with its holdings and never trades a    *)
(* locked holding, for every instance of its constants.                    *)
(***************************************************************************)
EXTENDS BacktestEngine, DataTheorems

-----------------------------------------------------------------------------
(* The selection, for every score row, portfolio and parameter.            *)

\* A row of scores: an integer or NaN for every stock.
ScoreRow(scores) == \A s \in Finite(scores) : scores[s] \in Int

(***************************************************************************)
(* The ranking is a strict order: no stock is better than itself and the   *)
(* relation is transitive and total on finite scores.                      *)
(***************************************************************************)
LEMMA BetterIsOrder ==
  ASSUME NEW scores, ScoreRow(scores),
         NEW r \in Finite(scores), NEW s \in Finite(scores), NEW t \in Finite(scores)
  PROVE  /\ ~Better(scores, s, s)
         /\ s # t => Better(scores, s, t) \/ Better(scores, t, s)
         /\ Better(scores, r, s) /\ Better(scores, s, t) => Better(scores, r, t)
BY StocksAssumption DEF ScoreRow, Finite, Better

\* The ranking, as a set of pairs; Top takes the first of a set by it.
Ranking(scores) == {p \in Stocks \X Stocks : Better(scores, p[1], p[2])}

(***************************************************************************)
(* "The n best of S" has at most n members (the truncated ranked lists of  *)
(* the code).                                                              *)
(***************************************************************************)
LEMMA TopSize ==
  ASSUME NEW scores, ScoreRow(scores), NEW S \in SUBSET Finite(scores), NEW n \in Nat
  PROVE  IsFiniteSet(Top(scores, S, n)) /\ Cardinality(Top(scores, S, n)) <= n
<1> DEFINE R == Ranking(scores)
<1>1. IsFiniteSet(S) /\ S \subseteq Stocks
  BY StocksAssumption, FS_Subset DEF Finite
<1>2. \A s, t \in S : <<s, t>> \in R <=> Better(scores, s, t)
  BY <1>1 DEF Ranking
<1>3. Orders(R, S)
  <2> HIDE DEF R
  <2> QED BY <1>2, BetterIsOrder DEF Orders
<1>4. Top(scores, S, n) = First(R, S, n)
  <2> HIDE DEF R
  <2>1. \A s \in S : Ahead(R, S, s) = {t \in S : Better(scores, t, s)}
    BY <1>2 DEF Ahead
  <2> QED BY <2>1 DEF Top, First
<1>5. Cardinality(S) \in Nat
  BY <1>1, FS_CardinalityType
<1> HIDE DEF R
<1>6. /\ IsFiniteSet(First(R, S, n))
      /\ Cardinality(First(R, S, n)) = IF n <= Cardinality(S) THEN n ELSE Cardinality(S)
  BY <1>1, <1>3, FirstSize
<1> QED BY <1>4, <1>5, <1>6

(***************************************************************************)
(* A frozen or unheld stock is never sold and a held one never bought, and *)
(* executing the whole list leaves at most TopK stocks.                    *)
(***************************************************************************)
THEOREM SelectionWithinLimit ==
  ASSUME NEW scores, ScoreRow(scores),
         NEW current \in SUBSET Stocks, NEW frozen \in SUBSET current,
         NEW nDrop \in Nat, Cardinality(current) <= TopK
  PROVE  LET sells == SellList(scores, current, frozen, nDrop)
             buys  == BuyList(scores, current, frozen, nDrop)
         IN  /\ sells \subseteq current \ frozen
             /\ buys \subseteq Stocks \ current
             /\ IsFiniteSet((current \ sells) \cup buys)
             /\ Cardinality((current \ sells) \cup buys) <= TopK
<1> DEFINE sells == SellList(scores, current, frozen, nDrop)
           buys  == BuyList(scores, current, frozen, nDrop)
           today == Today(scores, current, frozen, nDrop)
           room  == Cardinality(sells) + Shortfall(current)
<1>1. sells \subseteq current \ frozen
  BY DEF SellList, ForcedSell, Dropped, Sellable
<1>2. today \subseteq Eligible(scores) \ current
  BY DEF Today, Top
<1>3. buys \subseteq Stocks \ current
  BY <1>2 DEF BuyList, Top, Eligible, Finite
<1>4. /\ IsFiniteSet(current) /\ Cardinality(current) \in Nat
      /\ IsFiniteSet(sells) /\ Cardinality(sells) \in Nat
      /\ IsFiniteSet(buys) /\ Cardinality(buys) \in Nat
  <2> HIDE DEF sells, buys
  <2>1. sells \in SUBSET Stocks /\ buys \in SUBSET Stocks
    BY <1>1, <1>3
  <2> QED BY <2>1, StocksAssumption, FS_Subset, FS_CardinalityType
<1>5. Shortfall(current) = TopK - Cardinality(current)
  BY <1>4, SelectionAssumption DEF Shortfall, Larger
<1>6. Cardinality(buys) <= room
  <2>1. CASE Eligible(scores) = {}
    <3>1. buys = {}
      BY <2>1 DEF BuyList
    <3> HIDE DEF sells, buys
    <3> QED BY <3>1, <1>4, <1>5, FS_EmptySet, SelectionAssumption
  <2>2. CASE Eligible(scores) # {}
    <3>1. buys = Top(scores, today, room)
      BY <2>2 DEF BuyList
    <3>2. today \in SUBSET Finite(scores)
      BY <1>2 DEF Eligible
    <3>3. room \in Nat
      <4> HIDE DEF sells
      <4> QED BY <1>4, <1>5, SelectionAssumption
    <3> HIDE DEF sells, buys, today, room
    <3> QED BY <3>1, <3>2, <3>3, TopSize
  <2> QED BY <2>1, <2>2
<1>7. Cardinality(current \ sells) = Cardinality(current) - Cardinality(sells)
  <2> HIDE DEF sells
  <2>1. current \cap sells = sells
    BY <1>1
  <2> QED BY <2>1, <1>4, FS_Difference
<1>8. /\ IsFiniteSet((current \ sells) \cup buys)
      /\ Cardinality((current \ sells) \cup buys)
            <= Cardinality(current \ sells) + Cardinality(buys)
  <2> HIDE DEF sells, buys
  <2>1. IsFiniteSet(current \ sells)
    BY <1>4, FS_Difference
  <2>2. IsFiniteSet((current \ sells) \cap buys)
    BY <2>1, FS_Intersection
  <2>3. Cardinality((current \ sells) \cap buys) \in Nat /\ Cardinality(current \ sells) \in Nat
    BY <2>1, <2>2, FS_CardinalityType
  <2>4. /\ IsFiniteSet((current \ sells) \cup buys)
        /\ Cardinality((current \ sells) \cup buys)
             = Cardinality(current \ sells) + Cardinality(buys)
                 - Cardinality((current \ sells) \cap buys)
    BY <2>1, <1>4, FS_Union
  <2> QED BY <2>3, <2>4, <1>4
<1>9. Cardinality((current \ sells) \cup buys) <= TopK
  <2>1. Cardinality((current \ sells) \cup buys) \in Nat /\ Cardinality(current \ sells) \in Nat
    <3> HIDE DEF sells, buys
    <3> QED BY <1>8, <1>4, <1>7, FS_CardinalityType, FS_Difference
  <2> HIDE DEF sells, buys
  <2> QED BY <2>1, <1>4, <1>5, <1>6, <1>7, <1>8, SelectionAssumption
<1> QED BY <1>1, <1>3, <1>8, <1>9

-----------------------------------------------------------------------------
(* Type correctness.                                                       *)

\* The types of the parameters, from the module's assumptions.
LEMMA ParameterTypes ==
  /\ NDates \in Nat \ {0} /\ WeightUnits \in Nat \ {0}
  /\ OpenRate \in Nat /\ CloseRate \in Nat /\ MinCost \in Nat
  /\ \A r \in ReturnVals : r \in Int /\ r >= -100
BY EngineAssumption

\* A trade's cost is a natural number,
LEMMA CostType ==
  ASSUME NEW value \in Int, NEW rate \in Nat
  PROVE  TradeCost(value, rate) \in Nat
<1>1. CASE value <= 0
  BY <1>1 DEF TradeCost
<1>2. CASE value > 0
  <2>1. value * rate \in Nat
    BY <1>2
  <2>2. (value * rate) \div 100 \in Nat
    BY <2>1
  <2> QED BY <1>2, <2>2, EngineAssumption DEF TradeCost, Larger
<1> QED BY <1>1, <1>2

\* and so is what can be bought with the available cash.
LEMMA AffordableType ==
  ASSUME NEW available \in Int, NEW rate \in Nat
  PROVE  MaxAffordable(available, rate) \in Nat
<1>1. CASE available <= 0
  BY <1>1 DEF MaxAffordable
<1>2. CASE available > 0
  <2>1. (available * 100) \div (100 + rate) \in Nat
    BY <1>2
  <2>2. Larger(available - MinCost, 0) \in Nat
    BY EngineAssumption DEF Larger
  <2> QED BY <1>2, <2>1, <2>2 DEF MaxAffordable
<1> QED BY <1>1, <1>2

\* Selling part of a holding keeps the portfolio's types.
LEMMA SellDownType ==
  ASSUME TypeOK, NEW s \in Stocks, NEW value \in Nat, NEW rest \in Nat,
         SellDown(s, value, rest)
  PROVE  /\ holdings' \in [Stocks -> Nat]
         /\ cash' \in Int
         /\ dayCost' \in Nat
<1>0. value \in Int /\ CloseRate \in Nat
  BY ParameterTypes
<1>1. TradeCost(value, CloseRate) \in Nat
  BY <1>0, CostType
<1>2. holdings' = [holdings EXCEPT ![s] = rest] /\ holdings \in [Stocks -> Nat]
  BY DEF SellDown, TypeOK
<1>3. holdings' \in [Stocks -> Nat]
  BY <1>2
<1>4. cash' \in Int /\ dayCost' \in Nat
  <2> DEFINE cost == TradeCost(value, CloseRate)
  <2>1. cash' = cash + value - cost /\ dayCost' = dayCost + cost
    BY DEF SellDown
  <2> HIDE DEF cost
  <2> QED BY <1>1, <2>1 DEF TypeOK, cost
<1> QED BY <1>3, <1>4

\* A holding marked to market is a natural number: no return is below -100%.
LEMMA MarkedType ==
  ASSUME TypeOK, NEW s \in Stocks
  PROVE  Marked(s) \in Nat
<1>1. holdings[s] \in Nat /\ label[s] \in ReturnVals \cup {NaN, 0}
  BY DEF TypeOK
<1>2. CASE s \notin Held \/ label[s] = NaN
  BY <1>1, <1>2 DEF Marked
<1>3. CASE s \in Held /\ label[s] # NaN
  <2>1. label[s] \in Int /\ 100 + label[s] \in Nat
    BY <1>1, <1>3, ParameterTypes
  <2>2. holdings[s] * (100 + label[s]) \in Nat
    BY <1>1, <2>1
  <2>3. (holdings[s] * (100 + label[s])) \div 100 \in Nat
    BY <2>2
  <2> QED BY <1>3, <2>3 DEF Marked
<1> QED BY <1>2, <1>3

\* A day that is not over is one of the run: TypeOK needs it to stay true.
DayInRun == pc # "done" => pos < NDates

\* Types hold at first.
LEMMA InitTypeOK == Init => TypeOK /\ DayInRun
BY EngineAssumption DEF Init, TypeOK, DayInRun, NoValue, Phases

\* The day counter stays in the run.
LEMMA NextDayInRun == DayInRun /\ [Next]_vars => DayInRun'
<1> SUFFICES ASSUME DayInRun, [Next]_vars PROVE DayInRun'
  OBVIOUS
<1> USE DEF DayInRun
<1>1. CASE OpenDay \/ Rebalance \/ SellOne \/ PlanTargets \/ TrimOne \/ BeginBuys
  BY <1>1 DEF OpenDay, Rebalance, SellOne, PlanTargets, TrimOne, BeginBuys
<1>2. CASE BuyOne \/ EndBuys \/ ExitOne \/ EndExits
  BY <1>2 DEF BuyOne, EndBuys, ExitOne, EndExits
<1>3. CASE MarkToMarket
  BY <1>3 DEF MarkToMarket
<1>4. CASE Done \/ UNCHANGED vars
  BY <1>4 DEF Done, vars
<1> QED BY <1>1, <1>2, <1>3, <1>4 DEF Next

\* Every step keeps the types.
LEMMA NextTypeOK == TypeOK /\ DayInRun /\ [Next]_vars => TypeOK'
<1> SUFFICES ASSUME TypeOK, DayInRun, [Next]_vars PROVE TypeOK'
  OBVIOUS
<1>1. CASE OpenDay
  BY <1>1 DEF OpenDay, DayPhase, CompactOrder, TypeOK, portfolio, Phases, Held
<1>2. CASE Rebalance
  <2>1. \A cur, nDrop : /\ SellList(score', cur, locked, nDrop) \subseteq Stocks \cup cur
                        /\ BuyList(score', cur, locked, nDrop) \subseteq Stocks
    BY DEF SellList, BuyList, ForcedSell, Dropped, Sellable, Top, Today, Eligible, Finite
  <2>2. pending' \subseteq Stocks /\ buyList' \subseteq Stocks
    BY <1>2, <2>1 DEF Rebalance, CompactOrder, TypeOK, Held
  <2> QED BY <1>2, <2>2 DEF Rebalance, TypeOK, portfolio, Phases
<1>3. CASE SellOne
  <2>1. PICK s \in pending : /\ pending' = pending \ {s}
                             /\ SellDown(s, holdings[s], 0)
    BY <1>3 DEF SellOne
  <2>2. s \in Stocks /\ holdings[s] \in Nat
    BY <2>1 DEF TypeOK
  <2>3. holdings' \in [Stocks -> Nat] /\ cash' \in Int /\ dayCost' \in Nat
    BY <2>1, <2>2, SellDownType
  <2> QED BY <1>3, <2>1, <2>3 DEF SellOne, TypeOK
<1>4. CASE PlanTargets
  <2>1. targets' \subseteq Stocks /\ order' \subseteq Stocks /\ pending' \subseteq Stocks
    BY <1>4 DEF PlanTargets, TypeOK, CompactOrder, Held
  <2>2. TradableBudget \in Nat
    BY DEF TradableBudget
  <2>3. \A w \in WeightVectors(targets'), s \in targets' :
           (w[s] * TradableBudget) \div WeightUnits \in Nat
    <3> SUFFICES ASSUME NEW w \in WeightVectors(targets'), NEW s \in targets'
                 PROVE  (w[s] * TradableBudget) \div WeightUnits \in Nat
      OBVIOUS
    <3>1. w[s] \in Nat
      BY EngineAssumption DEF WeightVectors
    <3>2. w[s] * TradableBudget \in Nat
      BY <2>2, <3>1
    <3> QED BY <3>2, EngineAssumption
  <2>4. targetValue' \in [Stocks -> Nat]
    <3>1. CASE targets' = {}
      BY <1>4, <3>1 DEF PlanTargets, NoValue
    <3>2. CASE targets' # {}
      <4>1. PICK w \in WeightVectors(targets') :
              targetValue' = [s \in Stocks |->
                                IF s \in targets'
                                THEN (w[s] * TradableBudget) \div WeightUnits
                                ELSE 0]
        BY <1>4, <3>2 DEF PlanTargets
      <4> QED BY <4>1, <2>3
    <3> QED BY <3>1, <3>2
  <2>5. pc' \in Phases
    BY <1>4 DEF PlanTargets, Phases
  <2> QED BY <1>4, <2>1, <2>4, <2>5 DEF PlanTargets, TypeOK
<1>5. CASE TrimOne
  <2>1. PICK s \in pending :
          /\ pending' = pending \ {s}
          /\ IF holdings[s] > targetValue[s]
             THEN SellDown(s, holdings[s] - targetValue[s], targetValue[s])
             ELSE UNCHANGED <<holdings, cash, dayCost>>
    BY <1>5 DEF TrimOne
  <2>2. s \in Stocks /\ holdings[s] \in Nat /\ targetValue[s] \in Nat
    BY DEF TypeOK
  <2>3. holdings' \in [Stocks -> Nat] /\ cash' \in Int /\ dayCost' \in Nat
    <3>1. CASE holdings[s] > targetValue[s]
      <4>1. holdings[s] - targetValue[s] \in Nat
        BY <2>2, <3>1
      <4> QED BY <2>1, <2>2, <3>1, <4>1, SellDownType
    <3>2. CASE ~(holdings[s] > targetValue[s])
      BY <2>1, <3>2 DEF TypeOK
    <3> QED BY <3>1, <3>2
  <2> QED BY <1>5, <2>1, <2>3 DEF TrimOne, TypeOK
<1>6. CASE BeginBuys
  BY <1>6 DEF BeginBuys, TypeOK, CompactOrder, Phases
<1>7. CASE BuyOne
  <2>1. PICK s \in pending :
          /\ pending' = pending \ {s}
          /\ \/ UNCHANGED <<portfolio, dayCost>>
             \/ \E value, cost :
                  /\ value > 0 /\ cost = TradeCost(value, OpenRate)
                  /\ \/ value = MaxAffordable(cash, OpenRate)
                     \/ value = Smaller(targetValue[s] - holdings[s],
                                        MaxAffordable(cash, OpenRate))
                  /\ holdings' = [holdings EXCEPT ![s] = @ + value]
                  /\ order' = IF s \in Held THEN order ELSE order \cup {s}
                  /\ cash' = cash - (value + cost)
                  /\ dayCost' = dayCost + cost
    BY <1>7 DEF BuyOne
  <2>2. s \in Stocks /\ holdings[s] \in Nat /\ targetValue[s] \in Nat
    BY DEF TypeOK
  <2>3. /\ holdings' \in [Stocks -> Nat] /\ cash' \in Int /\ dayCost' \in Nat
        /\ order' \subseteq Stocks
    <3>1. CASE UNCHANGED <<portfolio, dayCost>>
      BY <3>1 DEF portfolio, TypeOK
    <3>2. CASE ~UNCHANGED <<portfolio, dayCost>>
      <4>1. PICK value, cost :
              /\ value > 0 /\ cost = TradeCost(value, OpenRate)
              /\ \/ value = MaxAffordable(cash, OpenRate)
                 \/ value = Smaller(targetValue[s] - holdings[s],
                                    MaxAffordable(cash, OpenRate))
              /\ holdings' = [holdings EXCEPT ![s] = @ + value]
              /\ order' = IF s \in Held THEN order ELSE order \cup {s}
              /\ cash' = cash - (value + cost)
              /\ dayCost' = dayCost + cost
        BY <2>1, <3>2
      <4>2. MaxAffordable(cash, OpenRate) \in Nat
        BY AffordableType, EngineAssumption DEF TypeOK
      <4>3. value \in Nat
        BY <4>1, <4>2, <2>2 DEF Smaller
      <4>4. cost \in Nat
        BY <4>1, <4>3, CostType, EngineAssumption
      <4> QED BY <4>1, <4>3, <4>4, <2>2 DEF TypeOK
    <3> QED BY <3>1, <3>2
  <2> QED BY <1>7, <2>1, <2>3 DEF BuyOne, TypeOK
<1>8. CASE EndBuys
  BY <1>8 DEF EndBuys, TypeOK, portfolio, Phases
<1>9. CASE ExitOne
  <2>1. PICK s \in pending :
          /\ pending' = pending \ {s}
          /\ \/ SellDown(s, holdings[s], 0)
             \/ UNCHANGED <<holdings, cash, dayCost>>
    BY <1>9 DEF ExitOne
  <2>2. s \in Stocks /\ holdings[s] \in Nat
    BY DEF TypeOK
  <2>3. holdings' \in [Stocks -> Nat] /\ cash' \in Int /\ dayCost' \in Nat
    <3>1. CASE SellDown(s, holdings[s], 0)
      BY <2>2, <3>1, SellDownType
    <3>2. CASE UNCHANGED <<holdings, cash, dayCost>>
      BY <3>2 DEF TypeOK
    <3> QED BY <2>1, <3>1, <3>2
  <2> QED BY <1>9, <2>1, <2>3 DEF ExitOne, TypeOK
<1>10. CASE EndExits
  BY <1>10 DEF EndExits, TypeOK, CompactOrder, Phases
<1>11. CASE MarkToMarket
  <2>1. \A s \in Stocks : Marked(s) \in Nat
    BY MarkedType
  <2>2. pos' \in 0..NDates
    <3>1. pos < NDates /\ pos' = pos + 1
      BY <1>11 DEF MarkToMarket, DayInRun
    <3> QED BY <3>1, ParameterTypes DEF TypeOK
  <2> QED BY <1>11, <2>1, <2>2 DEF MarkToMarket, TypeOK, Phases, NoValue
<1>12. CASE Done
  BY <1>12 DEF Done, vars, portfolio, TypeOK
<1>13. CASE UNCHANGED vars
  BY <1>13 DEF vars, portfolio, TypeOK
<1> QED BY <1>1, <1>2, <1>3, <1>4, <1>5, <1>6, <1>7, <1>8, <1>9, <1>10, <1>11,
           <1>12, <1>13 DEF Next

(***************************************************************************)
(* Every variable keeps the type of what it stands for; in particular no   *)
(* trade, cost or return makes a holding negative.                         *)
(***************************************************************************)
THEOREM TypeCorrect == Spec => []TypeOK
<1>1. Init => TypeOK /\ DayInRun
  BY InitTypeOK
<1>2. TypeOK /\ DayInRun /\ [Next]_vars => (TypeOK /\ DayInRun)'
  BY NextTypeOK, NextDayInRun
<1> QED BY <1>1, <1>2, PTL DEF Spec
-----------------------------------------------------------------------------
(* The holdings, the order and the locked stocks.                          *)

(***************************************************************************)
(* The invariant behind the next theorems. PositionLimit alone is not      *)
(* inductive: what keeps it is a plan. While holdings are being sold, the  *)
(* holdings that stay and the stocks to buy together fit in the account;   *)
(* from then on the holdings and the targets do, so buying any of the      *)
(* targets is safe. OrderInSync lapses while a loop sells, when the order  *)
(* still covers the holdings, and locked stocks are in no list that trades.*)
(***************************************************************************)
Books ==
  /\ locked \subseteq Held
  /\ \A s \in locked : label[s] = NaN
  /\ pc \in {"open", "done"} => locked = {}
  /\ Held \subseteq order
  /\ OrderInSync
  /\ PositionLimit
  /\ pc \in {"sell", "trim"} => pending \cap locked = {}
  /\ pc = "sell" => /\ buyList \cap locked = {}
                    /\ Cardinality((Held \ pending) \cup buyList) <= TopK
  /\ pc \in {"trim", "buy"} => /\ targets \cap locked = {}
                               /\ Cardinality(Held \cup targets) <= TopK
  /\ pc = "buy" => pending \subseteq targets

Inv == TypeOK /\ DayInRun /\ Books

\* A subset of a set of at most TopK stocks has at most TopK members.
LEMMA StillFits ==
  ASSUME NEW B, B \subseteq Stocks, Cardinality(B) <= TopK,
         NEW A, A \subseteq B
  PROVE  Cardinality(A) <= TopK
<1>1. IsFiniteSet(B)
  BY StocksAssumption, FS_Subset
<1>2. Cardinality(A) <= Cardinality(B) /\ IsFiniteSet(A)
  BY <1>1, FS_Subset
<1>3. Cardinality(A) \in Nat /\ Cardinality(B) \in Nat
  BY <1>1, <1>2, FS_CardinalityType
<1> QED BY <1>2, <1>3, SelectionAssumption

\* Selling any part of a holding leaves every other holding as it is.
LEMMA SellDownHeld ==
  ASSUME TypeOK, NEW s \in Stocks, NEW rest \in Nat, rest < holdings[s],
         NEW value, SellDown(s, value, rest)
  PROVE  /\ Held' \subseteq Held
         /\ Held \ {s} \subseteq Held'
         /\ rest = 0 => Held' = Held \ {s}
         /\ \A t \in Stocks \ {s} : holdings'[t] = holdings[t]
BY DEF SellDown, TypeOK, Held

\* What a rebalance decides to sell and to buy leaves at most topk stocks.
LEMMA SelectionFits ==
  ASSUME TypeOK, Books, Rebalance
  PROVE  /\ pending' \subseteq Held \ locked
         /\ buyList' \subseteq Stocks \ Held
         /\ Cardinality((Held \ pending') \cup buyList') <= TopK
<1>1. PICK riskOff \in BOOLEAN :
        /\ pending' = SellList(score', CompactOrder, locked, EffectiveNDrop(riskOff))
        /\ buyList' = BuyList(score', CompactOrder, locked, EffectiveNDrop(riskOff))
  BY DEF Rebalance
<1>2. CompactOrder = Held
  BY DEF Books, CompactOrder
<1>3. EffectiveNDrop(riskOff) \in Nat
  BY EngineAssumption DEF EffectiveNDrop
<1>4. ScoreRow(score')
  BY EngineAssumption DEF Rebalance, ScoreRow, Finite
<1>5. Held \in SUBSET Stocks /\ locked \in SUBSET Held /\ Cardinality(Held) <= TopK
  BY DEF Books, PositionLimit, Held
<1> DEFINE row == score'
           held == Held
           nDrop == EffectiveNDrop(riskOff)
<1>6. /\ pending' = SellList(row, held, locked, nDrop)
      /\ buyList' = BuyList(row, held, locked, nDrop)
  BY <1>1, <1>2
<1>7. /\ ScoreRow(row) /\ held \in SUBSET Stocks /\ locked \in SUBSET held
      /\ nDrop \in Nat /\ Cardinality(held) <= TopK
  BY <1>3, <1>4, <1>5
<1>8. /\ SellList(row, held, locked, nDrop) \subseteq held \ locked
      /\ BuyList(row, held, locked, nDrop) \subseteq Stocks \ held
      /\ Cardinality((held \ SellList(row, held, locked, nDrop))
                        \cup BuyList(row, held, locked, nDrop)) <= TopK
  <2> HIDE DEF row, held, nDrop
  <2> QED BY <1>7, SelectionWithinLimit
<1> QED BY <1>6, <1>8

\* The order and the plans of the day agree with the holdings at first,
LEMMA InitBooks == Init => Books
<1> SUFFICES ASSUME Init PROVE Books
  OBVIOUS
<1>1. Held = {}
  BY DEF Init, NoValue, Held
<1>2. Cardinality(Held) <= TopK
  BY <1>1, FS_EmptySet, SelectionAssumption
<1> QED BY <1>1, <1>2 DEF Init, Books, OrderInSync, PositionLimit

\* after every step,
LEMMA NextBooks == Inv /\ [Next]_vars => Books'
<1> SUFFICES ASSUME TypeOK, DayInRun, Books, [Next]_vars PROVE Books'
  BY DEF Inv
<1>0. Held \subseteq Stocks /\ Held \cup targets \subseteq Stocks
  BY DEF Held, TypeOK
<1>1. CASE OpenDay
  <2>1. Held' = Held /\ order' = order
    BY <1>1 DEF OpenDay, portfolio, Held
  <2>2. pc' \in {"rebalance", "exit", "mark"} /\ order = Held
    BY <1>1 DEF OpenDay, DayPhase, Books, OrderInSync
  <2>3. locked' \subseteq Held /\ \A s \in locked' : label'[s] = NaN
    BY <1>1 DEF OpenDay
  <2> QED BY <2>1, <2>2, <2>3 DEF Books, OrderInSync, PositionLimit
<1>2. CASE Rebalance
  <2>1. /\ pending' \subseteq Held \ locked
        /\ buyList' \subseteq Stocks \ Held
        /\ Cardinality((Held \ pending') \cup buyList') <= TopK
    BY <1>2, SelectionFits
  <2>2. Held' = Held /\ order' = order /\ locked' = locked /\ label' = label /\ pc' = "sell"
    BY <1>2 DEF Rebalance, portfolio, Held
  <2> QED BY <2>1, <2>2 DEF Books, OrderInSync, PositionLimit
<1>3. CASE SellOne
  <2>1. PICK s \in pending : /\ pending' = pending \ {s}
                             /\ SellDown(s, holdings[s], 0)
    BY <1>3 DEF SellOne
  <2>2. s \in Stocks /\ s \notin locked /\ holdings[s] \in Nat
    BY <1>3, <2>1 DEF TypeOK, Books, SellOne
  <2>3. Held' = Held \ {s}
    <3>1. CASE holdings[s] > 0
      BY <2>1, <2>2, <3>1, SellDownHeld
    <3>2. CASE holdings[s] = 0
      <4>1. holdings' = [holdings EXCEPT ![s] = 0]
        BY <2>1 DEF SellDown
      <4> QED BY <2>2, <3>2, <4>1 DEF Held, TypeOK
    <3> QED BY <2>2, <3>1, <3>2
  <2>4. /\ pc = "sell" /\ pc' = "sell" /\ order' = order /\ locked' = locked
        /\ label' = label /\ buyList' = buyList
    BY <1>3 DEF SellOne
  <2>5. Cardinality(Held') <= TopK
    BY <1>0, <2>3, StillFits DEF Books, PositionLimit
  <2>6. Cardinality((Held' \ pending') \cup buyList') <= TopK
    <3>1. (Held' \ pending') \cup buyList' \subseteq (Held \ pending) \cup buyList
      BY <2>1, <2>3, <2>4
    <3>2. (Held \ pending) \cup buyList \subseteq Stocks
      BY <1>0 DEF TypeOK
    <3> QED BY <3>1, <3>2, <2>4, StillFits DEF Books
  <2>7. locked' \subseteq Held' /\ Held' \subseteq order' /\ pending' \cap locked' = {}
    BY <2>1, <2>2, <2>3, <2>4 DEF Books
  <2> QED BY <2>4, <2>5, <2>6, <2>7 DEF Books, OrderInSync, PositionLimit
<1>4. CASE PlanTargets
  <2>1. /\ pc = "sell" /\ pending = {} /\ pc' \in {"mark", "trim"}
        /\ holdings' = holdings /\ locked' = locked /\ label' = label
    BY <1>4 DEF PlanTargets
  <2>2. Held' = Held /\ order' = Held
    BY <1>4, <2>1 DEF PlanTargets, CompactOrder, Books, Held
  <2>3. targets' \subseteq (Held \ locked) \cup buyList
    BY <1>4, <2>2 DEF PlanTargets
  <2>4. Cardinality(Held' \cup targets') <= TopK
    <3>1. Cardinality((Held \ {}) \cup buyList) <= TopK
      BY <2>1 DEF Books
    <3>2. (Held \ {}) \cup buyList \subseteq Stocks
      BY <1>0 DEF TypeOK
    <3>3. Held' \cup targets' \subseteq (Held \ {}) \cup buyList
      BY <2>2, <2>3
    <3> QED BY <3>1, <3>2, <3>3, StillFits
  <2>5. targets' \cap locked' = {} /\ pending' \cap locked' = {}
    <3>1. pending' \in {{}, order' \ locked}
      BY <1>4 DEF PlanTargets
    <3> QED BY <2>1, <2>3, <3>1 DEF Books
  <2> QED BY <2>1, <2>2, <2>4, <2>5 DEF Books, OrderInSync, PositionLimit
<1>5. CASE TrimOne
  <2>1. PICK s \in pending :
          /\ pending' = pending \ {s}
          /\ IF holdings[s] > targetValue[s]
             THEN SellDown(s, holdings[s] - targetValue[s], targetValue[s])
             ELSE UNCHANGED <<holdings, cash, dayCost>>
    BY <1>5 DEF TrimOne
  <2>2. /\ s \in Stocks /\ s \notin locked
        /\ holdings[s] \in Nat /\ targetValue[s] \in Nat
    BY <1>5, <2>1 DEF TypeOK, Books, TrimOne
  <2>3. Held' \subseteq Held /\ Held \ {s} \subseteq Held'
    <3>1. CASE holdings[s] > targetValue[s]
      BY <2>1, <2>2, <3>1, SellDownHeld
    <3>2. CASE ~(holdings[s] > targetValue[s])
      BY <2>1, <3>2 DEF Held
    <3> QED BY <3>1, <3>2
  <2>4. /\ pc = "trim" /\ pc' = "trim" /\ order' = order /\ locked' = locked
        /\ label' = label /\ targets' = targets
    BY <1>5 DEF TrimOne
  <2>5. Cardinality(Held') <= TopK /\ Cardinality(Held' \cup targets') <= TopK
    <3>1. Held' \cup targets' \subseteq Held \cup targets
      BY <2>3, <2>4
    <3> QED BY <1>0, <2>3, <2>4, <3>1, StillFits DEF Books, PositionLimit
  <2>6. locked' \subseteq Held' /\ Held' \subseteq order' /\ pending' \cap locked' = {}
    BY <2>1, <2>2, <2>3, <2>4 DEF Books
  <2> QED BY <2>4, <2>5, <2>6 DEF Books, OrderInSync, PositionLimit
<1>6. CASE BeginBuys
  <2>1. /\ pc = "trim" /\ pc' = "buy" /\ holdings' = holdings /\ locked' = locked
        /\ label' = label /\ targets' = targets /\ pending' = targets
    BY <1>6 DEF BeginBuys
  <2>2. Held' = Held /\ order' = Held
    BY <1>6, <2>1 DEF BeginBuys, CompactOrder, Books, Held
  <2> QED BY <2>1, <2>2 DEF Books, OrderInSync, PositionLimit
<1>7. CASE BuyOne
  <2>1. PICK s \in pending :
          /\ pending' = pending \ {s}
          /\ \/ UNCHANGED <<holdings, order>>
             \/ \E value :
                  /\ value > 0
                  /\ \/ value = MaxAffordable(cash, OpenRate)
                     \/ value = Smaller(targetValue[s] - holdings[s],
                                        MaxAffordable(cash, OpenRate))
                  /\ holdings' = [holdings EXCEPT ![s] = @ + value]
                  /\ order' = IF s \in Held THEN order ELSE order \cup {s}
    BY <1>7 DEF BuyOne, portfolio
  <2>2. /\ pc = "buy" /\ pc' = "buy" /\ locked' = locked
        /\ label' = label /\ targets' = targets
    BY <1>7 DEF BuyOne
  <2>3. s \in Stocks /\ s \in targets /\ order = Held
        /\ holdings[s] \in Nat /\ targetValue[s] \in Nat
    BY <2>1, <2>2 DEF TypeOK, Books, OrderInSync
  <2>4. Held' \in {Held, Held \cup {s}} /\ order' = Held'
    <3>1. CASE UNCHANGED <<holdings, order>>
      BY <2>3, <3>1 DEF Held
    <3>2. CASE ~UNCHANGED <<holdings, order>>
      <4>1. PICK value :
              /\ value > 0
              /\ \/ value = MaxAffordable(cash, OpenRate)
                 \/ value = Smaller(targetValue[s] - holdings[s],
                                    MaxAffordable(cash, OpenRate))
              /\ holdings' = [holdings EXCEPT ![s] = @ + value]
              /\ order' = IF s \in Held THEN order ELSE order \cup {s}
        BY <2>1, <3>2
      <4>2. MaxAffordable(cash, OpenRate) \in Nat
        BY AffordableType, ParameterTypes DEF TypeOK
      <4>3. value \in Nat
        BY <4>1, <4>2, <2>3 DEF Smaller
      <4>4. holdings'[s] > 0 /\ \A t \in Stocks \ {s} : holdings'[t] = holdings[t]
        BY <4>1, <4>3, <2>3 DEF TypeOK
      <4>5. Held' = Held \cup {s}
        BY <4>4, <2>3 DEF Held
      <4> QED BY <4>1, <4>5, <2>3
    <3> QED BY <3>1, <3>2
  <2>5. Cardinality(Held') <= TopK /\ Cardinality(Held' \cup targets') <= TopK
    <3>1. Held' \cup targets' \subseteq Held \cup targets /\ Held' \subseteq Held \cup targets
      BY <2>2, <2>3, <2>4
    <3> QED BY <1>0, <2>2, <3>1, StillFits DEF Books
  <2> QED BY <2>1, <2>2, <2>4, <2>5 DEF Books, OrderInSync, PositionLimit
<1>8. CASE EndBuys
  BY <1>8 DEF EndBuys, Books, OrderInSync, PositionLimit, portfolio, Held
<1>9. CASE ExitOne
  <2>1. PICK s \in pending :
          /\ pending' = pending \ {s}
          /\ \/ s \notin locked /\ SellDown(s, holdings[s], 0)
             \/ UNCHANGED <<holdings, cash, dayCost>>
    BY <1>9 DEF ExitOne, ExitWanted
  <2>2. s \in Stocks /\ holdings[s] \in Nat
    BY DEF TypeOK
  <2>3. Held' \subseteq Held /\ locked \subseteq Held'
    <3>1. CASE UNCHANGED <<holdings, cash, dayCost>>
      BY <3>1 DEF Books, Held
    <3>2. CASE s \notin locked /\ SellDown(s, holdings[s], 0)
      <4>1. holdings' = [holdings EXCEPT ![s] = 0]
        BY <3>2 DEF SellDown
      <4>2. Held' = Held \ {s}
        BY <2>2, <4>1 DEF Held, TypeOK
      <4> QED BY <3>2, <4>2 DEF Books
    <3> QED BY <2>1, <3>1, <3>2
  <2>4. /\ pc = "exit" /\ pc' = "exit" /\ order' = order /\ locked' = locked
        /\ label' = label
    BY <1>9 DEF ExitOne
  <2>5. Cardinality(Held') <= TopK
    BY <1>0, <2>3, StillFits DEF Books, PositionLimit
  <2> QED BY <2>3, <2>4, <2>5 DEF Books, OrderInSync, PositionLimit
<1>10. CASE EndExits
  <2>1. pc' = "mark" /\ holdings' = holdings /\ locked' = locked /\ label' = label
    BY <1>10 DEF EndExits
  <2>2. Held' = Held /\ order' = Held
    BY <1>10, <2>1 DEF EndExits, CompactOrder, Books, Held
  <2> QED BY <2>1, <2>2 DEF Books, OrderInSync, PositionLimit
<1>11. CASE MarkToMarket
  <2>1. /\ pc = "mark" /\ pc' \in {"open", "done"} /\ locked' = {} /\ order = Held
        /\ holdings' = [s \in Stocks |-> Marked(s)]
        /\ order' = {s \in order : holdings'[s] > 0}
    BY <1>11 DEF MarkToMarket, Books, OrderInSync
  <2>2. Held' \subseteq Held
    BY <2>1 DEF Marked, Held
  <2>3. order' = Held'
    BY <2>1, <2>2 DEF Held
  <2>4. Cardinality(Held') <= TopK
    BY <1>0, <2>2, StillFits DEF Books, PositionLimit
  <2> QED BY <2>1, <2>3, <2>4 DEF Books, OrderInSync, PositionLimit
<1>12. CASE Done \/ UNCHANGED vars
  BY <1>12 DEF Done, vars, portfolio, Books, OrderInSync, PositionLimit, Held
<1> QED BY <1>1, <1>2, <1>3, <1>4, <1>5, <1>6, <1>7, <1>8, <1>9, <1>10, <1>11,
           <1>12 DEF Next

\* and so throughout.
LEMMA InvInductive == Spec => []Inv
<1>1. Init => Inv
  BY InitTypeOK, InitBooks DEF Inv
<1>2. Inv /\ [Next]_vars => Inv'
  BY NextTypeOK, NextDayInRun, NextBooks DEF Inv
<1> QED BY <1>1, <1>2, PTL DEF Spec

(***************************************************************************)
(* The account never holds more than TopK stocks, in any phase of any day. *)
(***************************************************************************)
THEOREM NeverAboveTopK == Spec => []PositionLimit
<1>1. Inv => PositionLimit
  BY DEF Inv, Books
<1> QED BY <1>1, InvInductive, PTL

(***************************************************************************)
(* The holding order is the set of held stocks whenever a phase reads it.  *)
(***************************************************************************)
THEOREM OrderCorrect == Spec => []OrderInSync
<1>1. Inv => OrderInSync
  BY DEF Inv, Books
<1> QED BY <1>1, InvInductive, PTL

(***************************************************************************)
(* No step of the day moves a locked holding.                              *)
(***************************************************************************)
LEMMA LockedStep ==
  ASSUME Inv, [Next]_vars
  PROVE  \A s \in locked : holdings'[s] = holdings[s] /\ s \in order'
<1> SUFFICES ASSUME NEW s \in locked
             PROVE  holdings'[s] = holdings[s] /\ s \in order'
  OBVIOUS
<1>1. TypeOK /\ s \in Stocks /\ s \in Held /\ s \in order /\ label[s] = NaN
  BY DEF Inv, Books, TypeOK
<1>2. CASE OpenDay \/ Rebalance \/ EndBuys \/ Done \/ UNCHANGED vars
  BY <1>1, <1>2 DEF OpenDay, Rebalance, EndBuys, Done, vars, portfolio
<1>3. CASE PlanTargets \/ BeginBuys \/ EndExits
  BY <1>1, <1>3 DEF PlanTargets, BeginBuys, EndExits, CompactOrder
<1>4. CASE SellOne \/ TrimOne \/ ExitOne
  <2>1. order' = order
    BY <1>4 DEF SellOne, TrimOne, ExitOne
  <2>2. holdings'[s] = holdings[s]
    <3>1. CASE SellOne \/ TrimOne
      <4>1. pending \cap locked = {}
        BY <3>1 DEF Inv, Books, SellOne, TrimOne
      <4>2. PICK u \in pending :
              \/ holdings' = holdings
              \/ \E rest : holdings' = [holdings EXCEPT ![u] = rest]
        BY <3>1 DEF SellOne, TrimOne, SellDown
      <4> QED BY <1>1, <4>1, <4>2 DEF TypeOK
    <3>2. CASE ExitOne
      <4>1. PICK u \in pending : \/ holdings' = holdings
                                 \/ u \notin locked /\ holdings' = [holdings EXCEPT ![u] = 0]
        BY <3>2 DEF ExitOne, ExitWanted, SellDown
      <4> QED BY <1>1, <4>1 DEF TypeOK
    <3> QED BY <1>4, <3>1, <3>2
  <2> QED BY <1>1, <2>1, <2>2
<1>5. CASE BuyOne
  <2>1. pending \cap locked = {}
    BY <1>5 DEF Inv, Books, BuyOne
  <2>2. PICK u \in pending :
          /\ \/ holdings' = holdings
             \/ \E value : holdings' = [holdings EXCEPT ![u] = @ + value]
          /\ order \subseteq order'
    BY <1>5 DEF BuyOne, portfolio
  <2> QED BY <1>1, <2>1, <2>2 DEF TypeOK
<1>6. CASE MarkToMarket
  <2>1. holdings'[s] = holdings[s]
    BY <1>1, <1>6 DEF MarkToMarket, Marked
  <2> QED BY <1>1, <1>6, <2>1 DEF MarkToMarket, Held
<1> QED BY <1>2, <1>3, <1>4, <1>5, <1>6 DEF Next

(***************************************************************************)
(* A locked holding keeps its value and its place in the order, whatever   *)
(* step the day takes.                                                     *)
(***************************************************************************)
THEOREM LockedNeverTraded == Spec => LockedUntouched
<1> DEFINE LockedKept == \A s \in locked : holdings'[s] = holdings[s] /\ s \in order'
<1>1. Inv /\ [Next]_vars => LockedKept
  BY LockedStep
<1>2. Inv /\ [Next]_vars => [LockedKept]_vars
  BY <1>1
<1> QED
  <2>1. [][Inv /\ [Next]_vars]_vars => [][LockedKept]_vars
    BY <1>2, PTL
  <2> QED BY <2>1, <1>2, InvInductive, PTL DEF Spec, LockedUntouched

-----------------------------------------------------------------------------
(* Cash, holdings and costs.                                               *)

(***************************************************************************)
(* Within a day the cash, the holdings and the costs paid so far are what  *)
(* the account was worth when the day began.                               *)
(***************************************************************************)
Trading == pc \in {"rebalance", "sell", "trim", "buy", "exit", "mark"}

Ledger ==
  /\ startValue \in Int
  /\ Trading => cash + Total(holdings, Stocks) + dayCost = startValue
  /\ DayAccounting

(***************************************************************************)
(* The targets of a rebalance fit, beside the locked holdings, in what the *)
(* risk degree allows; trimming brings every holding that trades down to   *)
(* its target and no buy goes over one.                                    *)
(***************************************************************************)
Allowed == Larger((startValue * risk) \div 100, Total(holdings, locked))

Planned == pc \in {"trim", "buy"} \/ (pc = "mark" /\ targets # {})

Plan ==
  /\ pc \in {"open", "rebalance", "sell", "exit", "done"} => targets = {}
  /\ Planned => Total(holdings, locked) + Total(targetValue, Stocks) <= Allowed
  /\ Planned => \A s \in Stocks \ locked :
                  (pc = "trim" /\ s \in pending) \/ holdings[s] <= targetValue[s]

\* The model's total is the fold of the library, about which there are
\* lemmas.
LEMMA TotalIsSum == \A f, S : Total(f, S) = SumFunctionOnSet(f, S)
BY DEF Total, SumFunctionOnSet

(***************************************************************************)
(* The value of the portfolio and what a change of one holding does to it. *)
(***************************************************************************)
LEMMA PortfolioValue ==
  ASSUME NEW h \in [Stocks -> Nat], NEW S \in SUBSET Stocks
  PROVE  Total(h, S) \in Nat /\ IsFiniteSet(S)
<1>1. IsFiniteSet(S)
  BY StocksAssumption, FS_Subset
<1> QED BY <1>1, SumNat, TotalIsSum

\* A total after one entry was replaced.
LEMMA OneChanged ==
  ASSUME NEW h \in [Stocks -> Nat], NEW s \in Stocks, NEW value \in Nat
  PROVE  Total([h EXCEPT ![s] = value], Stocks) = Total(h, Stocks) - h[s] + value
<1> DEFINE k == [h EXCEPT ![s] = value]
           S == Stocks \ {s}
<1>1. k \in [Stocks -> Nat] /\ k[s] = value /\ \A t \in S : h[t] = k[t]
  OBVIOUS
<1> HIDE DEF k
<1>2. IsFiniteSet(Stocks) /\ IsFiniteSet(S)
  BY StocksAssumption, FS_Subset
<1>3. SumFunctionOnSet(h, Stocks) = h[s] + SumFunctionOnSet(h, S)
  BY <1>2, SumRemove
<1>4. SumFunctionOnSet(k, Stocks) = k[s] + SumFunctionOnSet(k, S)
  BY <1>1, <1>2, SumRemove
<1>5. SumFunctionOnSet(h, S) = SumFunctionOnSet(k, S)
  BY <1>1, <1>2, SumAgree
<1>6. SumFunctionOnSet(h, S) \in Nat
  BY <1>2, SumNat
<1>7. Total(k, Stocks) = Total(h, Stocks) - h[s] + value
  BY <1>1, <1>3, <1>4, <1>5, <1>6, TotalIsSum
<1> QED BY <1>7 DEF k

(***************************************************************************)
(* Selling keeps cash, holdings and costs together.                        *)
(***************************************************************************)
LEMMA SaleBalances ==
  ASSUME TypeOK, NEW s \in Stocks, NEW rest \in Nat, rest <= holdings[s],
         SellDown(s, holdings[s] - rest, rest)
  PROVE  cash' + Total(holdings', Stocks) + dayCost' = cash + Total(holdings, Stocks) + dayCost
<1> DEFINE cost == TradeCost(holdings[s] - rest, CloseRate)
<1>1. holdings \in [Stocks -> Nat] /\ holdings[s] \in Nat /\ cash \in Int /\ dayCost \in Nat
  BY DEF TypeOK
<1>2. cost \in Nat
  <2>1. holdings[s] - rest \in Int /\ CloseRate \in Nat
    BY <1>1, ParameterTypes
  <2> QED BY <2>1, CostType
<1>3. /\ holdings' = [holdings EXCEPT ![s] = rest]
      /\ cash' = cash + (holdings[s] - rest) - cost /\ dayCost' = dayCost + cost
  BY DEF SellDown
<1>4. Total(holdings', Stocks) = Total(holdings, Stocks) - holdings[s] + rest
  BY <1>1, <1>3, OneChanged
<1>5. Total(holdings, Stocks) \in Nat
  BY <1>1, PortfolioValue
<1> HIDE DEF cost
<1> QED BY <1>1, <1>2, <1>3, <1>4, <1>5

(***************************************************************************)
(* A dearer trade costs no less, so a buy that had to be cut to what the   *)
(* cash affords never ends above the deficit.                              *)
(***************************************************************************)
LEMMA CostMonotone ==
  ASSUME NEW a \in Nat, NEW b \in Nat, a <= b, NEW rate \in Nat
  PROVE  TradeCost(a, rate) <= TradeCost(b, rate)
<1>1. a * rate \in Nat /\ b * rate \in Nat /\ a * rate <= b * rate
  <2>1. PICK k \in Nat : b = a + k
    <3>1. b - a \in Nat /\ b = a + (b - a)
      OBVIOUS
    <3> QED BY <3>1
  <2>2. k * rate \in Nat /\ b * rate = a * rate + k * rate
    BY <2>1
  <2> QED BY <2>2
<1>2. (a * rate) \div 100 <= (b * rate) \div 100
  BY <1>1
<1>3. (a * rate) \div 100 \in Nat /\ (b * rate) \div 100 \in Nat
  BY <1>1
<1> QED BY <1>2, <1>3, ParameterTypes DEF TradeCost, Larger

\* A purchase never exceeds the deficit it is for.
LEMMA BuyWithinDeficit ==
  ASSUME NEW deficit \in Nat, NEW most \in Nat, NEW available \in Int, NEW rate \in Nat,
         NEW first, first = Smaller(deficit, most),
         NEW value, value = IF first + TradeCost(first, rate) > available THEN most ELSE first,
         value + TradeCost(value, rate) <= available
  PROVE  value \in Nat /\ value <= deficit
<1>1. first \in Nat /\ first <= deficit /\ first <= most
  BY DEF Smaller
<1>2. TradeCost(first, rate) \in Nat /\ TradeCost(most, rate) \in Nat
  BY <1>1, CostType
<1>3. TradeCost(first, rate) <= TradeCost(most, rate)
  BY <1>1, CostMonotone
<1> QED BY <1>1, <1>2, <1>3

\* What BuyOne does: nothing, or one buy that fits the deficit and the cash.
LEMMA BuyIs ==
  ASSUME TypeOK, BuyOne
  PROVE  \E s \in pending :
           /\ pending' = pending \ {s}
           /\ \/ UNCHANGED <<portfolio, dayCost>>
              \/ \E value \in Nat, cost \in Nat :
                   /\ value <= targetValue[s] - holdings[s]
                   /\ holdings' = [holdings EXCEPT ![s] = holdings[s] + value]
                   /\ cash' = cash - (value + cost)
                   /\ dayCost' = dayCost + cost
<1>1. PICK s \in pending :
        /\ pending' = pending \ {s}
        /\ LET deficit == targetValue[s] - holdings[s]
               most == MaxAffordable(cash, OpenRate)
               first == Smaller(deficit, most)
               value == IF first + TradeCost(first, OpenRate) > cash
                        THEN most ELSE first
               cost == TradeCost(value, OpenRate)
           IN  IF deficit > 0 /\ first > 0 /\ value > 0 /\ value + cost <= cash
               THEN /\ holdings' = [holdings EXCEPT ![s] = @ + value]
                    /\ order' = IF s \in Held THEN order ELSE order \cup {s}
                    /\ cash' = cash - (value + cost)
                    /\ dayCost' = dayCost + cost
               ELSE UNCHANGED <<portfolio, dayCost>>
  BY DEF BuyOne
<1> DEFINE deficit == targetValue[s] - holdings[s]
           most == MaxAffordable(cash, OpenRate)
           first == Smaller(deficit, most)
           value == IF first + TradeCost(first, OpenRate) > cash THEN most ELSE first
           cost == TradeCost(value, OpenRate)
<1>2. /\ s \in Stocks /\ holdings[s] \in Nat /\ targetValue[s] \in Nat /\ cash \in Int
      /\ most \in Nat
  BY AffordableType, ParameterTypes DEF TypeOK
<1>3. CASE deficit > 0 /\ value + cost <= cash
  <2>1. deficit \in Nat
    BY <1>2, <1>3
  <2>2. value \in Nat /\ value <= deficit
    <3> HIDE DEF deficit, most
    <3> QED BY <1>2, <1>3, <2>1, BuyWithinDeficit, ParameterTypes
  <2>3. cost \in Nat
    <3> HIDE DEF value
    <3>1. value \in Int /\ OpenRate \in Nat
      BY <2>2, ParameterTypes
    <3> QED BY <3>1, CostType
  <2>4. \/ UNCHANGED <<portfolio, dayCost>>
        \/ /\ holdings' = [holdings EXCEPT ![s] = holdings[s] + value]
           /\ cash' = cash - (value + cost)
           /\ dayCost' = dayCost + cost
    BY <1>1
  <2> HIDE DEF value, cost
  <2> QED BY <1>1, <2>2, <2>3, <2>4 DEF deficit
<1>4. CASE ~(deficit > 0 /\ value + cost <= cash)
  BY <1>1, <1>4
<1> QED BY <1>3, <1>4

(***************************************************************************)
(* The ledger balances from the opening of a day to its mark.              *)
(***************************************************************************)
LEMMA InitLedger == Init => Ledger
BY EngineAssumption DEF Init, Ledger, Trading, DayAccounting

\* Marking to market: the net return is the gross one less the costs.
LEMMA MarkBalances ==
  ASSUME Inv, Ledger, MarkToMarket
  PROVE  out'.net = out'.gross - out'.cost
<1> DEFINE marked == [s \in Stocks |-> Marked(s)]
           gain == [s \in Stocks |-> Marked(s) - holdings[s]]
<1>1. /\ TypeOK /\ holdings \in [Stocks -> Nat] /\ cash \in Int /\ dayCost \in Nat
      /\ Held \in SUBSET Stocks /\ startValue \in Int /\ IsFiniteSet(Stocks)
      /\ cash + Total(holdings, Stocks) + dayCost = startValue
  BY StocksAssumption DEF Inv, TypeOK, Held, Ledger, Trading, MarkToMarket
<1>2. \A s \in Stocks : Marked(s) \in Nat
  BY <1>1, MarkedType
<1>3. /\ marked \in [Stocks -> Nat]
      /\ \A s \in Stocks : /\ gain[s] \in Int /\ marked[s] = holdings[s] + gain[s]
                           /\ s \notin Held => gain[s] = 0
  BY <1>1, <1>2 DEF Marked
<1>4. /\ out'.net = cash + Total(marked, Stocks) - startValue
      /\ out'.gross = Total(gain, Held) /\ out'.cost = dayCost
  BY DEF MarkToMarket
<1> HIDE DEF marked, gain
<1>5. Total(marked, Stocks) = Total(holdings, Stocks) + Total(gain, Stocks)
  <2>1. \A s \in Stocks : /\ marked[s] \in Int /\ holdings[s] \in Int /\ gain[s] \in Int
                          /\ marked[s] = holdings[s] + gain[s]
    BY <1>1, <1>3
  <2> QED BY <1>1, <2>1, SumLinear, TotalIsSum
<1>6. Total(gain, Stocks) = Total(gain, Held)
  <2>1. IsFiniteSet(Stocks \ Held) /\ IsFiniteSet(Held)
    BY <1>1, FS_Subset
  <2>2. \A s \in Stocks : gain[s] \in Int
    BY <1>3
  <2>3. SumFunctionOnSet(gain, Stocks) =
          SumFunctionOnSet(gain, Held) + SumFunctionOnSet(gain, Stocks \ Held)
    BY <1>1, <2>2, SumSplit
  <2>4. SumFunctionOnSet(gain, Stocks \ Held) = 0
    BY <1>3, <2>1, SumZero
  <2>5. SumFunctionOnSet(gain, Held) \in Int
    BY <1>1, <2>1, <2>2, SumInt
  <2> QED BY <2>3, <2>4, <2>5, TotalIsSum
<1>7. Total(holdings, Stocks) \in Nat
  BY <1>1, PortfolioValue
<1>8. Total(gain, Held) \in Int
  <2>1. IsFiniteSet(Held) /\ \A s \in Held : gain[s] \in Int
    BY <1>1, <1>3, FS_Subset
  <2> QED BY <2>1, SumInt, TotalIsSum
<1> QED BY <1>1, <1>4, <1>5, <1>6, <1>7, <1>8

\* Every step keeps the ledger of the day.
LEMMA NextLedger ==
  ASSUME Inv, Ledger, [Next]_vars
  PROVE  Ledger'
<1>1. /\ TypeOK /\ holdings \in [Stocks -> Nat] /\ cash \in Int /\ dayCost \in Nat
      /\ startValue \in Int /\ DayAccounting
      /\ Trading => cash + Total(holdings, Stocks) + dayCost = startValue
      /\ Total(holdings, Stocks) \in Nat
  BY PortfolioValue DEF Inv, TypeOK, Ledger
<1>2. ASSUME Trading, startValue' = startValue, out' = out,
             cash' + Total(holdings', Stocks) + dayCost'
               = cash + Total(holdings, Stocks) + dayCost
      PROVE  Ledger'
  <2>1. Total(holdings, Stocks)' = Total(holdings', Stocks)
    OBVIOUS
  <2> QED BY <1>1, <1>2, <2>1 DEF Ledger, DayAccounting
<1>3. CASE OpenDay
  <2>1. /\ startValue' = Equity /\ dayCost' = 0 /\ UNCHANGED <<cash, holdings>>
        /\ out' = [gross |-> 0, net |-> 0, cost |-> 0]
    BY <1>3 DEF OpenDay, portfolio
  <2>2. Total(holdings, Stocks)' = Total(holdings, Stocks)
    BY <2>1
  <2>3. startValue' \in Int /\ cash' + Total(holdings, Stocks)' + dayCost' = startValue'
    BY <1>1, <2>1, <2>2 DEF Equity
  <2>4. DayAccounting'
    BY <2>1 DEF DayAccounting
  <2> QED BY <2>3, <2>4 DEF Ledger
<1>4. CASE Rebalance \/ PlanTargets \/ BeginBuys \/ EndBuys \/ EndExits
  <2>1. Trading /\ UNCHANGED <<startValue, out, cash, holdings, dayCost>>
    BY <1>4 DEF Rebalance, PlanTargets, BeginBuys, EndBuys, EndExits, Trading, portfolio
  <2> QED BY <1>2, <2>1
<1>5. CASE SellOne
  <2>1. PICK s \in pending : SellDown(s, holdings[s], 0)
    BY <1>5 DEF SellOne
  <2>2. s \in Stocks /\ holdings[s] \in Nat /\ holdings[s] = holdings[s] - 0
    BY <1>1 DEF TypeOK
  <2>3. Trading /\ startValue' = startValue /\ out' = out
    BY <1>5 DEF SellOne, Trading
  <2> QED BY <1>1, <1>2, <2>1, <2>2, <2>3, SaleBalances
<1>6. CASE TrimOne
  <2>1. PICK s \in pending :
          IF holdings[s] > targetValue[s]
          THEN SellDown(s, holdings[s] - targetValue[s], targetValue[s])
          ELSE UNCHANGED <<holdings, cash, dayCost>>
    BY <1>6 DEF TrimOne
  <2>2. s \in Stocks /\ holdings[s] \in Nat /\ targetValue[s] \in Nat
    BY <1>1 DEF TypeOK
  <2>3. Trading /\ startValue' = startValue /\ out' = out
    BY <1>6 DEF TrimOne, Trading
  <2>4. cash' + Total(holdings', Stocks) + dayCost' = cash + Total(holdings, Stocks) + dayCost
    <3>1. CASE holdings[s] > targetValue[s]
      BY <1>1, <2>1, <2>2, <3>1, SaleBalances
    <3>2. CASE ~(holdings[s] > targetValue[s])
      BY <2>1, <3>2
    <3> QED BY <3>1, <3>2
  <2> QED BY <1>2, <2>3, <2>4
<1>7. CASE BuyOne
  <2>1. PICK s \in pending :
          \/ UNCHANGED <<portfolio, dayCost>>
          \/ \E value \in Nat, cost \in Nat :
               /\ value <= targetValue[s] - holdings[s]
               /\ holdings' = [holdings EXCEPT ![s] = holdings[s] + value]
               /\ cash' = cash - (value + cost)
               /\ dayCost' = dayCost + cost
    BY <1>1, <1>7, BuyIs
  <2>2. s \in Stocks /\ holdings[s] \in Nat
    BY <1>1 DEF TypeOK
  <2>3. Trading /\ startValue' = startValue /\ out' = out
    BY <1>7 DEF BuyOne, Trading
  <2>4. cash' + Total(holdings', Stocks) + dayCost' = cash + Total(holdings, Stocks) + dayCost
    <3>1. CASE UNCHANGED <<portfolio, dayCost>>
      BY <3>1 DEF portfolio
    <3>2. ASSUME NEW value \in Nat, NEW cost \in Nat,
                 holdings' = [holdings EXCEPT ![s] = holdings[s] + value],
                 cash' = cash - (value + cost), dayCost' = dayCost + cost
          PROVE  cash' + Total(holdings', Stocks) + dayCost'
                   = cash + Total(holdings, Stocks) + dayCost
      <4>1. Total(holdings', Stocks) = Total(holdings, Stocks) - holdings[s] + (holdings[s] + value)
        <5>1. holdings[s] + value \in Nat
          BY <2>2
        <5> QED BY <1>1, <2>2, <3>2, <5>1, OneChanged
      <4> QED BY <1>1, <2>2, <3>2, <4>1
    <3> QED BY <2>1, <3>1, <3>2
  <2> QED BY <1>2, <2>3, <2>4
<1>8. CASE ExitOne
  <2>1. PICK s \in pending :
          \/ SellDown(s, holdings[s], 0)
          \/ UNCHANGED <<holdings, cash, dayCost>>
    BY <1>8 DEF ExitOne
  <2>2. s \in Stocks /\ holdings[s] \in Nat /\ holdings[s] = holdings[s] - 0
    BY <1>1 DEF TypeOK
  <2>3. Trading /\ startValue' = startValue /\ out' = out
    BY <1>8 DEF ExitOne, Trading
  <2>4. cash' + Total(holdings', Stocks) + dayCost' = cash + Total(holdings, Stocks) + dayCost
    BY <1>1, <2>1, <2>2, SaleBalances
  <2> QED BY <1>2, <2>3, <2>4
<1>9. CASE MarkToMarket
  <2>1. DayAccounting'
    BY <1>9, MarkBalances DEF DayAccounting
  <2>2. pc' \in {"open", "done"} /\ startValue' = 0
    BY <1>9 DEF MarkToMarket
  <2> QED BY <2>1, <2>2 DEF Ledger, Trading
<1>10. CASE Done \/ UNCHANGED vars
  <2>1. UNCHANGED <<pc, startValue, out, cash, holdings, dayCost>>
    BY <1>10 DEF Done, vars, portfolio
  <2>2. Total(holdings, Stocks)' = Total(holdings, Stocks)
    BY <2>1
  <2> QED BY <1>1, <2>1, <2>2 DEF Ledger, Trading, DayAccounting
<1> QED BY <1>3, <1>4, <1>5, <1>6, <1>7, <1>8, <1>9, <1>10 DEF Next

(***************************************************************************)
(* The three figures of every output row agree.                            *)
(***************************************************************************)
THEOREM DaysBalance == Spec => []DayAccounting
<1>1. Init => Ledger
  BY InitLedger
<1>2. Inv /\ Ledger /\ [Next]_vars => Ledger'
  BY NextLedger
<1>3. Ledger => DayAccounting
  BY DEF Ledger
<1> QED BY <1>1, <1>2, <1>3, InvInductive, PTL DEF Spec

-----------------------------------------------------------------------------
(* The exposure of a rebalance.                                            *)

(***************************************************************************)
(* Weights that sum to at most one share out at most the budget.           *)
(***************************************************************************)
LEMMA SharesFit ==
  ASSUME NEW S \in SUBSET Stocks, NEW w \in WeightVectors(S), NEW budget \in Nat,
         NEW t, t = [s \in Stocks |-> IF s \in S THEN (w[s] * budget) \div WeightUnits ELSE 0]
  PROVE  t \in [Stocks -> Nat] /\ Total(t, Stocks) <= budget
<1>1. /\ IsFiniteSet(Stocks) /\ IsFiniteSet(S) /\ IsFiniteSet(Stocks \ S)
      /\ WeightUnits \in Nat \ {0}
  BY StocksAssumption, FS_Subset, ParameterTypes
<1>2. /\ \A s \in S : w[s] \in Nat
      /\ SumFunctionOnSet(w, S) <= WeightUnits
  BY <1>1, TotalIsSum DEF WeightVectors
<1>3. ASSUME NEW s \in S
      PROVE  t[s] \in Nat /\ WeightUnits * t[s] <= budget * w[s]
  <2>1. w[s] \in Nat /\ t[s] = (w[s] * budget) \div WeightUnits
    BY <1>2, <1>3
  <2>2. w[s] * budget \in Nat /\ budget * w[s] = w[s] * budget
    BY <2>1
  <2> DEFINE n == w[s] * budget
  <2>3. n \div WeightUnits \in Nat /\ WeightUnits * (n \div WeightUnits) <= n
    <3> HIDE DEF n
    <3>0. n \in Nat
      BY <2>2 DEF n
    <3> QED BY <1>1, <3>0
  <2> QED BY <2>1, <2>2, <2>3
<1>4. \A s \in Stocks \ S : t[s] = 0
  OBVIOUS
<1>5. t = [s \in Stocks |-> t[s]]
  OBVIOUS
<1>6. t \in [Stocks -> Nat]
  BY <1>3, <1>4, <1>5
<1>7. WeightUnits * SumFunctionOnSet(t, S) <= budget * SumFunctionOnSet(w, S)
  <2>1. \A s \in S : t[s] \in Int /\ w[s] \in Int /\ WeightUnits * t[s] <= budget * w[s]
    BY <1>2, <1>3
  <2>2. WeightUnits \in Nat
    BY <1>1
  <2> QED BY <1>1, <2>1, <2>2, SumScaled
<1>8. SumFunctionOnSet(t, Stocks) = SumFunctionOnSet(t, S) + 0
  <2>1. \A s \in Stocks : t[s] \in Int
    BY <1>6
  <2>2. SumFunctionOnSet(t, Stocks \ S) = 0
    BY <1>1, <1>4, SumZero
  <2>3. SumFunctionOnSet(t, Stocks) =
          SumFunctionOnSet(t, S) + SumFunctionOnSet(t, Stocks \ S)
    BY <1>1, <2>1, SumSplit
  <2> QED BY <2>2, <2>3
<1> DEFINE x == SumFunctionOnSet(t, S)
           y == SumFunctionOnSet(w, S)
<1>9. x \in Nat /\ y \in Nat
  <2>1. \A s \in S : t[s] \in Nat /\ w[s] \in Nat
    BY <1>2, <1>3
  <2> QED BY <1>1, <2>1, SumNat
<1> HIDE DEF x, y
<1>10. x <= budget
  <2>1. WeightUnits * x <= budget * y /\ y <= WeightUnits
    BY <1>2, <1>7 DEF x, y
  <2>2. budget * y <= budget * WeightUnits
    <3>1. PICK k \in Nat : WeightUnits = y + k
      <4>1. WeightUnits - y \in Nat /\ WeightUnits = y + (WeightUnits - y)
        BY <1>1, <1>9, <2>1
      <4> QED BY <4>1
    <3>2. budget * WeightUnits = budget * y + budget * k /\ budget * k \in Nat
      BY <1>9, <3>1
    <3> QED BY <1>9, <3>2
  <2>3. ASSUME x > budget PROVE FALSE
    <3>1. PICK k \in Nat : x = budget + 1 + k
      <4>1. x - budget - 1 \in Nat /\ x = budget + 1 + (x - budget - 1)
        BY <1>9, <2>3
      <4> QED BY <4>1
    <3>2. WeightUnits * x = WeightUnits * budget + WeightUnits + WeightUnits * k
      BY <1>1, <3>1
    <3>3. WeightUnits * k \in Nat /\ budget * WeightUnits = WeightUnits * budget
      BY <1>1
    <3>4. budget * y \in Nat /\ WeightUnits * budget \in Nat
      BY <1>1, <1>9
    <3> QED BY <1>1, <2>1, <2>2, <3>2, <3>3, <3>4
  <2> QED BY <1>9, <2>3
<1> QED BY <1>6, <1>8, <1>9, <1>10, TotalIsSum DEF x

(***************************************************************************)
(* The plan of a rebalance stays kept until the day is marked.             *)
(***************************************************************************)
LEMMA InitPlan == Init => Plan
BY DEF Init, Plan, Planned

\* Locked holdings keep their value in every phase.
LEMMA LockedValue ==
  ASSUME Inv, [Next]_vars, locked' = locked
  PROVE  Total(holdings, locked)' = Total(holdings, locked)
<1>1. /\ locked \in SUBSET Stocks /\ IsFiniteSet(locked)
      /\ \A s \in locked : holdings[s] \in Int /\ holdings[s] = holdings'[s]
  <2>1. locked \in SUBSET Stocks /\ \A s \in locked : holdings[s] \in Int
    BY DEF Inv, TypeOK
  <2>2. IsFiniteSet(locked)
    BY <2>1, StocksAssumption, FS_Subset
  <2> QED BY <2>1, <2>2, LockedStep
<1>2. Total(holdings, locked) = Total(holdings', locked)
  BY <1>1, SumAgree, TotalIsSum
<1>3. Total(holdings, locked)' = Total(holdings', locked')
  OBVIOUS
<1> QED BY <1>2, <1>3

\* Every step keeps the plan of the day within what the risk degree allows.
LEMMA NextPlan ==
  ASSUME Inv, Ledger, Plan, [Next]_vars
  PROVE  Plan'
<1>1. /\ TypeOK /\ holdings \in [Stocks -> Nat] /\ targetValue \in [Stocks -> Nat]
      /\ locked \subseteq Stocks /\ startValue \in Int /\ risk \in Int
  BY EngineAssumption DEF Inv, TypeOK, Ledger
<1>2. ASSUME Planned, Planned', UNCHANGED <<locked, targetValue, startValue, risk>>,
             \A s \in Stocks \ locked :
               (pc' = "trim" /\ s \in pending') \/ holdings'[s] <= targetValue[s]
      PROVE  Plan'
  <2>1. Total(holdings, locked)' = Total(holdings, locked)
    BY <1>2, LockedValue
  <2>2. Total(targetValue, Stocks)' = Total(targetValue, Stocks)
    BY <1>2
  <2>3. Allowed' = Allowed
    BY <1>2, <2>1 DEF Allowed, Larger
  <2>4. pc' \notin {"open", "rebalance", "sell", "exit", "done"}
    BY <1>2 DEF Planned
  <2> QED BY <1>2, <2>1, <2>2, <2>3, <2>4 DEF Plan
<1>3. ASSUME ~Planned', targets' = {} PROVE Plan'
  BY <1>3 DEF Plan
<1>4. CASE OpenDay \/ Rebalance \/ SellOne \/ ExitOne
  <2>1. targets = {} /\ targets' = targets /\ pc' \in {"rebalance", "exit", "mark", "sell"}
    BY <1>4 DEF OpenDay, DayPhase, Rebalance, SellOne, ExitOne, Plan
  <2> QED BY <1>3, <2>1 DEF Planned
<1>5. CASE EndExits \/ MarkToMarket
  <2>1. targets' = {} /\ pc' \in {"mark", "open", "done"}
    BY <1>5 DEF EndExits, MarkToMarket, Plan
  <2> QED BY <1>3, <2>1 DEF Planned
<1>6. CASE PlanTargets
  <2>1. CASE targets' = {}
    <3>1. pc' = "mark"
      BY <1>6, <2>1 DEF PlanTargets
    <3> QED BY <1>3, <2>1, <3>1 DEF Planned
  <2>2. CASE targets' # {}
    <3>1. /\ UNCHANGED <<holdings, locked, startValue, risk>> /\ pc' = "trim"
          /\ pending' = CompactOrder \ locked
          /\ targets' \subseteq (CompactOrder \ locked) \cup buyList
      BY <1>6, <2>2 DEF PlanTargets
    <3>2. PICK w \in WeightVectors(targets') :
            targetValue' = [s \in Stocks |->
                              IF s \in targets'
                              THEN (w[s] * TradableBudget) \div WeightUnits
                              ELSE 0]
      BY <1>6, <2>2 DEF PlanTargets
    <3>3. TradableBudget \in Nat
      BY DEF TradableBudget
    <3>4. targets' \in SUBSET Stocks
      BY <1>1, <3>1 DEF CompactOrder, TypeOK
    <3>5. targetValue' \in [Stocks -> Nat] /\ Total(targetValue', Stocks) <= TradableBudget
      <4> DEFINE S == targets'
                 budget == TradableBudget
                 t == targetValue'
      <4>1. /\ w \in WeightVectors(S) /\ S \in SUBSET Stocks /\ budget \in Nat
            /\ t = [s \in Stocks |-> IF s \in S THEN (w[s] * budget) \div WeightUnits ELSE 0]
        BY <3>2, <3>3, <3>4
      <4> HIDE DEF S, budget, t
      <4>2. t \in [Stocks -> Nat] /\ Total(t, Stocks) <= budget
        BY <4>1, SharesFit
      <4> QED BY <4>2 DEF t, budget
    <3>6. Total(holdings, locked) \in Nat
      BY <1>1, PortfolioValue
    <3>7. Total(targetValue', Stocks) \in Nat
      BY <3>5, PortfolioValue
    <3>8. Total(holdings, locked) + Total(targetValue', Stocks) <= Allowed
      <4> DEFINE invested == Total(holdings, locked)
                 limit == (startValue * risk) \div 100
      <4>1. limit \in Int
        <5>1. startValue * risk \in Int
          BY <1>1
        <5> QED BY <5>1
      <4>2. TradableBudget = IF limit - invested \in Nat THEN limit - invested ELSE 0
        BY DEF TradableBudget
      <4>3. Allowed = IF limit >= invested THEN limit ELSE invested
        BY DEF Allowed, Larger
      <4> HIDE DEF invested, limit
      <4>4. invested + TradableBudget <= Allowed
        BY <3>6, <4>1, <4>2, <4>3 DEF invested
      <4> QED BY <3>3, <3>5, <3>6, <3>7, <4>1, <4>3, <4>4 DEF invested
    <3>9. Allowed' = Allowed /\ Total(holdings, locked)' = Total(holdings, locked)
      <4>1. Total(holdings, locked)' = Total(holdings, locked)
        BY <3>1
      <4> QED BY <3>1, <4>1 DEF Allowed, Larger
    <3>10. Total(targetValue, Stocks)' = Total(targetValue', Stocks)
      OBVIOUS
    <3>11. \A s \in Stocks \ locked : s \in pending' \/ holdings'[s] <= targetValue'[s]
      <4>1. ASSUME NEW s \in Stocks \ locked, s \notin pending'
            PROVE  holdings[s] = 0
        <5>1. s \notin Held
          BY <3>1, <4>1 DEF CompactOrder, Inv, Books
        <5> QED BY <1>1, <5>1 DEF Held
      <4> QED BY <3>1, <3>5, <4>1
    <3> QED BY <3>1, <3>8, <3>9, <3>10, <3>11 DEF Plan
  <2> QED BY <2>1, <2>2
<1>7. CASE TrimOne
  <2>1. PICK s \in pending :
          /\ pending' = pending \ {s}
          /\ IF holdings[s] > targetValue[s]
             THEN SellDown(s, holdings[s] - targetValue[s], targetValue[s])
             ELSE UNCHANGED <<holdings, cash, dayCost>>
    BY <1>7 DEF TrimOne
  <2>2. /\ pc = "trim" /\ pc' = "trim" /\ UNCHANGED <<locked, targetValue, startValue, risk>>
        /\ s \in Stocks /\ holdings[s] \in Nat /\ targetValue[s] \in Nat
    BY <1>1, <1>7 DEF TrimOne, TypeOK
  <2>3. holdings'[s] <= targetValue[s] /\ \A u \in Stocks \ {s} : holdings'[u] = holdings[u]
    BY <1>1, <2>1, <2>2 DEF SellDown
  <2>4. \A u \in Stocks \ locked : u \in pending \/ holdings[u] <= targetValue[u]
    BY <2>2 DEF Plan, Planned
  <2> QED BY <1>2, <2>1, <2>2, <2>3, <2>4 DEF Planned
<1>8. CASE BeginBuys
  <2>1. /\ pc = "trim" /\ pc' = "buy" /\ pending = {}
        /\ UNCHANGED <<holdings, locked, targetValue, startValue, risk>>
    BY <1>8 DEF BeginBuys
  <2>2. \A u \in Stocks \ locked : holdings[u] <= targetValue[u]
    BY <2>1 DEF Plan, Planned
  <2> QED BY <1>2, <2>1, <2>2 DEF Planned
<1>9. CASE BuyOne
  <2>1. PICK s \in pending :
          \/ UNCHANGED <<portfolio, dayCost>>
          \/ \E value \in Nat, cost \in Nat :
               /\ value <= targetValue[s] - holdings[s]
               /\ holdings' = [holdings EXCEPT ![s] = holdings[s] + value]
               /\ cash' = cash - (value + cost)
               /\ dayCost' = dayCost + cost
    BY <1>1, <1>9, BuyIs
  <2>2. /\ pc = "buy" /\ pc' = "buy" /\ UNCHANGED <<locked, targetValue, startValue, risk>>
        /\ s \in Stocks /\ holdings[s] \in Nat /\ targetValue[s] \in Nat
    BY <1>1, <1>9 DEF BuyOne, TypeOK
  <2>3. \A u \in Stocks \ locked : holdings[u] <= targetValue[u]
    BY <2>2 DEF Plan, Planned
  <2>4. \A u \in Stocks \ locked : holdings'[u] <= targetValue[u]
    <3>1. CASE UNCHANGED <<portfolio, dayCost>>
      BY <2>3, <3>1 DEF portfolio
    <3>2. CASE \E value \in Nat :
                 /\ value <= targetValue[s] - holdings[s]
                 /\ holdings' = [holdings EXCEPT ![s] = holdings[s] + value]
      <4>1. holdings'[s] <= targetValue[s] /\ \A u \in Stocks \ {s} : holdings'[u] = holdings[u]
        BY <1>1, <2>2, <3>2
      <4> QED BY <2>3, <4>1
    <3> QED BY <2>1, <3>1, <3>2
  <2> QED BY <1>2, <2>2, <2>4 DEF Planned
<1>10. CASE EndBuys
  <2>1. /\ pc = "buy" /\ pc' = "mark"
        /\ UNCHANGED <<holdings, locked, targets, targetValue, startValue, risk>>
    BY <1>10 DEF EndBuys, portfolio
  <2>2. \A u \in Stocks \ locked : holdings[u] <= targetValue[u]
    BY <2>1 DEF Plan, Planned
  <2>3. CASE targets = {}
    BY <1>3, <2>1, <2>3 DEF Planned
  <2>4. CASE targets # {}
    BY <1>2, <2>1, <2>2, <2>4 DEF Planned
  <2> QED BY <2>3, <2>4
<1>11. CASE Done \/ UNCHANGED vars
  <2>1. UNCHANGED <<pc, holdings, locked, pending, targets, targetValue, startValue, risk>>
    BY <1>11 DEF Done, vars, portfolio
  <2>2. CASE Planned
    BY <1>2, <2>1, <2>2 DEF Planned, Plan
  <2>3. CASE ~Planned
    BY <2>1, <2>3 DEF Planned, Plan
  <2> QED BY <2>2, <2>3
<1> QED BY <1>4, <1>5, <1>6, <1>7, <1>8, <1>9, <1>10, <1>11 DEF Next

(***************************************************************************)
(* After a rebalance the invested value is within the risk degree, or is   *)
(* that of the locked holdings: whatever the weights, the costs, the order *)
(* of the buys and the cash there is.                                      *)
(***************************************************************************)
THEOREM WithinRisk == Spec => []ExposureWithinRisk
<1>1. Init => Ledger /\ Plan
  BY InitLedger, InitPlan
<1>2. Inv /\ (Ledger /\ Plan) /\ [Next]_vars => (Ledger /\ Plan)'
  BY NextLedger, NextPlan
<1>3. Inv /\ Ledger /\ Plan => ExposureWithinRisk
  <2> SUFFICES ASSUME Inv, Ledger, Plan, pc = "mark", targets # {}
               PROVE  Total(holdings, Stocks) <= Allowed
    BY DEF ExposureWithinRisk, Allowed
  <2> DEFINE free == Stocks \ locked
  <2>1. /\ holdings \in [Stocks -> Nat] /\ targetValue \in [Stocks -> Nat]
        /\ locked \in SUBSET Stocks /\ free \in SUBSET Stocks
        /\ IsFiniteSet(Stocks) /\ IsFiniteSet(free) /\ IsFiniteSet(locked)
        /\ startValue \in Int /\ risk \in Int
    <3>1. /\ holdings \in [Stocks -> Nat] /\ targetValue \in [Stocks -> Nat]
          /\ locked \in SUBSET Stocks /\ free \in SUBSET Stocks
          /\ startValue \in Int /\ risk \in Int
      BY EngineAssumption DEF Inv, TypeOK, Ledger
    <3> HIDE DEF free
    <3> QED BY <3>1, StocksAssumption, FS_Subset
  <2>2. /\ Total(holdings, locked) + Total(targetValue, Stocks) <= Allowed
        /\ \A s \in free : holdings[s] <= targetValue[s]
    BY DEF Plan, Planned
  <2> HIDE DEF free
  <2>3. Total(holdings, Stocks) = Total(holdings, locked) + Total(holdings, free)
    <3>1. SumFunctionOnSet(holdings, Stocks) =
            SumFunctionOnSet(holdings, locked) + SumFunctionOnSet(holdings, Stocks \ locked)
      BY <2>1, SumSplit
    <3> QED BY <3>1, TotalIsSum DEF free
  <2>4. Total(targetValue, Stocks) = Total(targetValue, locked) + Total(targetValue, free)
    <3>1. SumFunctionOnSet(targetValue, Stocks) =
            SumFunctionOnSet(targetValue, locked) + SumFunctionOnSet(targetValue, Stocks \ locked)
      BY <2>1, SumSplit
    <3> QED BY <3>1, TotalIsSum DEF free
  <2>5. Total(holdings, free) <= Total(targetValue, free)
    <3>1. \A s \in free : holdings[s] \in Int /\ targetValue[s] \in Int
      BY <2>1
    <3> QED BY <2>1, <2>2, <3>1, SumWithin, TotalIsSum
  <2>6. /\ Total(holdings, locked) \in Nat /\ Total(holdings, free) \in Nat
        /\ Total(targetValue, locked) \in Nat /\ Total(targetValue, free) \in Nat
    BY <2>1, PortfolioValue
  <2>7. Allowed \in Int
    <3>1. startValue * risk \in Int
      BY <2>1
    <3>2. (startValue * risk) \div 100 \in Int
      BY <3>1
    <3> QED BY <2>6, <3>2 DEF Allowed, Larger
  <2> QED BY <2>2, <2>3, <2>4, <2>5, <2>6, <2>7
<1>4. Inv /\ (Ledger /\ Plan) => ExposureWithinRisk
  BY <1>3
<1> QED BY <1>1, <1>2, <1>4, InvInductive, PTL DEF Spec
=============================================================================
